----------------------- MODULE MultiFileReaderProofs -----------------------
(***************************************************************************)
(* Proofs about MultiFileReader, for every ring of files, every list in it  *)
(* and every order of the server's steps and the reader's.                  *)
(*                                                                         *)
(* The inductive invariant says what the server has written (ServerOK), how *)
(* far it may be ahead of what a call has read so far (RefreshOK: that is   *)
(* where Keep + RollsPerCall < Names is needed, for a name read within a    *)
(* call to mean the file that had it when the call began), that the list of *)
(* the reader is one that the server has had, whose files lie one after the *)
(* other whatever their lengths, and in the stream's coordinates unless one *)
(* of these could not be read (ListOK), where the next read will go on      *)
(* (HoleOK), and which file is open and read (HandleOK, PlaceOK).           *)
(***************************************************************************)
EXTENDS MultiFileReader, SequenceTheorems, WellFoundedInduction, TLAPS

\* The files that have left when n have been written.
R(n) == IF n > Keep THEN n - Keep ELSE 0

\* The list of files is as old as its counts say; a file is full as soon as the next one is there.
ServerOK ==
  /\ removed = R(written)
  /\ tsbuffer.added \in {written - 1, written}
  /\ tsbuffer.removed = R(tsbuffer.added)
  /\ tsbuffer.added > 0 => tsbuffer.position <= size[tsbuffer.added]
  /\ \A n \in 1..written - 1 : size[n] = Lengths[n] /\ base[n + 1] = base[n] + Lengths[n]
  /\ \A m, n \in 1..written : m <= n => base[m] <= base[n]

Ops == {"none", "open", "read", "seek", "zap", "size"}

CallOK ==
  /\ call \in [op : Ops, method : Methods, n : Int, id : 0..MaxFiles]
  /\ call.op = "read" => call.n > 0
  /\ call.op = "zap" => call.n >= 0
  /\ rolls \in 0..RollsPerCall
  /\ pc \in {"header", "list", "footer"} => tries > 0
  /\ ~moved => copied \in [unit : Int, at : Int, n : Int, asked : Int]
  /\ call.op = "size" => ~zapping
  /\ m_TSFile \in {None, m_TSFileId}

Counts == [position : Nat, added : 0..MaxFiles, removed : 0..MaxFiles]

\* What a refresh has read so far, and how far the server may be ahead of it.
RefreshOK ==
  /\ m_filesAdded <= tsbuffer.added /\ m_filesRemoved = R(m_filesAdded)
  /\ header \in Counts /\ list \in [removed : 0..MaxFiles, added : 0..MaxFiles]
  /\ pc \in {"list", "footer", "apply", "append"} =>
       /\ m_filesAdded < header.added /\ header.added <= tsbuffer.added
       /\ header.removed = R(header.added)
       /\ header.position <= size[header.added]
       /\ written <= header.added + 1 + rolls
  /\ pc = "footer" =>
       header.added <= list.added /\ list.added <= tsbuffer.added /\ list.removed = R(list.added)
  /\ pc \in {"apply", "append"} => list.added = header.added /\ list.removed = header.removed
  /\ pc = "body" /\ refreshed => written <= m_filesAdded + 1 + rolls

\* The file at place i of a list of the files gone + 1 .. known.
FileOK(f, i, gone, known) ==
  /\ f.number = gone + i /\ f.id = f.number /\ f.number <= known
  /\ f.length <= size[f.number]
  /\ ~mismeasured => /\ f.start + origin = base[f.number]
                     /\ f.number < known => f.length = Lengths[f.number]

\* Whatever the lengths, the files lie one after the other.
Contiguous ==
  \A i \in 2..Len(m_tsFiles) :
    m_tsFiles[i].start = m_tsFiles[i - 1].start + m_tsFiles[i - 1].length

ListOK ==
  /\ Contiguous
  /\ pc = "append" =>
       \A i \in DOMAIN m_tsFiles : FileOK(m_tsFiles[i], i, header.removed, header.added)
  /\ pc = "gone" => m_tsFiles = <<>>
  /\ pc \notin {"append", "gone"} =>
       /\ \A i \in DOMAIN m_tsFiles : FileOK(m_tsFiles[i], i, m_filesRemoved, m_filesAdded)
       /\ Len(m_tsFiles) = m_filesAdded - m_filesRemoved

\* Where the next refresh will let the stream begin.
Floor == IF m_lastZapPosition > m_tsFiles[1].start THEN m_lastZapPosition ELSE m_tsFiles[1].start

\* The next read goes on where the last one ended, or where the stream begins now.
HoleOK ==
  /\ pc \in {"closed", "opening"} \/ call.op = "open" => moved
  /\ pc # "gone" /\ m_tsFiles = <<>> => moved
  /\ pc = "body" /\ refreshed /\ m_tsFiles # <<>> => m_startPosition = Floor
  /\ pc = "idle" /\ zapping /\ ~moved => m_currentPosition >= m_startPosition
  /\ pc # "gone" /\ ~moved =>
       /\ m_startPosition <= Floor
       /\ ~mismeasured => copied.unit = copied.at + origin
       /\ \/ m_currentPosition = copied.at + copied.asked
          \/ m_currentPosition > copied.at + copied.asked /\ m_currentPosition <= Floor

IInv == TypeOK /\ ServerOK /\ CallOK /\ RefreshOK /\ ListOK /\ HoleOK


\* Every set of numbers has a least one.
LEMMA LeastOf ==
  ASSUME NEW T, T \subseteq Nat, T # {}
  PROVE  \E x \in T : \A y \in T : x <= y
<1> DEFINE less == {pair \in Nat \X Nat : pair[1] < pair[2]}
<1>1. IsWellFoundedOn(less, Nat)
  BY NatLessThanWellFounded DEF OpToRel
<1>2. PICK x \in T : \A y \in T : <<y, x>> \notin less
  <2> HIDE DEF less
  <2> QED BY <1>1, WFMin
<1>3. ASSUME NEW y \in T PROVE x <= y
  <2>1. x \in Nat /\ y \in Nat
    OBVIOUS
  <2>2. ~(y < x)
    BY <1>2, <2>1
  <2> QED BY <2>1, <2>2
<1> QED BY <1>3

\* Different files of the same name are a whole ring apart.
LEMMA NamesApart ==
  ASSUME NEW m \in Nat \ {0}, NEW a \in Nat, NEW b \in Nat, a % m = b % m, b < a
  PROVE  a - b >= m
<1>1. a = m * (a \div m) + (a % m) /\ b = m * (b \div m) + (b % m)
  BY SMT
<1>2. PICK p \in Int : p = a \div m
  BY SMT
<1>3. PICK q \in Int : q = b \div m
  BY SMT
<1>4. a - b = m * (p - q)
  BY <1>1, <1>2, <1>3, SMT
<1>5. p - q >= 1
  BY <1>4, SMT
<1> QED
  BY <1>4, <1>5, SMT

\* A file younger than a whole ring is read under its name.
LEMMA HolderIs ==
  ASSUME written \in 1..MaxFiles, NEW n \in 1..written, written - n < Names
  PROVE  Holder(n) = n
<1>1. \A k \in n + 1 .. written : k % Names # n % Names
  BY NamesApart, RingAssumption
<1>2. \A k \in 1..written :
        k % Names = n % Names /\ (\A o \in k + 1 .. written : o % Names # n % Names) => k = n
  BY <1>1
<1> QED
  BY <1>1, <1>2 DEF Holder

\* What the assumption says of each constant.
LEMMA Constants ==
  /\ MaxFiles \in Nat \ {0} /\ Keep \in Nat \ {0} /\ Names \in Nat \ {0} /\ Tries \in Nat \ {0}
  /\ RollsPerCall \in Nat /\ MaxMoves \in Nat /\ MaxFaults \in Nat
  /\ Keep + RollsPerCall < Names
BY RingAssumption

\* Every file gets at least one unit.
LEMMA FilesHaveLength == \A n \in 1..MaxFiles : Lengths[n] \in Nat \ {0}
BY RingAssumption

\* A list with another length of its last file.
LEMMA Lengthened ==
  ASSUME NEW fs \in Seq(Files), fs # <<>>, NEW c \in Nat,
         NEW gs, gs = [fs EXCEPT ![Len(fs)] = [fs[Len(fs)] EXCEPT !.length = c]]
  PROVE  /\ gs \in Seq(Files) /\ gs # <<>> /\ Len(gs) = Len(fs)
         /\ \A i \in 1..Len(fs) : i # Len(fs) => gs[i] = fs[i]
         /\ gs[Len(fs)] = [fs[Len(fs)] EXCEPT !.length = c]
         /\ gs[1].start = fs[1].start
<1>1. Len(fs) \in Nat \ {0} /\ DOMAIN fs = 1..Len(fs) /\ \A i \in 1..Len(fs) : fs[i] \in Files
  OBVIOUS
<1>2. [fs[Len(fs)] EXCEPT !.length = c] \in Files
  <2>1. \A f \in Files : [f EXCEPT !.length = c] \in Files
    BY DEF Files
  <2> QED
    BY <1>1, <2>1
<1>3. gs \in Seq(Files) /\ Len(gs) = Len(fs)
  BY <1>1, <1>2
<1>4. /\ \A i \in 1..Len(fs) : i # Len(fs) => gs[i] = fs[i]
      /\ gs[Len(fs)] = [fs[Len(fs)] EXCEPT !.length = c]
  BY <1>1
<1>5. gs[1].start = fs[1].start
  BY <1>1, <1>4 DEF Files
<1> QED
  BY <1>1, <1>3, <1>4, <1>5

\* A list without its first n files.
Without(gs, n, fs) ==
  /\ gs \in Seq(Files)
  /\ n < Len(fs) => Len(gs) = Len(fs) - n
  /\ \A i \in 1..Len(gs) : n + i \in 1..Len(fs) /\ gs[i] = fs[n + i]
  /\ gs = <<>> <=> n >= Len(fs)

LEMMA Shortened ==
  ASSUME NEW fs \in Seq(Files), NEW n \in Nat, NEW gs, gs = SubSeq(fs, n + 1, Len(fs))
  PROVE  Without(gs, n, fs)
<1>1. Len(fs) \in Nat /\ \A i \in 1..Len(fs) : fs[i] \in Files
  OBVIOUS
<1>2. /\ gs \in Seq(Files)
      /\ Len(gs) = IF n + 1 <= Len(fs) THEN Len(fs) - (n + 1) + 1 ELSE 0
      /\ \A i \in 1 .. Len(fs) - (n + 1) + 1 : gs[i] = fs[(n + 1) + i - 1]
  BY <1>1, SubSeqProperties
<1>3. \A i \in 1 .. Len(gs) : (n + 1) + i - 1 = n + i /\ n + i \in 1..Len(fs)
  BY <1>1, <1>2
<1>4. \A i \in 1..Len(gs) : gs[i] = fs[n + i]
  BY <1>1, <1>2, <1>3
<1>5. gs = <<>> <=> Len(gs) = 0
  BY <1>2, EmptySeq
<1> QED
  BY <1>1, <1>2, <1>3, <1>4, <1>5 DEF Without

\* The types of what the steps reckon with: the server's files,
LEMMA ServerTypes ==
  ASSUME IInv
  PROVE  /\ written \in 1..MaxFiles /\ removed \in 0..MaxFiles
         /\ base \in [1..MaxFiles -> Nat] /\ size \in [1..MaxFiles -> Nat]
         /\ tsbuffer.added \in 0..MaxFiles /\ tsbuffer.removed \in 0..MaxFiles
         /\ tsbuffer.position \in Nat /\ tsbuffer.added <= written
<1>0. TypeOK /\ ServerOK
  BY DEF IInv
<1>1. written \in 1..MaxFiles /\ removed \in 0..MaxFiles
  BY <1>0 DEF TypeOK
<1>2. base \in [1..MaxFiles -> Nat] /\ size \in [1..MaxFiles -> Nat]
  BY <1>0 DEF TypeOK
<1>3. /\ tsbuffer.added \in 0..MaxFiles /\ tsbuffer.removed \in 0..MaxFiles
      /\ tsbuffer.position \in Nat
  BY <1>0 DEF TypeOK
<1>4. tsbuffer.added <= written
  <2>1. tsbuffer.added \in {written - 1, written}
    BY <1>0 DEF ServerOK
  <2> QED
    BY <1>1, <2>1
<1> QED
  BY <1>1, <1>2, <1>3, <1>4

\* the reader's counts,
LEMMA CountTypes ==
  ASSUME IInv
  PROVE  /\ m_filesAdded \in 0..MaxFiles /\ m_filesRemoved \in 0..MaxFiles
         /\ header.added \in 0..MaxFiles /\ header.removed \in 0..MaxFiles /\ header.position \in Nat
         /\ list.added \in 0..MaxFiles /\ list.removed \in 0..MaxFiles
         /\ rolls \in 0..RollsPerCall
         /\ m_filesAdded <= tsbuffer.added
<1>0. TypeOK /\ CallOK /\ RefreshOK
  BY DEF IInv
<1>1. m_filesAdded \in 0..MaxFiles /\ m_filesRemoved \in 0..MaxFiles
  BY <1>0 DEF TypeOK
<1>2. header.added \in 0..MaxFiles /\ header.removed \in 0..MaxFiles /\ header.position \in Nat
  <2>1. header \in Counts
    BY <1>0 DEF RefreshOK
  <2> QED
    BY <2>1 DEF Counts
<1>3. list.added \in 0..MaxFiles /\ list.removed \in 0..MaxFiles
  BY <1>0 DEF RefreshOK
<1>4. rolls \in 0..RollsPerCall
  BY <1>0 DEF CallOK
<1>5. m_filesAdded <= tsbuffer.added
  BY <1>0 DEF RefreshOK
<1> QED
  BY <1>1, <1>2, <1>3, <1>4, <1>5

\* and its list.
LEMMA ListTypes ==
  ASSUME IInv
  PROVE  /\ m_tsFiles \in Seq(Files)
         /\ DOMAIN m_tsFiles = 1..Len(m_tsFiles) /\ Len(m_tsFiles) \in Nat
         /\ \A i \in 1..Len(m_tsFiles) :
              /\ m_tsFiles[i].number \in 1..MaxFiles /\ m_tsFiles[i].id \in 1..MaxFiles
              /\ m_tsFiles[i].start \in Nat /\ m_tsFiles[i].length \in Nat
<1>1. m_tsFiles \in Seq(Files)
  BY DEF IInv, TypeOK
<1>2. DOMAIN m_tsFiles = 1..Len(m_tsFiles) /\ Len(m_tsFiles) \in Nat
  BY <1>1, LenProperties
<1>3. \A i \in 1..Len(m_tsFiles) : m_tsFiles[i] \in Files
  BY <1>1, ElementOfSeq
<1> QED
  BY <1>1, <1>2, <1>3 DEF Files

\* Once a header has been read: where it stands between the reader's list and the server's.
LEMMA HeaderIsBetween ==
  ASSUME IInv, pc \in {"list", "footer", "apply", "append"}
  PROVE  /\ header.added \in 1..written /\ header.added <= tsbuffer.added
         /\ m_filesAdded < header.added /\ header.removed = R(header.added)
         /\ header.position <= size[header.added]
         /\ written <= header.added + 1 + rolls
<1>1. /\ m_filesAdded < header.added /\ header.added <= tsbuffer.added
      /\ header.removed = R(header.added) /\ header.position <= size[header.added]
      /\ written <= header.added + 1 + rolls
  BY DEF IInv, RefreshOK
<1>2. m_filesAdded \in 0..MaxFiles /\ header.added \in 0..MaxFiles
  BY CountTypes
<1>3. written \in 1..MaxFiles /\ tsbuffer.added \in 0..MaxFiles /\ tsbuffer.added <= written
  BY ServerTypes
<1>4. header.added \in 1..written
  BY <1>1, <1>2, <1>3, Constants
<1> QED
  BY <1>1, <1>4

\* A file of the list that a refresh has just read has its name still to itself.
LEMMA NameIsMine ==
  ASSUME IInv, NEW known \in 0..MaxFiles, NEW n \in 1..written,
         written <= known + 1 + rolls, n > R(known)
  PROVE  Holder(n) = n
<1>1. written - n < Names
  BY Constants DEF IInv, TypeOK, CallOK, R
<1> QED
  BY <1>1, HolderIs DEF IInv, TypeOK

\* Nothing has been written and nothing is open.
LEMMA InitOK == Init => IInv
<1> SUFFICES ASSUME Init PROVE IInv
  OBVIOUS
<1> USE Constants
<1>1. TypeOK
  <2>1. m_tsFiles \in Seq(Files)
    BY EmptySeq DEF Init
  <2>2. base \in [1..MaxFiles -> Nat] /\ size \in [1..MaxFiles -> Nat]
    BY DEF Init
  <2>3. tsbuffer \in [position : Nat, added : 0..MaxFiles, removed : 0..MaxFiles]
    BY DEF Init
  <2>4. /\ written \in 1..MaxFiles /\ removed \in 0..MaxFiles
        /\ m_filesAdded \in 0..MaxFiles /\ m_filesRemoved \in 0..MaxFiles
        /\ m_TSFileId \in 0..MaxFiles /\ m_TSFile \in 0..MaxFiles /\ tries \in 0..Tries
    BY DEF Init, None
  <2> QED
    BY <2>1, <2>2, <2>3, <2>4 DEF Init, TypeOK, NoCall
<1>2. ServerOK
  BY DEF Init, ServerOK, R
<1>3. CallOK
  BY DEF Init, CallOK, None, NoCall, Ops, Methods
<1>4. RefreshOK
  BY DEF Init, RefreshOK, R, Counts, NoHeader, NoList
<1>5. ListOK
  BY EmptySeq DEF Init, ListOK, Contiguous
<1>6. HoleOK
  BY DEF Init, HoleOK, NoCall
<1> QED
  BY <1>1, <1>2, <1>3, <1>4, <1>5, <1>6 DEF IInv

\* The server only adds behind what the reader has in its list.
LEMMA ServerStep ==
  ASSUME IInv, Server
  PROVE  IInv'
<1> USE DEF R
<1>s. /\ written \in 1..MaxFiles /\ removed \in 0..MaxFiles /\ MaxFiles \in Nat /\ Keep \in Nat \ {0}
      /\ base \in [1..MaxFiles -> Nat] /\ size \in [1..MaxFiles -> Nat]
      /\ tsbuffer.added \in 0..MaxFiles /\ tsbuffer.removed \in 0..MaxFiles
      /\ tsbuffer.position \in Nat /\ tsbuffer.added <= written
  BY ServerTypes, Constants
<1>0. /\ UNCHANGED <<window, position, handle, refresh, caller, reading>>
      /\ TypeOK /\ ServerOK /\ CallOK /\ RefreshOK /\ ListOK /\ HoleOK
  BY DEF Server, IInv
<1>h. HoleOK'
  BY <1>0 DEF HoleOK, Floor, window, position, caller, reading
<1>1. CASE Write /\ UNCHANGED rolls
  <2>0. /\ UNCHANGED <<written, removed, base, tsbuffer, rolls>>
        /\ size' = [size EXCEPT ![written] = @ + 1] /\ size[written] < Lengths[written]
    BY <1>1 DEF Write
  <2>1. size' \in [1..MaxFiles -> Nat] /\ \A n \in 1..MaxFiles : size'[n] >= size[n]
    BY <2>0, <1>s
  <2>2. \A n \in 1..written - 1 : size'[n] = size[n]
    BY <2>0, <1>s
  <2>3. TypeOK'
    BY <1>0, <2>0, <2>1 DEF TypeOK, window, position, handle, refresh, caller, reading
  <2>4. ServerOK'
    <3>1. tsbuffer.added > 0 => tsbuffer.position <= size'[tsbuffer.added]
      BY <1>0, <2>1, <1>s DEF ServerOK
    <3>2. \A n \in 1..written - 1 : size'[n] = Lengths[n] /\ base[n + 1] = base[n] + Lengths[n]
      BY <1>0, <2>2 DEF ServerOK
    <3> QED
      BY <1>0, <2>0, <3>1, <3>2 DEF ServerOK
  <2>5. CallOK'
    BY <1>0, <2>0 DEF CallOK, handle, refresh, caller, reading
  <2>6. RefreshOK'
    <3>1. pc \in {"list", "footer", "apply", "append"} => header.position <= size'[header.added]
      <4>1. pc \in {"list", "footer", "apply", "append"} =>
              header.added \in 1..MaxFiles /\ header.position \in Nat
                /\ header.position <= size[header.added]
        BY <1>s, CountTypes, HeaderIsBetween
      <4> QED
        BY <1>s, <2>1, <4>1
    <3> QED
      BY <1>0, <2>0, <3>1 DEF RefreshOK, window, refresh, caller
  <2>7. \A i \in 1..Len(m_tsFiles), gone, known \in Nat :
           FileOK(m_tsFiles[i], i, gone, known) => FileOK(m_tsFiles[i], i, gone, known)'
    BY <1>0, <1>s, <2>0, <2>1, ListTypes DEF FileOK, window
  <2>8. ListOK'
    BY <1>0, <2>7, CountTypes, ListTypes DEF ListOK, Contiguous, window, refresh, caller
  <2> QED
    BY <1>h, <2>3, <2>4, <2>5, <2>6, <2>8 DEF IInv
<1>2. CASE Publish /\ UNCHANGED rolls
  <2>0. /\ UNCHANGED <<written, removed, base, size, rolls>>
        /\ tsbuffer' = [position |-> size[written], added |-> written, removed |-> removed]
    BY <1>2 DEF Publish
  <2>1. /\ tsbuffer' \in [position : Nat, added : 0..MaxFiles, removed : 0..MaxFiles]
        /\ tsbuffer'.position = size[written] /\ tsbuffer'.added = written /\ tsbuffer'.removed = removed
    BY <2>0, <1>s
  <2>2. TypeOK'
    BY <1>0, <2>0, <2>1 DEF TypeOK, window, position, handle, refresh, caller, reading
  <2>3. ServerOK'
    BY <1>0, <2>0, <2>1, <1>s DEF ServerOK
  <2>4. CallOK'
    BY <1>0, <2>0 DEF CallOK, handle, refresh, caller, reading
  <2>5. RefreshOK'
    <3>1. tsbuffer'.added >= tsbuffer.added
      BY <2>1, <1>s
    <3>2. /\ m_filesAdded <= tsbuffer'.added
          /\ pc \in {"list", "footer", "apply", "append"} => header.added <= tsbuffer'.added
          /\ pc = "footer" => list.added <= tsbuffer'.added
      <4>1. m_filesAdded \in Nat /\ header.added \in Nat /\ list.added \in Nat
        BY CountTypes, <1>s
      <4>2. /\ m_filesAdded <= tsbuffer.added
            /\ pc \in {"list", "footer", "apply", "append"} => header.added <= tsbuffer.added
            /\ pc = "footer" => list.added <= tsbuffer.added
        BY <1>0 DEF RefreshOK
      <4> QED
        BY <1>s, <2>1, <4>1, <4>2
    <3> QED
      BY <1>0, <2>0, <3>2 DEF RefreshOK, window, refresh, caller
  <2>6. ListOK'
    BY <1>0, <2>0 DEF ListOK, Contiguous, FileOK, window, refresh, caller
  <2> QED
    BY <1>h, <2>2, <2>3, <2>4, <2>5, <2>6 DEF IInv
<1>3. CASE Roll /\ IF pc \in {"closed", "idle", "gone"}
                   THEN UNCHANGED rolls
                   ELSE rolls < RollsPerCall /\ rolls' = rolls + 1
  <2>0. /\ written < MaxFiles /\ size[written] = Lengths[written] /\ tsbuffer.added = written
        /\ written' = written + 1
        /\ removed' = IF written + 1 - removed > Keep THEN removed + 1 ELSE removed
        /\ base' = [base EXCEPT ![written + 1] = base[written] + size[written]]
        /\ UNCHANGED <<size, tsbuffer>>
    BY <1>3 DEF Roll
  <2>1. base' \in [1..MaxFiles -> Nat] /\ \A n \in 1..written : base'[n] = base[n]
    BY <2>0, <1>s
  <2>2. base'[written + 1] = base[written] + Lengths[written]
    BY <2>0, <1>s
  <2>r. removed' = R(written') /\ removed' \in 0..MaxFiles /\ written' \in 1..MaxFiles
    BY <1>0, <2>0, <1>s DEF ServerOK
  <2>3. TypeOK'
    BY <1>0, <2>0, <2>1, <2>r DEF TypeOK, window, position, handle, refresh, caller, reading
  <2>4. ServerOK'
    <3>1. \A n \in 1..written : size[n] = Lengths[n] /\ base'[n + 1] = base'[n] + Lengths[n]
      BY <1>0, <2>0, <2>1, <2>2, <1>s DEF ServerOK
    <3>2. \A m, n \in 1..written : m <= n => base'[m] <= base'[n]
      BY <1>0, <2>1, <1>s DEF ServerOK
    <3>3. \A m \in 1..written : base'[m] <= base'[written + 1]
      <4>1. \A m \in 1..written : base[m] <= base[written]
        BY <1>0, <1>s DEF ServerOK
      <4> QED
        BY <4>1, <2>1, <2>2, <1>s, FilesHaveLength
    <3>4. \A m, n \in 1..written + 1 : m <= n => base'[m] <= base'[n]
      BY <3>2, <3>3, <2>0, <2>1, <1>s
    <3>5. written' - 1 = written /\ tsbuffer'.added = written' - 1
      BY <2>0, <1>s
    <3> QED
      BY <1>0, <2>0, <2>r, <3>1, <3>4, <3>5 DEF ServerOK
  <2>5. rolls' \in 0..RollsPerCall /\ (pc \notin {"closed", "idle", "gone"} => rolls' = rolls + 1)
    BY <1>3, CountTypes, Constants
  <2>6. CallOK'
    BY <1>0, <2>5 DEF CallOK, handle, refresh, caller, reading
  <2>7. RefreshOK'
    <3>1. pc \in {"list", "footer", "apply", "append"} => written' <= header.added + 1 + rolls'
      <4>1. pc \in {"list", "footer", "apply", "append"} =>
              header.added \in 1..written /\ written <= header.added + 1 + rolls
        BY HeaderIsBetween
      <4>2. rolls \in Nat
        BY CountTypes, Constants
      <4> QED
        BY <1>s, <2>0, <2>5, <4>1, <4>2
    <3>2. pc = "body" /\ refreshed => written' <= m_filesAdded + 1 + rolls'
      BY <1>0, <2>0, <2>5, <1>s, CountTypes DEF RefreshOK
    <3> QED
      BY <1>0, <2>0, <3>1, <3>2 DEF RefreshOK, window, refresh, caller
  <2>8. \A i \in 1..Len(m_tsFiles), gone, known \in Nat :
           FileOK(m_tsFiles[i], i, gone, known) /\ known <= written
             => FileOK(m_tsFiles[i], i, gone, known)'
    BY <1>0, <1>s, <2>0, <2>1, ListTypes DEF FileOK, window
  <2>9. m_filesAdded <= written /\ (pc = "append" => header.added <= written)
    BY <1>0, <1>s, CountTypes DEF RefreshOK
  <2>10. ListOK'
    BY <1>0, <2>8, <2>9, CountTypes, ListTypes DEF ListOK, Contiguous, window, refresh, caller
  <2> QED
    BY <1>h, <2>3, <2>4, <2>6, <2>7, <2>10 DEF IInv
<1> QED
  BY <1>1, <1>2, <1>3 DEF Server

\* Outside a refresh nothing is said of it, and the list is that of the last one.
LEMMA OutsideRefresh ==
  ASSUME IInv, UNCHANGED <<server, window, header, list>>,
         pc \notin {"append", "gone"}, pc' \in {"closed", "opening", "idle", "header"}
  PROVE  ServerOK' /\ RefreshOK' /\ ListOK'
<1>0. ServerOK /\ RefreshOK /\ ListOK
  BY DEF IInv
<1>1. ServerOK'
  BY <1>0 DEF ServerOK, server
<1>2. RefreshOK'
  BY <1>0 DEF RefreshOK, server, window
<1>3. ListOK'
  <2>1. UNCHANGED <<m_tsFiles, m_filesAdded, m_filesRemoved, origin, mismeasured, base, size>>
    BY DEF server, window
  <2>2. /\ Contiguous
        /\ \A i \in DOMAIN m_tsFiles : FileOK(m_tsFiles[i], i, m_filesRemoved, m_filesAdded)
        /\ Len(m_tsFiles) = m_filesAdded - m_filesRemoved
    BY <1>0 DEF ListOK
  <2> QED
    BY <2>1, <2>2 DEF ListOK, Contiguous, FileOK
<1> QED
  BY <1>1, <1>2, <1>3

\* A call that begins.
LEMMA Begun ==
  ASSUME IInv, pc \in {"closed", "opening", "idle"},
         NEW op \in Ops, NEW method \in Methods, NEW n \in Int, NEW id \in 0..MaxFiles,
         Begin(op, method, n, id),
         UNCHANGED <<server, window, position, handle, header, list, zapping, reading, rolls>>,
         op = "read" => n > 0, op = "zap" => n >= 0, op = "size" => ~zapping,
         op = "open" => pc \in {"closed", "opening"}, m_TSBufferFile' \in BOOLEAN
  PROVE  IInv'
<1>0. TypeOK /\ CallOK /\ HoleOK
  BY DEF IInv
<1>1. /\ pc' = "header" /\ tries' = Tries /\ call' = [op |-> op, method |-> method, n |-> n, id |-> id]
  BY DEF Begin
<1>2. /\ call'.op = op /\ call'.n = n /\ call' \in [op : Ops, method : Methods, n : Int, id : 0..MaxFiles]
  BY <1>1
<1>3. TypeOK'
  BY <1>0, <1>1, <1>2, Constants DEF TypeOK, server, window, position, handle, reading, Ops
<1>4. CallOK'
  BY <1>0, <1>1, <1>2, Constants DEF CallOK, handle, reading
<1>5. HoleOK'
  <2>1. UNCHANGED <<m_tsFiles, mismeasured, refreshed, m_startPosition, m_currentPosition,
                    m_lastZapPosition, origin, copied, moved>>
    BY DEF window, position, reading
  <2>2. pc # "gone" /\ pc # "body"
    OBVIOUS
  <2> QED
    BY <1>0, <1>1, <1>2, <2>1, <2>2 DEF HoleOK, Floor
<1>6. ServerOK' /\ RefreshOK' /\ ListOK'
  BY <1>1, OutsideRefresh
<1> QED
  BY <1>3, <1>4, <1>5, <1>6 DEF IInv

\* Opening, closing, and the calls of Kodi and of the demultiplexer.
Calls ==
  \/ OpenFile \/ OpenTimesOut \/ CloseFile
  \/ (\E n \in Requests : Read(n)) \/ (\E move \in Moves : Seek(move)) \/ Zap
  \/ GetFileSize \/ OnChannelChange

LEMMA CallStep ==
  ASSUME IInv, Calls
  PROVE  IInv'
<1>0. TypeOK /\ CallOK /\ HoleOK /\ ListOK
  BY DEF IInv
<1>f. m_TSBufferFile \in BOOLEAN
  BY <1>0 DEF TypeOK
<1>1. CASE OpenFile
  <2>0. m_TSBufferFile' \in BOOLEAN
    BY <1>1 DEF OpenFile
  <2>1. CASE tsbuffer.added > 0
    BY <1>1, <2>0, <2>1, Begun, Constants DEF OpenFile, Ops, Methods, None
  <2>2. CASE ~(tsbuffer.added > 0)
    <3>1. /\ pc = "closed" /\ pc' = "opening"
          /\ UNCHANGED <<server, window, position, handle, tries, header, list, call, zapping,
                         reading, rolls>>
      BY <1>1, <2>2 DEF OpenFile
    <3>2. TypeOK'
      BY <1>0, <2>0, <3>1 DEF TypeOK, server, window, position, handle, reading
    <3>3. CallOK'
      BY <1>0, <3>1 DEF CallOK, handle, reading
    <3>4. HoleOK'
      BY <1>0, <3>1 DEF HoleOK, Floor, window, position, reading
    <3>5. ServerOK' /\ RefreshOK' /\ ListOK'
      BY <3>1, OutsideRefresh
    <3> QED
      BY <3>2, <3>3, <3>4, <3>5 DEF IInv
  <2> QED
    BY <2>1, <2>2
<1>2. CASE OpenTimesOut
  <2>1. /\ pc = "opening" /\ pc' = "closed"
        /\ UNCHANGED <<server, window, position, handle, refresh, call, zapping, reading, rolls>>
    BY <1>2 DEF OpenTimesOut
  <2>2. TypeOK'
    BY <1>0, <2>1 DEF TypeOK, server, window, position, handle, refresh, reading
  <2>3. CallOK'
    BY <1>0, <2>1 DEF CallOK, handle, reading
  <2>4. HoleOK'
    BY <1>0, <2>1 DEF HoleOK, Floor, window, position, reading
  <2>5. ServerOK' /\ RefreshOK' /\ ListOK'
    BY <2>1, OutsideRefresh DEF refresh
  <2> QED
    BY <2>2, <2>3, <2>4, <2>5 DEF IInv
<1>3. CASE CloseFile
  <2>1. /\ pc = "idle" /\ pc' = "gone" /\ m_tsFiles' = <<>> /\ m_TSFileId' = None /\ m_TSFile' = None
        /\ UNCHANGED <<server, m_filesAdded, m_filesRemoved, m_startPosition, m_endPosition, origin,
                       lapped, mismeasured, refreshed, position, m_currentFileStartOffset, refresh,
                       call, zapping, reading, rolls>>
    BY <1>3 DEF CloseFile
  <2>2. m_tsFiles' \in Seq(Files)
    BY <2>1, EmptySeq
  <2>3. TypeOK'
    BY <1>0, <2>1, <2>2, Constants DEF TypeOK, server, position, refresh, reading, None
  <2>4. ServerOK'
    BY <2>1 DEF IInv, ServerOK, server
  <2>5. CallOK'
    BY <1>0, <2>1 DEF CallOK, reading
  <2>6. RefreshOK'
    BY <2>1 DEF IInv, RefreshOK, server, refresh
  <2>7. ListOK'
    BY <2>1, EmptySeq DEF ListOK, Contiguous
  <2>8. HoleOK'
    BY <1>0, <2>1 DEF HoleOK, reading
  <2> QED
    BY <2>3, <2>4, <2>5, <2>6, <2>7, <2>8 DEF IInv
<1>4. ASSUME NEW n \in Requests, Read(n) PROVE IInv'
  <2>1. n \in Nat /\ n > 0
    BY RingAssumption
  <2> QED
    BY <1>4, <1>f, <2>1, Begun, Constants DEF Read, CallFrame, Ops, Methods, None
<1>5. ASSUME NEW move \in Moves, Seek(move) PROVE IInv'
  <2>1. move.method \in Methods /\ move.n \in Int
    BY RingAssumption
  <2> QED
    BY <1>5, <1>f, <2>1, Begun, Constants DEF Seek, Move, CallFrame, Ops, None
<1>6. ASSUME NEW pos \in Int, NEW id \in 0..MaxFiles, OnZap(pos, id) PROVE IInv'
  <2>1. /\ pc = "idle" /\ m_TSBufferFile' \in BOOLEAN
        /\ UNCHANGED <<server, window, position, handle, header, list, zapping, reading, rolls>>
    BY <1>6, <1>f DEF OnZap, Move, CallFrame
  <2>2. CASE pos > 0
    BY <1>6, <2>1, <2>2, Begun DEF OnZap, Ops, Methods
  <2>3. CASE ~(pos > 0)
    <3>1. PICK method \in Methods : Begin("zap", method, 0, None)
      BY <1>6, <2>3 DEF OnZap, Methods
    <3> QED
      BY <2>1, <3>1, Begun, Constants DEF Ops, None
  <2> QED
    BY <2>2, <2>3
<1>7. CASE Zap
  <2>1. size[written] \in Int /\ written \in 0..MaxFiles /\ None \in 0..MaxFiles /\ -1 \in Int /\ 0 \in Int
    BY ServerTypes, Constants DEF None
  <2> QED
    BY <1>6, <1>7, <2>1 DEF Zap
<1>8. CASE GetFileSize
  BY <1>8, <1>f, Begun, Constants DEF GetFileSize, Move, CallFrame, Ops, Methods, None
<1>9. CASE OnChannelChange
  <2>1. /\ pc = "idle" /\ zapping /\ zapping' = FALSE /\ m_lastZapPosition' = m_currentPosition
        /\ UNCHANGED <<server, window, m_currentPosition, handle, refresh, pc, call, reading, rolls>>
    BY <1>9 DEF OnChannelChange
  <2>2. TypeOK'
    BY <1>0, <2>1 DEF TypeOK, server, window, handle, refresh, reading
  <2>3. CallOK'
    BY <1>0, <2>1 DEF CallOK, handle, reading
  <2>4. HoleOK'
    <3>1. /\ UNCHANGED <<m_tsFiles, mismeasured, refreshed, m_startPosition, m_currentPosition,
                         origin, copied, moved, pc, call>>
      BY <2>1 DEF window, reading
    <3>2. m_currentPosition \in Nat /\ m_startPosition \in Nat
      BY <1>0 DEF TypeOK
    <3>3. m_tsFiles # <<>> => m_tsFiles[1].start \in Nat
      BY ListTypes, EmptySeq
    <3>4. ~moved => m_currentPosition >= m_startPosition
      BY <1>0, <2>1 DEF HoleOK
    <3>5. ~moved => m_startPosition <= Floor' /\ m_currentPosition <= Floor'
      BY <1>0, <2>1, <3>1, <3>2, <3>3, <3>4 DEF HoleOK, Floor
    <3> QED
      BY <1>0, <2>1, <3>1, <3>5 DEF HoleOK
  <2>5. ServerOK' /\ RefreshOK' /\ ListOK'
    BY <2>1, OutsideRefresh DEF refresh
  <2> QED
    BY <2>2, <2>3, <2>4, <2>5 DEF IInv
<1> QED
  BY <1>1, <1>2, <1>3, <1>4, <1>5, <1>7, <1>8, <1>9 DEF Calls

\* What SetPositions leaves: the same files, the last one with its new length.
LEMMA PositionsSet ==
  ASSUME IInv, NEW current \in Nat, SetPositions(m_tsFiles, current)
  PROVE  /\ m_tsFiles' \in Seq(Files) /\ Len(m_tsFiles') = Len(m_tsFiles)
         /\ (m_tsFiles' = <<>> <=> m_tsFiles = <<>>)
         /\ m_startPosition' \in Nat /\ m_endPosition' \in Nat
         /\ m_tsFiles # <<>> =>
              /\ \A i \in 1..Len(m_tsFiles) : i # Len(m_tsFiles) => m_tsFiles'[i] = m_tsFiles[i]
              /\ m_tsFiles'[Len(m_tsFiles)] = [m_tsFiles[Len(m_tsFiles)] EXCEPT !.length = current]
              /\ m_tsFiles'[1].start = m_tsFiles[1].start
              /\ m_startPosition' = Floor
<1>1. CASE m_tsFiles = <<>>
  <2>1. m_tsFiles' = <<>> /\ m_startPosition' = 0 /\ m_endPosition' = 0
    BY <1>1 DEF SetPositions
  <2> QED
    BY <1>1, <2>1, EmptySeq
<1>2. CASE m_tsFiles # <<>>
  <2> DEFINE last == [m_tsFiles[Len(m_tsFiles)] EXCEPT !.length = current]
             first == IF Len(m_tsFiles) = 1 THEN last ELSE m_tsFiles[1]
  <2>1. /\ m_tsFiles' = [m_tsFiles EXCEPT ![Len(m_tsFiles)] = last]
        /\ m_startPosition' = IF m_lastZapPosition > first.start
                              THEN m_lastZapPosition ELSE first.start
        /\ m_endPosition' = last.start + current
    BY <1>2 DEF SetPositions
  <2>2. Len(m_tsFiles) \in Nat \ {0} /\ m_tsFiles \in Seq(Files)
    BY <1>2, ListTypes, EmptySeq
  <2>3. m_tsFiles[1] \in Files /\ m_tsFiles[Len(m_tsFiles)] \in Files
    BY <2>2, ElementOfSeq
  <2>4. last.start = m_tsFiles[Len(m_tsFiles)].start /\ last.start \in Nat
    BY <2>3 DEF Files
  <2>5. first.start = m_tsFiles[1].start /\ first.start \in Nat
    BY <2>3, <2>4 DEF Files
  <2>6. m_lastZapPosition \in Nat
    BY DEF IInv, TypeOK
  <2>7. m_startPosition' \in Nat /\ m_endPosition' \in Nat /\ m_startPosition' = Floor
    BY <2>1, <2>4, <2>5, <2>6 DEF Floor
  <2>8. /\ m_tsFiles' \in Seq(Files) /\ m_tsFiles' # <<>> /\ Len(m_tsFiles') = Len(m_tsFiles)
        /\ \A i \in 1..Len(m_tsFiles) : i # Len(m_tsFiles) => m_tsFiles'[i] = m_tsFiles[i]
        /\ m_tsFiles'[Len(m_tsFiles)] = last
        /\ m_tsFiles'[1].start = m_tsFiles[1].start
    BY <1>2, <2>1, <2>2, Lengthened
  <2> QED
    BY <1>2, <2>7, <2>8
<1> QED
  BY <1>1, <1>2

\* They lie one after the other as before.
LEMMA Relengthened ==
  ASSUME IInv, NEW current \in Nat, SetPositions(m_tsFiles, current)
  PROVE  Contiguous'
<1>1. Len(m_tsFiles) \in Nat /\ Len(m_tsFiles') = Len(m_tsFiles)
  BY ListTypes, PositionsSet
<1>2. SUFFICES ASSUME NEW i \in 2..Len(m_tsFiles)
               PROVE  m_tsFiles'[i].start = m_tsFiles'[i - 1].start + m_tsFiles'[i - 1].length
  BY <1>1 DEF Contiguous
<1>3. m_tsFiles # <<>> /\ i \in 1..Len(m_tsFiles) /\ i - 1 \in 1..Len(m_tsFiles) /\ i - 1 # Len(m_tsFiles)
  BY <1>1, EmptySeq
<1>4. m_tsFiles'[i - 1] = m_tsFiles[i - 1]
  BY <1>3, PositionsSet
<1>5. m_tsFiles'[i].start = m_tsFiles[i].start
  <2>1. CASE i # Len(m_tsFiles)
    BY <1>3, <2>1, PositionsSet
  <2>2. CASE i = Len(m_tsFiles)
    <3>1. m_tsFiles'[i] = [m_tsFiles[i] EXCEPT !.length = current]
      BY <1>3, <2>2, PositionsSet
    <3>2. m_tsFiles[i] \in Files
      BY <1>3, ListTypes, ElementOfSeq
    <3> QED BY <3>1, <3>2 DEF Files
  <2> QED BY <2>1, <2>2
<1>6. m_tsFiles[i].start = m_tsFiles[i - 1].start + m_tsFiles[i - 1].length
  BY DEF IInv, ListOK, Contiguous
<1> QED BY <1>4, <1>5, <1>6

\* The end of a refresh that has found the list of the first "known" files.
LEMMA Refreshed ==
  ASSUME IInv, pc \in {"header", "append"},
         NEW current \in Nat, SetPositions(m_tsFiles, current),
         NEW known \in 0..MaxFiles, m_filesAdded' = known,
         NEW gone \in 0..MaxFiles, m_filesRemoved' = gone, gone = R(known),
         UNCHANGED <<server, position, handle, m_TSBufferFile, tries, call, zapping, reading, rolls,
                     lapped, mismeasured, origin>>,
         known <= tsbuffer.added, written <= known + 1 + rolls,
         known > 0 => current <= size[known],
         Len(m_tsFiles) = known - gone,
         \A i \in 1..Len(m_tsFiles) : FileOK(m_tsFiles[i], i, gone, known)
  PROVE  IInv'
<1>0. TypeOK /\ ServerOK /\ CallOK /\ HoleOK
  BY DEF IInv
<1>1. /\ pc' = "body" /\ refreshed' = TRUE /\ header' = NoHeader /\ list' = NoList
  BY DEF SetPositions
<1>2. UNCHANGED <<written, base, size, tsbuffer, origin, m_lastZapPosition, m_currentPosition, copied, moved>>
  BY DEF server, position, reading
<1>3. TypeOK'
  BY <1>0, <1>1, PositionsSet DEF TypeOK, server, position, handle, reading
<1>4. ServerOK'
  BY <1>0 DEF ServerOK, server
<1>5. CallOK'
  BY <1>0, <1>1 DEF CallOK, handle, reading
<1>6. RefreshOK'
  <2>1. header' \in Counts /\ list' \in [removed : 0..MaxFiles, added : 0..MaxFiles]
    BY <1>1, Constants DEF Counts, NoHeader, NoList
  <2> QED
    BY <1>1, <1>2, <2>1 DEF RefreshOK, R
<1>7. ListOK'
  <2>1. \A i \in 1..Len(m_tsFiles) : FileOK(m_tsFiles[i], i, gone, known)'
    <3> SUFFICES ASSUME NEW i \in 1..Len(m_tsFiles)
                 PROVE  FileOK(m_tsFiles[i], i, gone, known)'
      OBVIOUS
    <3>1. FileOK(m_tsFiles[i], i, gone, known)
      OBVIOUS
    <3>2. CASE i # Len(m_tsFiles)
      <4>1. m_tsFiles'[i] = m_tsFiles[i]
        BY <3>2, PositionsSet, ListTypes, EmptySeq
      <4> QED
        BY <1>2, <3>1, <4>1 DEF FileOK
    <3>3. CASE i = Len(m_tsFiles)
      <4>1. m_tsFiles'[i] = [m_tsFiles[i] EXCEPT !.length = current]
        BY <3>3, PositionsSet, ListTypes, EmptySeq
      <4>2. m_tsFiles[i] \in Files
        BY ListTypes, ElementOfSeq
      <4>3. m_tsFiles[i].number = known
        BY <3>1, <3>3, Constants DEF FileOK
      <4>4. /\ m_tsFiles'[i].number = known /\ m_tsFiles'[i].id = m_tsFiles[i].id
            /\ m_tsFiles'[i].start = m_tsFiles[i].start /\ m_tsFiles'[i].length = current
        BY <4>1, <4>2, <4>3 DEF Files
      <4>5. known > 0
        BY <4>2, <4>3, Constants DEF Files
      <4> QED
        BY <1>2, <3>1, <4>3, <4>4, <4>5 DEF FileOK
    <3> QED
      BY <3>2, <3>3
  <2>2. DOMAIN m_tsFiles' = 1..Len(m_tsFiles) /\ Len(m_tsFiles') = Len(m_tsFiles)
    BY PositionsSet, LenProperties
  <2>3. Contiguous'
    BY <2>2, Relengthened
  <2> QED
    BY <1>1, <2>1, <2>2, <2>3 DEF ListOK
<1>8. HoleOK'
  <2>1. CASE m_tsFiles = <<>>
    <3>1. m_tsFiles' = <<>> /\ moved
      BY <1>0, <2>1, PositionsSet DEF HoleOK
    <3> QED
      BY <1>0, <1>1, <1>2, <3>1 DEF HoleOK
  <2>2. CASE m_tsFiles # <<>>
    <3>1. m_tsFiles' # <<>> /\ m_tsFiles'[1].start = m_tsFiles[1].start /\ m_startPosition' = Floor
      BY <2>2, PositionsSet
    <3>2. Floor' = Floor
      BY <1>2, <3>1 DEF Floor
    <3>3. Floor \in Nat
      BY <3>1, PositionsSet
    <3> QED
      BY <1>0, <1>1, <1>2, <3>1, <3>2, <3>3 DEF HoleOK
  <2> QED
    BY <2>1, <2>2
<1> QED
  BY <1>3, <1>4, <1>5, <1>6, <1>7, <1>8 DEF IInv

\* Another attempt, or none any more.
LEMMA Retried ==
  ASSUME IInv, pc \in {"header", "list", "footer"}, NEW reopened \in BOOLEAN, Retry(reopened)
  PROVE  IInv'
<1>0. TypeOK /\ ServerOK /\ CallOK /\ RefreshOK /\ ListOK /\ HoleOK
  BY DEF IInv
<1>1. /\ tries' = tries - 1 /\ header' = NoHeader /\ list' = NoList
      /\ \/ tries > 1 /\ pc' = "header" /\ refreshed' = refreshed
         \/ pc' = "body" /\ refreshed' = FALSE
      /\ UNCHANGED <<server, m_tsFiles, m_filesAdded, m_filesRemoved, m_startPosition,
                     m_endPosition, origin, lapped, mismeasured, position, handle, call, zapping,
                     reading, rolls>>
      /\ m_TSBufferFile' \in BOOLEAN
  BY DEF Retry
<1>2. tries \in Nat /\ tries > 0 /\ tries - 1 \in 0..Tries
  BY <1>0, Constants DEF TypeOK, CallOK
<1>3. TypeOK'
  BY <1>0, <1>1, <1>2 DEF TypeOK, server, position, handle, reading
<1>4. ServerOK'
  BY <1>0, <1>1 DEF ServerOK, server
<1>5. CallOK'
  BY <1>0, <1>1, <1>2 DEF CallOK, handle, reading
<1>6. RefreshOK'
  <2>1. header' \in Counts /\ list' \in [removed : 0..MaxFiles, added : 0..MaxFiles]
    BY <1>1, Constants DEF Counts, NoHeader, NoList
  <2> QED
    BY <1>0, <1>1, <2>1 DEF RefreshOK, server
<1>7. ListOK'
  BY <1>0, <1>1 DEF ListOK, Contiguous, FileOK, server
<1>8. HoleOK'
  BY <1>0, <1>1 DEF HoleOK, Floor, position, reading
<1> QED
  BY <1>3, <1>4, <1>5, <1>6, <1>7, <1>8 DEF IInv

\* Nothing could be read: the call goes on with the list that it has.
LEMMA NotRefreshedStep ==
  ASSUME IInv, NotRefreshed
  PROVE  IInv'
<1>0. TypeOK /\ ServerOK /\ CallOK /\ RefreshOK /\ ListOK /\ HoleOK /\ pc = "header"
  BY DEF IInv, NotRefreshed
<1>1. /\ refreshed' = FALSE
      /\ pc' = (IF call.op = "open" THEN "opening" ELSE "body")
      /\ UNCHANGED <<server, m_tsFiles, m_filesAdded, m_filesRemoved, m_startPosition, m_endPosition,
                     origin, lapped, mismeasured, position, handle, refresh, call, zapping, reading,
                     rolls>>
  BY DEF NotRefreshed
<1>2. TypeOK'
  BY <1>0, <1>1 DEF TypeOK, server, position, handle, refresh, reading
<1>3. ServerOK'
  BY <1>0, <1>1 DEF ServerOK, server
<1>4. CallOK'
  BY <1>0, <1>1 DEF CallOK, handle, refresh, reading
<1>5. RefreshOK'
  BY <1>0, <1>1 DEF RefreshOK, server, refresh
<1>6. ListOK'
  BY <1>0, <1>1 DEF ListOK, Contiguous, FileOK, server
<1>7. HoleOK'
  BY <1>0, <1>1 DEF HoleOK, Floor, position, reading
<1> QED
  BY <1>2, <1>3, <1>4, <1>5, <1>6, <1>7 DEF IInv

\* The header: nothing new, or the counts that the list is expected to have.
LEMMA HeaderStep ==
  ASSUME IInv, ReadHeader
  PROVE  IInv'
<1>0. TypeOK /\ ServerOK /\ CallOK /\ RefreshOK /\ ListOK /\ HoleOK
  BY DEF IInv
<1>1. /\ pc = "header"
      /\ UNCHANGED <<server, m_filesAdded, m_filesRemoved, origin, lapped, mismeasured, position,
                     handle, m_TSBufferFile, tries, call, zapping, reading, rolls>>
  BY DEF ReadHeader
<1>2. m_filesRemoved = R(m_filesAdded)
  BY <1>0 DEF RefreshOK
<1>3. /\ Len(m_tsFiles) = m_filesAdded - m_filesRemoved
      /\ \A i \in 1..Len(m_tsFiles) : FileOK(m_tsFiles[i], i, m_filesRemoved, m_filesAdded)
  BY <1>0, <1>1, ListTypes DEF ListOK
<1>4. tsbuffer.removed = R(tsbuffer.added)
  BY <1>0 DEF ServerOK
<1>5. CASE tsbuffer.added = m_filesAdded /\ tsbuffer.removed = m_filesRemoved
  <2>1. SetPositions(m_tsFiles, tsbuffer.position)
    BY <1>5 DEF ReadHeader
  <2>2. written <= m_filesAdded + 1 + rolls
    <3>1. tsbuffer.added \in {written - 1, written}
      BY <1>0 DEF ServerOK
    <3>2. written \in Nat /\ rolls \in Nat
      BY ServerTypes, CountTypes, Constants
    <3> QED
      BY <1>5, <3>1, <3>2
  <2>3. m_filesAdded > 0 => tsbuffer.position <= size[m_filesAdded]
    BY <1>0, <1>5 DEF ServerOK
  <2>4. tsbuffer.position \in Nat
    BY ServerTypes
  <2>5. m_filesAdded \in 0..MaxFiles /\ m_filesRemoved \in 0..MaxFiles /\ m_filesAdded <= tsbuffer.added
    BY CountTypes
  <2>6. UNCHANGED <<server, position, handle, m_TSBufferFile, tries, call, zapping, reading, rolls,
                    lapped, mismeasured, origin>>
        /\ m_filesAdded' = m_filesAdded /\ m_filesRemoved' = m_filesRemoved
    BY <1>1
  <2> QED
    BY <1>1, <1>2, <1>3, <2>1, <2>2, <2>3, <2>4, <2>5, <2>6, Refreshed
<1>6. CASE ~(tsbuffer.added = m_filesAdded /\ tsbuffer.removed = m_filesRemoved)
  <2>1. pc' = "list" /\ header' = tsbuffer
        /\ UNCHANGED <<list, m_tsFiles, m_startPosition, m_endPosition, refreshed>>
    BY <1>6 DEF ReadHeader
  <2>2. m_filesAdded < tsbuffer.added
    <3>1. tsbuffer.added # m_filesAdded
      BY <1>2, <1>4, <1>6
    <3> QED
      BY <3>1, ServerTypes, CountTypes, Constants
  <2>3. TypeOK'
    BY <1>0, <1>1, <2>1 DEF TypeOK, server, position, handle, reading
  <2>4. ServerOK'
    BY <1>0, <1>1 DEF ServerOK, server
  <2>5. CallOK'
    BY <1>0, <1>1, <2>1 DEF CallOK, handle, reading
  <2>6. RefreshOK'
    <3>1. UNCHANGED <<written, size, tsbuffer>>
      BY <1>1 DEF server
    <3>2. header' \in Counts /\ list' \in [removed : 0..MaxFiles, added : 0..MaxFiles]
      BY <1>0, <2>1 DEF Counts, TypeOK, RefreshOK
    <3>3. tsbuffer.added > 0 /\ written <= tsbuffer.added + 1 + rolls
      <4>1. tsbuffer.added \in {written - 1, written}
        BY <1>0 DEF ServerOK
      <4>2. written \in Nat /\ rolls \in Nat /\ m_filesAdded \in Nat
        BY ServerTypes, CountTypes, Constants
      <4> QED
        BY <2>2, <4>1, <4>2
    <3>4. tsbuffer.position <= size[tsbuffer.added] /\ tsbuffer.added <= tsbuffer.added
      BY <1>0, <3>3, ServerTypes, Constants DEF ServerOK
    <3>5. m_filesAdded <= tsbuffer.added
      BY <1>0 DEF RefreshOK
    <3> QED
      BY <1>1, <1>2, <1>4, <2>1, <2>2, <3>1, <3>2, <3>3, <3>4, <3>5 DEF RefreshOK, R
  <2>7. ListOK'
    BY <1>0, <1>1, <2>1 DEF ListOK, Contiguous, FileOK, server
  <2>8. HoleOK'
    BY <1>0, <1>1, <2>1 DEF HoleOK, Floor, position, reading
  <2> QED
    BY <2>3, <2>4, <2>5, <2>6, <2>7, <2>8 DEF IInv
<1> QED
  BY <1>5, <1>6

\* The list, perhaps of a later version than the header.
LEMMA ListStep ==
  ASSUME IInv, ReadList
  PROVE  IInv'
<1>0. TypeOK /\ ServerOK /\ CallOK /\ RefreshOK /\ ListOK /\ HoleOK
  BY DEF IInv
<1>1. /\ pc = "list" /\ pc' = "footer"
      /\ list' = [removed |-> tsbuffer.removed, added |-> tsbuffer.added]
      /\ UNCHANGED <<server, window, position, handle, m_TSBufferFile, tries, header, call, zapping,
                     reading, rolls>>
  BY DEF ReadList
<1>2. TypeOK'
  BY <1>0, <1>1 DEF TypeOK, server, window, position, handle, reading
<1>3. ServerOK'
  BY <1>0, <1>1 DEF ServerOK, server
<1>4. CallOK'
  BY <1>0, <1>1 DEF CallOK, handle, reading
<1>5. RefreshOK'
  <2>1. /\ list' \in [removed : 0..MaxFiles, added : 0..MaxFiles]
        /\ list'.added = tsbuffer.added /\ list'.removed = tsbuffer.removed
    BY <1>1, ServerTypes
  <2>2. tsbuffer.removed = R(tsbuffer.added)
    BY <1>0 DEF ServerOK
  <2>3. header.added <= tsbuffer.added /\ tsbuffer.added <= tsbuffer.added
    BY <1>0, <1>1, ServerTypes, Constants DEF RefreshOK
  <2> QED
    BY <1>0, <1>1, <2>1, <2>2, <2>3 DEF RefreshOK, server, window, R
<1>6. ListOK'
  BY <1>0, <1>1 DEF ListOK, Contiguous, FileOK, server, window
<1>7. HoleOK'
  BY <1>0, <1>1 DEF HoleOK, Floor, window, position, reading
<1> QED
  BY <1>2, <1>3, <1>4, <1>5, <1>6, <1>7 DEF IInv

\* The footer: the list was of the header's version, or the reading begins again.
LEMMA FooterStep ==
  ASSUME IInv, ReadFooter
  PROVE  IInv'
<1>0. TypeOK /\ ServerOK /\ CallOK /\ RefreshOK /\ ListOK /\ HoleOK /\ pc = "footer"
  BY DEF IInv, ReadFooter
<1>1. CASE ~FooterAgrees
  <2>1. Retry(TRUE) \/ Retry(FALSE)
    BY <1>1 DEF ReadFooter
  <2> QED
    BY <1>0, <2>1, Retried
<1>2. CASE FooterAgrees
  <2>1. pc' = "apply"
        /\ UNCHANGED <<server, window, position, handle, refresh, call, zapping, reading, rolls>>
    BY <1>2 DEF ReadFooter
  <2>2. TypeOK'
    BY <1>0, <2>1 DEF TypeOK, server, window, position, handle, refresh, reading
  <2>3. ServerOK'
    BY <1>0, <2>1 DEF ServerOK, server
  <2>4. CallOK'
    BY <1>0, <2>1 DEF CallOK, handle, refresh, reading
  <2>5. RefreshOK'
    <3>1. tsbuffer.added = header.added
      BY <1>2 DEF FooterAgrees
    <3>2. header.added <= list.added /\ list.added <= tsbuffer.added
          /\ list.removed = R(list.added) /\ header.removed = R(header.added)
      BY <1>0 DEF RefreshOK
    <3>3. list.added = header.added /\ list.removed = header.removed
      BY <3>1, <3>2, CountTypes, Constants
    <3> QED
      BY <1>0, <2>1, <3>3 DEF RefreshOK, server, window, refresh
  <2>6. ListOK'
    BY <1>0, <2>1 DEF ListOK, Contiguous, FileOK, server, window
  <2>7. HoleOK'
    BY <1>0, <2>1 DEF HoleOK, Floor, window, position, reading
  <2> QED
    BY <2>2, <2>3, <2>4, <2>5, <2>6, <2>7 DEF IInv
<1> QED
  BY <1>1, <1>2

\* The coordinates of the list grow.
LEMMA StartsGrow ==
  ASSUME IInv, NEW i \in 1..Len(m_tsFiles)
  PROVE  m_tsFiles[i].start >= m_tsFiles[1].start
<1>0. /\ Len(m_tsFiles) \in Nat
      /\ \A n \in 1..Len(m_tsFiles) : m_tsFiles[n].start \in Nat /\ m_tsFiles[n].length \in Nat
  BY ListTypes
<1> DEFINE early == {n \in 1..Len(m_tsFiles) : m_tsFiles[n].start < m_tsFiles[1].start}
<1>1. early = {}
  <2> SUFFICES ASSUME early # {} PROVE FALSE
    OBVIOUS
  <2>1. early \subseteq Nat
    OBVIOUS
  <2>2. PICK n \in early : \A m \in early : n <= m
    <3> HIDE DEF early
    <3> QED BY <2>1, LeastOf
  <2>3. n \in 2..Len(m_tsFiles) /\ n - 1 \in 1..Len(m_tsFiles) /\ ~(n <= n - 1) /\ 1 \in 1..Len(m_tsFiles)
    BY <1>0
  <2>4. n - 1 \notin early
    <3> HIDE DEF early
    <3> QED BY <2>2, <2>3
  <2>5. m_tsFiles[n].start = m_tsFiles[n - 1].start + m_tsFiles[n - 1].length
    BY <2>3 DEF IInv, ListOK, Contiguous
  <2> QED BY <1>0, <2>3, <2>4, <2>5
<1>2. 1 \in 1..Len(m_tsFiles)
  BY <1>0
<1> QED BY <1>0, <1>1, <1>2

\* Files leave at the front, and the last one that stays gets its full length.
LEMMA ApplyStep ==
  ASSUME IInv, ApplyCounts
  PROVE  IInv'
<1> DEFINE gone == header.removed - m_filesRemoved
           kept == SubSeq(m_tsFiles, gone + 1, Len(m_tsFiles))
           lengthened(opened) == [kept EXCEPT ![Len(kept)].length =
                                    GetFileLength(kept[Len(kept)].number, opened)]
<1>0. TypeOK /\ ServerOK /\ CallOK /\ RefreshOK /\ ListOK /\ HoleOK /\ pc = "apply"
  BY DEF IInv, ApplyCounts
<1>p. PICK opened \in BOOLEAN :
        /\ ~opened => kept # <<>>
        /\ m_tsFiles' = IF kept # <<>> /\ header.added > m_filesAdded THEN lengthened(opened) ELSE kept
        /\ mismeasured' = ((mismeasured /\ kept # <<>>) \/ ~opened)
        /\ lapped' = (lapped \/ (m_tsFiles # <<>> /\ kept = <<>>))
        /\ moved' = (moved \/ (m_tsFiles # <<>> /\ kept = <<>>))
        /\ copied' = IF m_tsFiles # <<>> /\ kept = <<>> THEN Nothing ELSE copied
  BY DEF ApplyCounts
<1>1. /\ pc' = "append"
      /\ UNCHANGED <<server, m_filesAdded, m_filesRemoved, m_startPosition, m_endPosition, origin,
                     refreshed, position, handle, refresh, call, zapping, rolls>>
  BY DEF ApplyCounts
<1>m. lapped' \in BOOLEAN /\ moved' \in BOOLEAN /\ mismeasured' \in BOOLEAN
  BY <1>p
<1>t. kept # <<>> => UNCHANGED <<lapped, moved, copied>> /\ (~mismeasured' => ~mismeasured /\ opened)
  BY <1>0, <1>p DEF TypeOK
<1>n. CallOK'
  <2>1. ~moved' => ~moved /\ copied' = copied
    BY <1>p
  <2> QED BY <1>0, <1>1, <2>1 DEF CallOK, handle, refresh
<1>2. /\ header.added \in 1..written /\ m_filesAdded < header.added
      /\ header.removed = R(header.added) /\ written <= header.added + 1 + rolls
  BY <1>0, HeaderIsBetween
<1>3. m_filesRemoved = R(m_filesAdded)
  BY <1>0 DEF RefreshOK
<1>4. gone \in Nat /\ m_filesAdded \in Nat /\ m_filesRemoved \in Nat /\ header.removed \in Nat
      /\ header.added \in Nat
  <2>1. m_filesAdded \in Nat /\ m_filesRemoved \in Nat /\ header.removed \in Nat
        /\ header.added \in Nat /\ Keep \in Nat
    BY CountTypes, Constants
  <2>2. m_filesRemoved <= header.removed
    BY <1>2, <1>3, <2>1 DEF R
  <2> QED
    BY <2>1, <2>2
<1>l. m_tsFiles \in Seq(Files) /\ DOMAIN m_tsFiles = 1..Len(m_tsFiles) /\ Len(m_tsFiles) \in Nat
  BY ListTypes
<1>d. kept = SubSeq(m_tsFiles, gone + 1, Len(m_tsFiles))
  OBVIOUS
<1>k. kept # <<>> =>
        lengthened(opened) = [kept EXCEPT ![Len(kept)] = [kept[Len(kept)] EXCEPT
                                !.length = GetFileLength(kept[Len(kept)].number, opened)]]
  OBVIOUS
<1>g. m_filesRemoved + gone = header.removed
  BY <1>4
<1> HIDE DEF gone, kept, lengthened
<1>5. /\ kept \in Seq(Files)
      /\ gone < Len(m_tsFiles) => Len(kept) = Len(m_tsFiles) - gone
      /\ \A i \in 1..Len(kept) : gone + i \in 1..Len(m_tsFiles) /\ kept[i] = m_tsFiles[gone + i]
      /\ kept = <<>> <=> gone >= Len(m_tsFiles)
  <2>1. gone \in Nat /\ m_tsFiles \in Seq(Files)
    BY <1>4, <1>l
  <2>2. Without(kept, gone, m_tsFiles)
    BY <2>1, <1>d, Shortened
  <2> QED
    BY <2>2 DEF Without
<1>6. /\ Len(m_tsFiles) = m_filesAdded - m_filesRemoved
      /\ \A i \in 1..Len(m_tsFiles) : FileOK(m_tsFiles[i], i, m_filesRemoved, m_filesAdded)
  BY <1>0, <1>l DEF ListOK
<1>7. \A i \in 1..Len(kept) :
        /\ kept[i].number = header.removed + i /\ kept[i].id = kept[i].number
        /\ kept[i].number <= m_filesAdded /\ kept[i].number \in 1..MaxFiles
        /\ kept[i].length <= size[kept[i].number]
        /\ ~mismeasured =>
             /\ kept[i].start + origin = base[kept[i].number]
             /\ kept[i].number < m_filesAdded => kept[i].length = Lengths[kept[i].number]
  <2> SUFFICES ASSUME NEW i \in 1..Len(kept)
               PROVE  /\ kept[i].number = header.removed + i /\ kept[i].id = kept[i].number
                      /\ kept[i].number <= m_filesAdded /\ kept[i].number \in 1..MaxFiles
                      /\ kept[i].length <= size[kept[i].number]
                      /\ ~mismeasured =>
                           /\ kept[i].start + origin = base[kept[i].number]
                           /\ kept[i].number < m_filesAdded => kept[i].length = Lengths[kept[i].number]
    OBVIOUS
  <2>1. gone + i \in 1..Len(m_tsFiles) /\ kept[i] = m_tsFiles[gone + i] /\ i \in Nat
    BY <1>5
  <2>2. FileOK(m_tsFiles[gone + i], gone + i, m_filesRemoved, m_filesAdded)
    BY <1>6, <2>1
  <2>3. m_filesRemoved + (gone + i) = header.removed + i
    BY <1>4, <1>g, <2>1
  <2>4. m_tsFiles[gone + i].number \in 1..MaxFiles
    BY <2>1, ListTypes
  <2> QED
    BY <2>1, <2>2, <2>3, <2>4 DEF FileOK
<1>c. \A i \in 2..Len(kept) : kept[i].start = kept[i - 1].start + kept[i - 1].length
  <2> SUFFICES ASSUME NEW i \in 2..Len(kept)
               PROVE  kept[i].start = kept[i - 1].start + kept[i - 1].length
    OBVIOUS
  <2>1. Len(kept) \in Nat /\ i \in 1..Len(kept) /\ i - 1 \in 1..Len(kept)
    BY <1>5, LenProperties
  <2>2. /\ gone + i \in 1..Len(m_tsFiles) /\ kept[i] = m_tsFiles[gone + i]
        /\ gone + (i - 1) \in 1..Len(m_tsFiles) /\ kept[i - 1] = m_tsFiles[gone + (i - 1)]
    BY <1>5, <2>1
  <2>3. gone + i \in 2..Len(m_tsFiles) /\ (gone + i) - 1 = gone + (i - 1)
    BY <1>4, <2>1, <2>2
  <2> QED
    BY <1>0, <2>2, <2>3 DEF ListOK, Contiguous
<1>8. CASE kept = <<>>
  <2>1. m_tsFiles' = <<>>
    BY <1>p, <1>8
  <2>2. TypeOK'
    BY <1>0, <1>1, <1>m, <2>1, EmptySeq DEF TypeOK, server, position, handle, refresh
  <2>3. ListOK'
    BY <1>1, <2>1, EmptySeq DEF ListOK, Contiguous
  <2>4. HoleOK'
    <3>1. moved'
      BY <1>0, <1>p, <1>8 DEF HoleOK
    <3> QED
      BY <1>0, <1>1, <2>1, <3>1 DEF HoleOK
  <2> QED
    BY <1>0, <1>1, <1>n, <2>2, <2>3, <2>4
    DEF IInv, ServerOK, RefreshOK, server, refresh
<1>9. CASE kept # <<>>
  <2>0. PICK last \in Nat : last = Len(kept)
    BY <1>5, LenProperties
  <2>1. last \in Nat \ {0} /\ gone < Len(m_tsFiles) /\ last = Len(m_tsFiles) - gone /\ last = Len(kept)
    <3>1. ~(gone >= Len(m_tsFiles))
      BY <1>5, <1>9
    <3>2. gone < Len(m_tsFiles)
      BY <1>4, <1>l, <3>1
    <3>3. last = Len(m_tsFiles) - gone
      BY <1>4, <1>5, <1>l, <2>0, <3>2
    <3>4. Len(m_tsFiles) \in Nat /\ gone \in Nat
      BY <1>4, <1>l
    <3> QED
      BY <2>0, <3>2, <3>3, <3>4
  <2>2. kept[last].number = m_filesAdded /\ m_filesAdded \in 1..written
    <3>1. kept[last].number = header.removed + last /\ last \in 1..last
      BY <1>7, <2>1
    <3>2. header.removed + last = m_filesAdded
      BY <1>4, <1>6, <1>g, <1>l, <2>1
    <3>3. written \in Nat /\ m_filesAdded > 0 /\ m_filesAdded <= written
      BY <1>2, <1>4, <2>1, <3>2, ServerTypes
    <3> QED
      BY <1>4, <3>1, <3>2, <3>3
  <2>3. Holder(m_filesAdded) = m_filesAdded
    <3>1. m_filesAdded > R(header.added)
      <4>1. kept[last].number = header.removed + last
        BY <1>7, <2>1
      <4> QED
        BY <1>2, <1>4, <2>1, <2>2, <4>1
    <3>2. header.added \in 0..MaxFiles
      BY CountTypes
    <3> QED
      BY <1>2, <2>2, <3>1, <3>2, NameIsMine
  <2>4. /\ GetFileLength(kept[last].number, opened) = (IF opened THEN size[m_filesAdded] ELSE 0)
        /\ size[m_filesAdded] = Lengths[m_filesAdded] /\ size[m_filesAdded] \in Nat
    <3>1. size[m_filesAdded] = Lengths[m_filesAdded]
      BY <1>0, <1>2, <1>4, <2>2, ServerTypes DEF ServerOK
    <3> QED
      <4>1. GetFileLength(kept[last].number, opened) = IF opened THEN size[Holder(m_filesAdded)] ELSE 0
        BY <2>2 DEF GetFileLength
      <4>2. size[m_filesAdded] \in Nat
        <5>1. m_filesAdded \in 1..MaxFiles
          BY <2>2, ServerTypes, Constants
        <5> QED
          BY <5>1, ServerTypes
      <4> QED
        BY <2>3, <3>1, <4>1, <4>2
  <2>p. PICK length \in Nat :
          /\ length = GetFileLength(kept[last].number, opened) /\ length <= size[m_filesAdded]
          /\ opened => length = size[m_filesAdded]
    BY <2>4
  <2>5. m_tsFiles' = [kept EXCEPT ![last] = [kept[last] EXCEPT !.length = length]]
    <3>1. m_tsFiles' = lengthened(opened)
      BY <1>2, <1>4, <1>9, <1>p
    <3> QED
      BY <1>k, <1>9, <2>0, <2>p, <3>1
  <2>6. /\ m_tsFiles' \in Seq(Files) /\ m_tsFiles' # <<>> /\ Len(m_tsFiles') = last
        /\ \A i \in 1..last : i # last => m_tsFiles'[i] = kept[i]
        /\ m_tsFiles'[last] = [kept[last] EXCEPT !.length = length]
        /\ m_tsFiles'[1].start = kept[1].start
    <3>1. kept \in Seq(Files)
      BY <1>5
    <3> QED
      BY <1>9, <2>0, <2>5, <3>1, Lengthened
  <2>7. TypeOK'
    BY <1>0, <1>1, <1>m, <2>6 DEF TypeOK, server, position, handle, refresh
  <2>8. ListOK'
    <3>1. ASSUME NEW i \in 1..last PROVE FileOK(m_tsFiles[i], i, header.removed, header.added)'
      <4>1. UNCHANGED <<origin, base, size, header>>
        BY <1>1 DEF server, refresh
      <4>2. CASE i # last
        <5>1. m_tsFiles'[i] = kept[i]
          BY <2>6, <4>2
        <5>2. header.removed + i < m_filesAdded
          BY <1>4, <1>7, <2>0, <2>1, <2>2, <4>2
        <5> QED
          <6>1. /\ kept[i].number = header.removed + i /\ kept[i].id = kept[i].number
                /\ kept[i].length <= size[kept[i].number]
                /\ ~mismeasured' =>
                     /\ kept[i].start + origin = base[kept[i].number]
                     /\ kept[i].number < m_filesAdded => kept[i].length = Lengths[kept[i].number]
            BY <1>7, <1>9, <1>t, <2>0
          <6>2. kept[i].number < m_filesAdded /\ kept[i].number <= header.added
            BY <1>2, <1>4, <5>2, <6>1
          <6> QED
            BY <4>1, <5>1, <6>1, <6>2 DEF FileOK
      <4>3. CASE i = last
        <5>1. kept[last] \in Files
          BY <1>5, <2>1, ElementOfSeq
        <5>2. /\ m_tsFiles'[i].number = m_filesAdded /\ m_tsFiles'[i].id = kept[last].id
              /\ m_tsFiles'[i].start = kept[last].start
              /\ m_tsFiles'[i].length = length
          BY <2>2, <2>6, <4>3, <5>1 DEF Files
        <5>3. /\ m_filesAdded = header.removed + last /\ kept[last].id = m_filesAdded
              /\ ~mismeasured => kept[last].start + origin = base[m_filesAdded]
          BY <1>7, <2>1, <2>2
        <5> QED
          <6>1. /\ m_tsFiles'[i].number = header.removed + i
                /\ m_tsFiles'[i].id = m_tsFiles'[i].number
                /\ ~mismeasured => m_tsFiles'[i].start + origin = base[m_tsFiles'[i].number]
            BY <4>3, <5>2, <5>3
          <6>2. /\ m_tsFiles'[i].number <= header.added
                /\ opened => m_tsFiles'[i].length = Lengths[m_tsFiles'[i].number]
                /\ m_tsFiles'[i].length <= size[m_tsFiles'[i].number]
            BY <1>2, <1>4, <2>4, <2>p, <5>2
          <6>3. ~mismeasured' => ~mismeasured /\ opened
            BY <1>9, <1>t
          <6> QED
            BY <4>1, <6>1, <6>2, <6>3 DEF FileOK
      <4> QED
        BY <4>2, <4>3
    <3>2. DOMAIN m_tsFiles' = 1..last
      BY <2>6, LenProperties
    <3>3. Contiguous'
      <4> SUFFICES ASSUME NEW i \in 2..last
                   PROVE  m_tsFiles'[i].start = m_tsFiles'[i - 1].start + m_tsFiles'[i - 1].length
        BY <2>6 DEF Contiguous
      <4>1. i \in 1..last /\ i - 1 \in 1..last /\ i - 1 # last
        BY <2>0
      <4>2. m_tsFiles'[i - 1] = kept[i - 1]
        BY <2>6, <4>1
      <4>3. m_tsFiles'[i].start = kept[i].start
        <5>1. CASE i # last
          BY <2>6, <4>1, <5>1
        <5>2. CASE i = last
          <6>1. kept[last] \in Files
            BY <1>5, <2>1, ElementOfSeq
          <6> QED BY <2>6, <5>2, <6>1 DEF Files
        <5> QED BY <5>1, <5>2
      <4> QED
        BY <1>c, <2>0, <4>2, <4>3
    <3> QED
      BY <1>1, <3>1, <3>2, <3>3 DEF ListOK
  <2>9. HoleOK'
    <3>0. m_tsFiles[1].start \in Nat /\ kept[1].start \in Nat
      <4>1. 1 \in 1..Len(kept) /\ 1 \in 1..Len(m_tsFiles)
        BY <2>1, <1>4, <1>l
      <4>2. kept[1] = m_tsFiles[gone + 1] /\ gone + 1 \in 1..Len(m_tsFiles)
        BY <1>5, <4>1
      <4> QED
        BY <4>1, <4>2, ListTypes
    <3>1. kept[1].start >= m_tsFiles[1].start
      <4>1. gone + 1 \in 1..Len(m_tsFiles) /\ kept[1] = m_tsFiles[gone + 1]
        <5>1. 1 \in 1..Len(kept)
          BY <2>1
        <5> QED BY <1>5, <5>1
      <4> QED
        BY <1>4, <4>1, StartsGrow
    <3>2. UNCHANGED <<origin, copied, moved, m_currentPosition, m_startPosition, call>>
      BY <1>1, <1>9, <1>t DEF position
    <3>6. ~mismeasured' => ~mismeasured
      BY <1>9, <1>t
    <3>7. m_tsFiles # <<>> /\ m_tsFiles' # <<>>
      <4>1. Len(m_tsFiles) # 0
        <5>1. gone \in Nat /\ gone < Len(m_tsFiles) /\ Len(m_tsFiles) \in Nat
          BY <1>4, <1>l, <2>1
        <5> QED
          BY <5>1
      <4> QED
        BY <2>6, <4>1, EmptySeq
    <3>3. Floor \in Nat /\ Floor' \in Nat /\ Floor <= Floor'
      <4>1. m_tsFiles[1].start \in Nat /\ m_tsFiles'[1].start \in Nat
        BY <2>6, <3>0
      <4>2. m_tsFiles'[1].start >= m_tsFiles[1].start
        BY <2>6, <3>1
      <4>3. m_lastZapPosition' = m_lastZapPosition /\ m_lastZapPosition \in Nat
        BY <1>0, <1>1 DEF TypeOK, position
      <4> QED
        BY <4>1, <4>2, <4>3 DEF Floor
    <3>4. m_currentPosition \in Nat /\ m_startPosition \in Nat
      BY <1>0 DEF TypeOK
    <3>5. ~moved =>
            /\ m_startPosition <= Floor'
            /\ ~mismeasured' => copied.unit = copied.at + origin
            /\ \/ m_currentPosition = copied.at + copied.asked
               \/ /\ m_currentPosition > copied.at + copied.asked
                  /\ m_currentPosition <= Floor'
      BY <1>0, <3>2, <3>3, <3>4, <3>6, <3>7 DEF HoleOK
    <3> QED
      BY <1>0, <1>1, <3>2, <3>5, <3>6, <3>7 DEF HoleOK
  <2> QED
    BY <1>0, <1>1, <1>n, <2>7, <2>8, <2>9 DEF IInv, ServerOK, RefreshOK, server, refresh
<1> QED
  BY <1>8, <1>9

\* A file is added at the end, where the last one ends, or the refresh is complete.
LEMMA AppendStep ==
  ASSUME IInv, AppendFile
  PROVE  IInv'
<1>0. TypeOK /\ ServerOK /\ CallOK /\ RefreshOK /\ ListOK /\ HoleOK /\ pc = "append"
  BY DEF IInv, AppendFile
<1>1. /\ header.added \in 1..written /\ m_filesAdded < header.added
      /\ header.removed = R(header.added) /\ header.added <= tsbuffer.added
      /\ header.position <= size[header.added]
      /\ written <= header.added + 1 + rolls
  BY <1>0, HeaderIsBetween
<1>2. list.added = header.added /\ list.removed = header.removed
  BY <1>0 DEF RefreshOK
<1>3. /\ header.added \in 0..MaxFiles /\ header.removed \in 0..MaxFiles
      /\ header.added \in Nat /\ header.removed \in Nat /\ header.position \in Nat
      /\ header.removed < header.added
  <2>1. /\ header.added \in 0..MaxFiles /\ header.removed \in 0..MaxFiles /\ header.position \in Nat
        /\ MaxFiles \in Nat /\ Keep \in Nat \ {0}
    BY CountTypes, Constants
  <2>2. header.removed < header.added
    BY <1>1, <2>1 DEF R
  <2> QED
    BY <2>1, <2>2
<1>4. /\ m_tsFiles \in Seq(Files) /\ DOMAIN m_tsFiles = 1..Len(m_tsFiles) /\ Len(m_tsFiles) \in Nat
      /\ \A i \in 1..Len(m_tsFiles) : m_tsFiles[i].number \in 1..MaxFiles
      /\ \A i \in 1..Len(m_tsFiles) : m_tsFiles[i].start \in Nat /\ m_tsFiles[i].length \in Nat
  BY ListTypes
<1>5. \A i \in 1..Len(m_tsFiles) : FileOK(m_tsFiles[i], i, header.removed, header.added)
  BY <1>0, <1>4 DEF ListOK
<1>6. /\ UNCHANGED <<server, lapped, position, handle, m_TSBufferFile, tries, call, zapping, reading, rolls>>
  BY DEF AppendFile
<1>7. PICK k \in Nat : k = Len(m_tsFiles) + 1
  BY <1>4
<1>8. CASE k <= list.added - list.removed
  <2>0. PICK opened \in BOOLEAN :
          /\ m_tsFiles' = Append(m_tsFiles, NewFile(k, opened))
          /\ mismeasured' = (mismeasured \/ (~opened /\ k < list.added - list.removed))
    BY <1>7, <1>8 DEF AppendFile
  <2> DEFINE new == NewFile(k, opened)
  <2>1. /\ m_tsFiles' = Append(m_tsFiles, new)
        /\ origin' = IF k = 1 THEN base[Holder(list.removed + 1)] ELSE origin
        /\ UNCHANGED <<m_filesAdded, m_filesRemoved, m_startPosition, m_endPosition,
                       refreshed, pc, header, list>>
    BY <1>7, <1>8, <2>0 DEF AppendFile
  <2>m. /\ mismeasured' \in BOOLEAN /\ (~mismeasured' => ~mismeasured)
        /\ ~mismeasured' => opened \/ ~(k < list.added - list.removed)
    BY <2>0
  <2>2. PICK n \in 1..written : n = header.removed + k /\ n <= header.added /\ n > R(header.added)
    <3>1. k > 0 /\ header.removed + k <= header.added /\ written \in Nat
      BY <1>2, <1>3, <1>4, <1>7, <1>8, ServerTypes
    <3>2. header.removed + k \in 1..written
      BY <1>1, <1>3, <3>1
    <3> QED
      BY <1>1, <1>3, <3>1, <3>2
  <2>3. Holder(n) = n
    BY <1>1, <1>3, <2>2, NameIsMine
  <2>4. n \in 1..MaxFiles /\ size[n] \in Nat /\ base[n] \in Nat
    <3>1. n \in 1..MaxFiles
      BY <2>2, ServerTypes, Constants
    <3> QED
      BY <3>1, ServerTypes
  <2>5. \A i \in 1..Len(m_tsFiles) :
          /\ m_tsFiles[i].number = header.removed + i
          /\ ~mismeasured =>
               /\ m_tsFiles[i].start + origin = base[m_tsFiles[i].number]
               /\ m_tsFiles[i].number < header.added =>
                    m_tsFiles[i].length = Lengths[m_tsFiles[i].number]
    BY <1>5 DEF FileOK
  <2>6. /\ new.number = n /\ new.id = n /\ new.length \in Nat /\ new.length <= size[n]
        /\ opened => new.length = size[n]
    <3>1. list.removed + k = n /\ header.removed + k = n
      BY <1>2, <2>2
    <3> QED
      BY <2>3, <2>4, <3>1 DEF NewFile, GetFileLength
  <2>7. /\ new.start \in Nat /\ origin' \in Nat
        /\ ~mismeasured => new.start + origin' = base[n]
        /\ k # 1 => /\ origin' = origin /\ k - 1 \in 1..Len(m_tsFiles)
                    /\ new.start = m_tsFiles[k - 1].start + m_tsFiles[k - 1].length
    <3>1. CASE k = 1
      <4>1. new.start = 0
        BY <3>1 DEF NewFile
      <4>2. origin' = base[n]
        BY <1>2, <2>1, <2>2, <2>3, <3>1
      <4> QED
        BY <2>4, <3>1, <4>1, <4>2
    <3>2. CASE k # 1
      <4>1. new.start = m_tsFiles[k - 1].start + m_tsFiles[k - 1].length
        BY <3>2 DEF NewFile
      <4>2. k - 1 \in 1..Len(m_tsFiles)
        BY <1>4, <1>7, <3>2
      <4>3. /\ m_tsFiles[k - 1].number = n - 1 /\ n - 1 < header.added
            /\ n - 1 \in 1..written - 1
        <5>1. m_tsFiles[k - 1].number = header.removed + (k - 1)
          BY <2>5, <4>2
        <5>2. m_tsFiles[k - 1].number \in 1..MaxFiles
          BY <1>4, <4>2
        <5>3. written \in Nat /\ MaxFiles \in Nat
          BY ServerTypes, Constants
        <5> QED
          BY <1>3, <2>2, <5>1, <5>2, <5>3
      <4>4. ~mismeasured => /\ m_tsFiles[k - 1].start + origin = base[n - 1]
                            /\ m_tsFiles[k - 1].length = Lengths[n - 1]
        BY <2>5, <4>2, <4>3
      <4>5. base[n] = base[n - 1] + Lengths[n - 1]
        <5>1. base[(n - 1) + 1] = base[n - 1] + Lengths[n - 1]
          BY <1>0, <4>3 DEF ServerOK
        <5>2. (n - 1) + 1 = n
          BY <2>4
        <5> QED
          BY <5>1, <5>2
      <4>6. /\ m_tsFiles[k - 1].start \in Nat /\ m_tsFiles[k - 1].length \in Nat
        BY <1>4, <4>2
      <4>7. origin' = origin /\ origin \in Nat
        BY <1>0, <2>1, <3>2 DEF TypeOK
      <4> QED
        BY <4>1, <4>2, <4>4, <4>5, <4>6, <4>7
    <3> QED
      BY <3>1, <3>2
  <2>8. new \in Files
    <3>1. new = [number |-> new.number, id |-> new.id,
                        start |-> new.start, length |-> new.length]
      BY DEF NewFile
    <3> QED
      BY <2>4, <2>6, <2>7, <3>1 DEF Files
  <2>9. /\ m_tsFiles' \in Seq(Files) /\ m_tsFiles' # <<>> /\ Len(m_tsFiles') = k
        /\ \A i \in 1..Len(m_tsFiles) : m_tsFiles'[i] = m_tsFiles[i]
        /\ m_tsFiles'[k] = new
        /\ DOMAIN m_tsFiles' = 1..k
    BY <1>4, <1>7, <2>1, <2>8, AppendProperties, LenProperties
  <2>10. TypeOK'
    BY <1>0, <1>6, <2>1, <2>m, <2>7, <2>9 DEF TypeOK, server, position, handle, reading
  <2>11. ListOK'
    <3>1. UNCHANGED <<base, size, header, pc>>
      BY <1>6, <2>1 DEF server
    <3>2. ASSUME NEW i \in 1..k PROVE FileOK(m_tsFiles[i], i, header.removed, header.added)'
      <4>1. CASE i = k
        <5>1. /\ m_tsFiles'[i].number = n /\ m_tsFiles'[i].id = n
              /\ m_tsFiles'[i].length <= size[n]
              /\ ~mismeasured' => m_tsFiles'[i].start + origin' = base[n]
              /\ opened => m_tsFiles'[i].length = size[n]
          BY <2>m, <2>6, <2>7, <2>9, <4>1
        <5>2. n < header.added => size[n] = Lengths[n]
          <6>1. n < header.added => n \in 1..written - 1
            BY <1>1, <1>3, <2>2, ServerTypes, Constants
          <6> QED
            BY <1>0, <6>1 DEF ServerOK
        <5>3. n = header.removed + i /\ n <= header.added
          BY <2>2, <4>1
        <5>4. ~mismeasured' /\ n < header.added => opened
          BY <1>2, <1>3, <2>m, <2>2
        <5> QED
          BY <3>1, <5>1, <5>2, <5>3, <5>4 DEF FileOK
      <4>2. CASE i # k
        <5>1. i \in 1..Len(m_tsFiles) /\ k # 1
          BY <1>4, <1>7, <4>2
        <5>2. m_tsFiles'[i] = m_tsFiles[i] /\ origin' = origin
          BY <2>7, <2>9, <5>1
        <5>3. FileOK(m_tsFiles[i], i, header.removed, header.added)
          BY <1>5, <5>1
        <5> QED
          BY <3>1, <2>m, <5>2, <5>3 DEF FileOK
      <4> QED
        BY <4>1, <4>2
    <3>3. Contiguous'
      <4> SUFFICES ASSUME NEW i \in 2..k
                   PROVE  m_tsFiles'[i].start = m_tsFiles'[i - 1].start + m_tsFiles'[i - 1].length
        BY <2>9 DEF Contiguous
      <4>1. i - 1 \in 1..Len(m_tsFiles) /\ m_tsFiles'[i - 1] = m_tsFiles[i - 1]
        BY <1>4, <1>7, <2>9
      <4>2. CASE i = k
        BY <2>7, <2>9, <4>1, <4>2
      <4>3. CASE i # k
        <5>1. i \in 2..Len(m_tsFiles) /\ m_tsFiles'[i] = m_tsFiles[i]
          BY <1>4, <1>7, <2>9, <4>3
        <5> QED BY <1>0, <4>1, <5>1 DEF ListOK, Contiguous
      <4> QED BY <4>2, <4>3
    <3> QED
      BY <1>0, <2>9, <3>1, <3>2, <3>3 DEF ListOK
  <2>12. HoleOK'
    <3>1. UNCHANGED <<refreshed, copied, moved, m_currentPosition, m_startPosition,
                      m_lastZapPosition, call, pc>>
      BY <1>6, <2>1 DEF position, reading
    <3>2. CASE m_tsFiles = <<>>
      BY <1>0, <2>9, <3>1, <3>2 DEF HoleOK
    <3>3. CASE m_tsFiles # <<>>
      <4>1. k # 1 /\ 1 \in 1..Len(m_tsFiles)
        BY <1>4, <1>7, <3>3, EmptySeq
      <4>2. m_tsFiles'[1] = m_tsFiles[1] /\ origin' = origin
        BY <2>7, <2>9, <4>1
      <4>3. Floor' = Floor
        BY <3>1, <4>2 DEF Floor
      <4> QED
        BY <1>0, <2>m, <2>9, <3>1, <3>3, <4>2, <4>3 DEF HoleOK
    <3> QED
      BY <3>2, <3>3
  <2> QED
    BY <1>0, <1>6, <2>1, <2>10, <2>11, <2>12
    DEF IInv, ServerOK, CallOK, RefreshOK, server, handle, reading
<1>9. CASE ~(k <= list.added - list.removed)
  <2>1. /\ m_filesAdded' = header.added /\ m_filesRemoved' = header.removed
        /\ SetPositions(m_tsFiles, header.position) /\ UNCHANGED <<origin, mismeasured>>
    BY <1>7, <1>9 DEF AppendFile
  <2>2. Len(m_tsFiles) = header.added - header.removed
    <3>1. Len(m_tsFiles) >= header.added - header.removed
      BY <1>2, <1>3, <1>4, <1>7, <1>9
    <3>2. Len(m_tsFiles) > 0
      BY <1>3, <1>4, <3>1
    <3>3. FileOK(m_tsFiles[Len(m_tsFiles)], Len(m_tsFiles), header.removed, header.added)
      BY <1>4, <1>5, <3>2
    <3>4. header.removed + Len(m_tsFiles) <= header.added
      BY <3>3 DEF FileOK
    <3> QED
      BY <1>3, <1>4, <3>1, <3>4
  <2>3. UNCHANGED <<server, position, handle, m_TSBufferFile, tries, call, zapping, reading, rolls,
                    lapped, mismeasured, origin>>
    BY <1>6, <2>1
  <2> QED
    BY <1>0, <1>1, <1>3, <1>5, <2>1, <2>2, <2>3, Refreshed
<1> QED
  BY <1>8, <1>9

\* A call that ends.
LEMMA ReturnsOK ==
  ASSUME IInv, pc = "body", Returns, m_TSFile' \in {None, m_TSFileId'},
         ~moved' => copied' \in [unit : Int, at : Int, n : Int, asked : Int]
  PROVE  CallOK' /\ ServerOK' /\ RefreshOK' /\ ListOK'
<1>1. pc' = "idle" /\ call' = NoCall /\ tries' = 0 /\ rolls' = 0
  BY DEF Returns
<1>2. CallOK'
  BY <1>1, Constants DEF CallOK, NoCall, Ops, Methods, None
<1>3. ServerOK' /\ RefreshOK' /\ ListOK'
  BY <1>1, OutsideRefresh DEF Returns
<1> QED
  BY <1>2, <1>3

\* A call that makes another one.
LEMMA ContinuesOK ==
  ASSUME IInv, pc = "body", Continues, m_TSFile' \in {None, m_TSFileId'},
         ~moved' => copied' \in [unit : Int, at : Int, n : Int, asked : Int],
         NEW op \in {"read", "seek"}, NEW method \in Methods, NEW n \in Int,
         Begin(op, method, n, None), op = "read" => n > 0
  PROVE  CallOK' /\ ServerOK' /\ RefreshOK' /\ ListOK'
<1>0. CallOK
  BY DEF IInv
<1>1. /\ pc' = "header" /\ tries' = Tries /\ rolls' = rolls
      /\ call' = [op |-> op, method |-> method, n |-> n, id |-> None]
  BY DEF Begin, Continues
<1>2. call'.op = op /\ call'.n = n /\ call' \in [op : Ops, method : Methods, n : Int, id : 0..MaxFiles]
  BY <1>1, Constants DEF Ops, None
<1>3. CallOK'
  BY <1>0, <1>1, <1>2, Constants DEF CallOK
<1>4. ServerOK' /\ RefreshOK' /\ ListOK'
  BY <1>1, OutsideRefresh DEF Continues
<1> QED
  BY <1>3, <1>4

\* The types of the positions, and what is known of them while a call is in its body.
LEMMA PositionTypes ==
  ASSUME IInv
  PROVE  /\ m_startPosition \in Nat /\ m_endPosition \in Nat
         /\ m_currentPosition \in Nat /\ m_lastZapPosition \in Nat
         /\ m_currentFileStartOffset \in Nat /\ origin \in Nat
         /\ Clamped(m_currentPosition) \in Nat /\ Clamped(m_currentPosition) >= m_startPosition
<1>1. /\ m_startPosition \in Nat /\ m_endPosition \in Nat
      /\ m_currentPosition \in Nat /\ m_lastZapPosition \in Nat
      /\ m_currentFileStartOffset \in Nat /\ origin \in Nat
  BY DEF IInv, TypeOK
<1> QED
  BY <1>1 DEF Clamped

\* A body that only moves the reader: nothing is read, and the list is what it was.
LEMMA MovesOnly ==
  ASSUME IInv, pc = "body", UNCHANGED <<server, window, m_lastZapPosition>>,
         pc' \in {"idle", "header"}, call'.op # "open",
         \/ moved'
         \/ /\ moved' = moved /\ copied' = copied
            /\ m_currentPosition' = m_currentPosition \/ m_currentPosition' = Clamped(m_currentPosition)
            /\ pc' = "idle" /\ zapping' => m_currentPosition' >= m_startPosition
  PROVE  HoleOK'
<1>0. HoleOK
  BY DEF IInv
<1>1. UNCHANGED <<m_tsFiles, mismeasured, origin, m_startPosition>>
  BY DEF window
<1>2. Floor' = Floor
  BY <1>1 DEF Floor
<1>3. m_tsFiles = <<>> => moved
  BY <1>0 DEF HoleOK
<1>4. CASE moved'
  BY <1>1, <1>4 DEF HoleOK
<1>5. CASE ~moved'
  <2>1. /\ ~moved /\ copied' = copied
        /\ (m_currentPosition' = m_currentPosition \/ m_currentPosition' = Clamped(m_currentPosition))
        /\ (pc' = "idle" /\ zapping' => m_currentPosition' >= m_startPosition)
    BY <1>5
  <2>2. /\ m_startPosition <= Floor
        /\ ~mismeasured => copied.unit = copied.at + origin
        /\ \/ m_currentPosition' = copied.at + copied.asked
           \/ /\ m_currentPosition' > copied.at + copied.asked
              /\ m_currentPosition' <= Floor
    <3>1. /\ m_startPosition <= Floor
          /\ ~mismeasured => copied.unit = copied.at + origin
          /\ \/ m_currentPosition = copied.at + copied.asked
             \/ /\ m_currentPosition > copied.at + copied.asked
                /\ m_currentPosition <= Floor
      BY <1>0, <2>1 DEF HoleOK
    <3>2. copied \in [unit : Int, at : Int, n : Int, asked : Int]
      BY <2>1 DEF IInv, CallOK
    <3>3. CASE m_currentPosition' = m_currentPosition
      BY <3>1, <3>3
    <3>4. CASE m_currentPosition' # m_currentPosition
      <4>1. m_currentPosition' = m_startPosition /\ m_startPosition > m_currentPosition
        BY <2>1, <3>4, PositionTypes DEF Clamped
      <4>2. copied.at + copied.asked \in Int
        BY <3>2
      <4>3. m_startPosition \in Nat /\ m_currentPosition \in Nat
        BY PositionTypes
      <4> QED
        BY <3>1, <4>1, <4>2, <4>3
    <3> QED
      BY <3>3, <3>4
  <2> QED
    BY <1>1, <1>2, <1>3, <1>5, <2>1, <2>2 DEF HoleOK
<1> QED
  BY <1>4, <1>5

\* Where a read finds its file: the position is in it, and the file is what the server wrote.
LEMMA ReadIsInFile ==
  ASSUME IInv, pc = "body", refreshed, NEW current \in Nat, current >= m_startPosition,
         NEW i \in FilesAt(current)
  PROVE  /\ i \in 1..Len(m_tsFiles) /\ m_startPosition = Floor
         /\ m_tsFiles[i].start <= current
         /\ Holder(m_tsFiles[i].number) = m_tsFiles[i].number
         /\ ~mismeasured => m_tsFiles[i].start + origin = base[m_tsFiles[i].number]
         /\ m_tsFiles[i].length <= size[m_tsFiles[i].number]
         /\ m_tsFiles[i].id = m_tsFiles[i].number
         /\ m_tsFiles[i].number \in 1..MaxFiles
<1>0. ServerOK /\ RefreshOK /\ ListOK /\ HoleOK
  BY DEF IInv
<1>1. /\ Len(m_tsFiles) \in Nat /\ m_tsFiles \in Seq(Files) /\ DOMAIN m_tsFiles = 1..Len(m_tsFiles)
      /\ \A j \in 1..Len(m_tsFiles) :
           /\ m_tsFiles[j].number \in 1..MaxFiles
           /\ m_tsFiles[j].start \in Nat /\ m_tsFiles[j].length \in Nat
  BY ListTypes
<1>2. /\ i \in 1..Len(m_tsFiles) /\ current < m_tsFiles[i].start + m_tsFiles[i].length
      /\ \A j \in 1 .. i - 1 : current >= m_tsFiles[j].start + m_tsFiles[j].length
  BY <1>1 DEF FilesAt
<1>3. /\ \A j \in 1..Len(m_tsFiles) : FileOK(m_tsFiles[j], j, m_filesRemoved, m_filesAdded)
      /\ Len(m_tsFiles) = m_filesAdded - m_filesRemoved
  BY <1>0, <1>1 DEF ListOK
<1>4. /\ m_filesRemoved = R(m_filesAdded) /\ written <= m_filesAdded + 1 + rolls
  BY <1>0 DEF RefreshOK
<1>5. /\ m_filesAdded \in 0..MaxFiles /\ m_filesRemoved \in Nat /\ MaxFiles \in Nat
      /\ m_filesAdded <= written /\ written \in 1..MaxFiles
  <2>1. /\ m_filesAdded \in 0..MaxFiles /\ m_filesRemoved \in 0..MaxFiles /\ m_filesAdded <= tsbuffer.added
        /\ tsbuffer.added \in 0..MaxFiles /\ tsbuffer.added <= written /\ written \in 1..MaxFiles
        /\ MaxFiles \in Nat
    BY CountTypes, ServerTypes, Constants
  <2> QED
    BY <2>1
<1>6. \A j \in 1..Len(m_tsFiles) :
        /\ m_tsFiles[j].number = m_filesRemoved + j /\ m_tsFiles[j].id = m_tsFiles[j].number
        /\ m_tsFiles[j].number <= m_filesAdded
        /\ ~mismeasured => m_tsFiles[j].start + origin = base[m_tsFiles[j].number]
        /\ m_tsFiles[j].length <= size[m_tsFiles[j].number]
  BY <1>3 DEF FileOK
<1>7. Holder(m_tsFiles[i].number) = m_tsFiles[i].number
  <2>1. PICK n \in 1..MaxFiles : n = m_tsFiles[i].number
    BY <1>1, <1>2
  <2>2. n \in 1..written /\ n > m_filesRemoved
    <3>1. n = m_filesRemoved + i /\ n <= m_filesAdded /\ i > 0
      BY <1>2, <1>6, <2>1
    <3> QED
      BY <1>1, <1>2, <1>5, <3>1
  <2>3. Holder(n) = n
    BY <1>4, <1>5, <2>2, NameIsMine
  <2> QED
    BY <2>1, <2>3
<1>8. m_tsFiles # <<>> /\ m_startPosition = Floor
  <2>1. m_tsFiles # <<>>
    BY <1>1, <1>2, EmptySeq
  <2> QED
    BY <1>0, <2>1 DEF HoleOK
<1>9. m_tsFiles[i].start <= current
  <2>1. CASE i = 1
    <3>1. m_tsFiles[1].start \in Nat /\ m_lastZapPosition \in Nat /\ m_startPosition \in Nat
      BY <1>1, <1>2, <2>1, PositionTypes
    <3> QED
      BY <1>8, <2>1, <3>1 DEF Floor
  <2>2. CASE i # 1
    <3>1. i - 1 \in 1..Len(m_tsFiles) /\ i - 1 \in 1 .. i - 1 /\ i \in 2..Len(m_tsFiles)
      BY <1>1, <1>2, <2>2
    <3>2. current >= m_tsFiles[i - 1].start + m_tsFiles[i - 1].length
      BY <1>2, <3>1
    <3>3. m_tsFiles[i].start = m_tsFiles[i - 1].start + m_tsFiles[i - 1].length
      BY <1>0, <3>1 DEF ListOK, Contiguous
    <3> QED
      BY <3>2, <3>3
  <2> QED
    BY <2>1, <2>2
<1> QED
  BY <1>1, <1>2, <1>6, <1>7, <1>8, <1>9

\* The list in the body of a call, whether the refresh has succeeded or not.
LEMMA BodyList ==
  ASSUME IInv, pc = "body"
  PROVE  /\ DOMAIN m_tsFiles = 1..Len(m_tsFiles) /\ Len(m_tsFiles) \in Nat
         /\ \A i \in 1..Len(m_tsFiles) :
              /\ m_tsFiles[i].number \in 1..MaxFiles /\ m_tsFiles[i].id = m_tsFiles[i].number
              /\ m_tsFiles[i].start \in Nat /\ m_tsFiles[i].length \in Nat
BY ListTypes DEF IInv, ListOK, FileOK

\* What a read reads, by its locals in ReadsFrom.
LEMMA ReadEffect ==
  ASSUME IInv, pc = "body", call.op = "read", NEW current \in Nat,
         NEW i \in FilesAt(current), ReadsFrom(i, current),
         current = Clamped(m_currentPosition)
  PROVE  \E n \in Nat \ {0} :
           /\ m_currentPosition' = current + n
           /\ n <= m_tsFiles[i].length - (current - m_tsFiles[i].start)
           /\ LET source == Holder(m_TSFile')
                  seek == current - m_tsFiles[i].start
                  left == IF size[source] > seek THEN size[source] - seek ELSE 0
                  there == IF n > left THEN left ELSE n
              IN  \E got \in 0..n :
                    /\ got = there \/ faults' = faults + 1
                    /\ refreshed => copied' = [unit |-> base[source] + seek, at |-> current,
                                               n |-> got, asked |-> n]
           /\ \/ call.n > n /\ Begin("read", "begin", call.n - n, None) /\ Continues
              \/ Returns
           /\ moved' = ~refreshed
           /\ UNCHANGED <<m_lastZapPosition, zapping>>
           /\ m_TSFileId' \in 0..MaxFiles /\ m_TSFile' = m_TSFileId' /\ m_TSFileId' = m_tsFiles[i].id
           /\ m_currentFileStartOffset' \in Nat
<1>1. i \in 1..Len(m_tsFiles) /\ current < m_tsFiles[i].start + m_tsFiles[i].length
  BY BodyList DEF FilesAt
<1>2. /\ m_tsFiles[i].number \in 1..MaxFiles /\ m_tsFiles[i].id = m_tsFiles[i].number
      /\ m_tsFiles[i].start \in Nat /\ m_tsFiles[i].length \in Nat
  BY <1>1, BodyList
<1>3. call.n \in Int /\ call.n > 0 /\ m_TSFile \in {None, m_TSFileId}
  BY DEF IInv, CallOK
<1> DEFINE seek == current - m_tsFiles[i].start
           rest == m_tsFiles[i].length - seek
           n == IF call.n > rest THEN rest ELSE call.n
           source == Holder(m_TSFile')
           left == IF size[source] > seek THEN size[source] - seek ELSE 0
           there == IF n > left THEN left ELSE n
<1>4. /\ IF m_TSFileId = m_tsFiles[i].id
         THEN m_TSFile # None /\ UNCHANGED handle
         ELSE /\ m_TSFile' = m_tsFiles[i].number
              /\ m_TSFileId' = m_tsFiles[i].id /\ m_currentFileStartOffset' = m_tsFiles[i].start
      /\ moved' = ~refreshed
      /\ m_currentPosition' = current + n
      /\ \/ call.n > n /\ Begin("read", "begin", call.n - n, None) /\ Continues
         \/ Returns
      /\ UNCHANGED <<m_lastZapPosition, zapping>>
  BY DEF ReadsFrom
<1>e. \E got \in 0..n :
        /\ got = there \/ faults' = faults + 1
        /\ refreshed => copied' = [unit |-> base[source] + seek, at |-> current,
                                   n |-> got, asked |-> n]
  BY DEF ReadsFrom, Fault
<1>5. seek \in Int /\ rest \in Nat \ {0} /\ n \in Nat \ {0} /\ n <= rest
  BY <1>1, <1>2, <1>3
<1>6. /\ m_TSFileId' = m_tsFiles[i].id /\ m_TSFile' = m_TSFileId'
      /\ m_currentFileStartOffset' \in Nat
  <2>1. CASE m_TSFileId = m_tsFiles[i].id
    BY <1>3, <1>4, <2>1, PositionTypes DEF handle
  <2>2. CASE m_TSFileId # m_tsFiles[i].id
    BY <1>2, <1>4, <2>2
  <2> QED
    BY <2>1, <2>2
<1>7. m_TSFileId' \in 0..MaxFiles
  BY <1>2, <1>6, Constants
<1> HIDE DEF n, rest
<1> QED
  BY <1>4, <1>5, <1>6, <1>7, <1>e DEF rest

\* With a list that is true, Kodi gets what the server wrote there, all of it but for a fault.
LEMMA ReadContent ==
  ASSUME IInv, pc = "body", call.op = "read", refreshed, NEW current \in Nat,
         NEW i \in FilesAt(current), ReadsFrom(i, current),
         current = Clamped(m_currentPosition)
  PROVE  /\ copied' \in [unit : Int, at : Int, n : Int, asked : Int]
         /\ copied'.n = copied'.asked \/ faults' = faults + 1
         /\ copied'.at = current
         /\ ~mismeasured => copied'.unit = current + origin
         /\ m_currentPosition' = current + copied'.asked /\ copied'.asked > 0
         /\ m_startPosition = Floor /\ m_tsFiles # <<>>
<1>1. current >= m_startPosition
  BY PositionTypes
<1>2. /\ i \in 1..Len(m_tsFiles) /\ m_startPosition = Floor
      /\ m_tsFiles[i].start <= current
      /\ Holder(m_tsFiles[i].number) = m_tsFiles[i].number
      /\ ~mismeasured => m_tsFiles[i].start + origin = base[m_tsFiles[i].number]
      /\ m_tsFiles[i].length <= size[m_tsFiles[i].number]
      /\ m_tsFiles[i].id = m_tsFiles[i].number
      /\ m_tsFiles[i].number \in 1..MaxFiles
  BY <1>1, ReadIsInFile
<1>3. PICK n \in Nat \ {0} :
        /\ m_currentPosition' = current + n
        /\ n <= m_tsFiles[i].length - (current - m_tsFiles[i].start)
        /\ LET source == Holder(m_TSFile')
               seek == current - m_tsFiles[i].start
               left == IF size[source] > seek THEN size[source] - seek ELSE 0
               there == IF n > left THEN left ELSE n
           IN  \E got \in 0..n :
                 /\ got = there \/ faults' = faults + 1
                 /\ refreshed => copied' = [unit |-> base[source] + seek, at |-> current,
                                            n |-> got, asked |-> n]
        /\ m_TSFile' = m_tsFiles[i].id
  BY ReadEffect
<1>4. PICK f \in 1..MaxFiles : f = m_tsFiles[i].number
  BY <1>2
<1>5. PICK start \in Nat : start = m_tsFiles[i].start
  BY <1>2, ListTypes
<1>6. PICK length \in Nat : length = m_tsFiles[i].length
  BY <1>2, ListTypes
<1>7. size[f] \in Nat /\ base[f] \in Nat /\ origin \in Nat
  BY ServerTypes, PositionTypes
<1>8. /\ start <= current /\ length <= size[f] /\ n <= length - (current - start)
      /\ ~mismeasured => start + origin = base[f]
  BY <1>2, <1>3, <1>4, <1>5, <1>6
<1>9. PICK got \in 0..n :
        /\ \/ got = LET left == IF size[f] > current - start THEN size[f] - (current - start) ELSE 0
                    IN  IF n > left THEN left ELSE n
           \/ faults' = faults + 1
        /\ copied' = [unit |-> base[f] + (current - start), at |-> current, n |-> got, asked |-> n]
  <2>1. Holder(m_TSFile') = f
    BY <1>2, <1>3, <1>4
  <2> QED
    BY <1>3, <1>5, <2>1
<1>10. got = n \/ faults' = faults + 1
  <2>1. size[f] > current - start /\ ~(n > size[f] - (current - start))
    BY <1>7, <1>8
  <2> QED
    BY <1>9, <2>1
<1>11. m_tsFiles # <<>>
  BY <1>2, EmptySeq
<1>12. /\ copied'.n = got /\ copied'.asked = n /\ copied'.at = current
       /\ copied'.unit = base[f] + (current - start)
       /\ copied' \in [unit : Int, at : Int, n : Int, asked : Int]
  <2>1. base[f] + (current - start) \in Int /\ current \in Int /\ got \in Int /\ n \in Int
    BY <1>7, <1>9
  <2> QED
    BY <1>9, <2>1
<1>13. ~mismeasured => base[f] + (current - start) = current + origin
  BY <1>7, <1>8
<1> QED
  BY <1>2, <1>3, <1>10, <1>11, <1>12, <1>13

\* The types after a body step, given those of what it changes.
LEMMA BodyTypes ==
  ASSUME IInv, UNCHANGED <<server, window, m_TSBufferFile, header, list>>,
         m_currentPosition' \in Nat, m_lastZapPosition' \in Nat,
         m_TSFileId' \in 0..MaxFiles, m_TSFile' \in 0..MaxFiles, m_currentFileStartOffset' \in Nat,
         tries' \in 0..Tries, pc' \in {"idle", "header"},
         call'.op \in {"none", "read", "seek"}, zapping' \in BOOLEAN, moved' \in BOOLEAN
  PROVE  TypeOK'
BY DEF IInv, TypeOK, server, window

\* What the calls do after the refresh.
LEMMA BodyStep ==
  ASSUME IInv, Body
  PROVE  IInv'
<1>0. TypeOK /\ CallOK /\ HoleOK /\ ListOK
  BY DEF IInv
<1>b. pc = "body"
  BY DEF Body, Opened, Sized, ReadsNothing, ReadsFile, SetFilePointer, SetCurrentFilePointer
<1>t. /\ m_TSFileId \in 0..MaxFiles /\ m_TSFile \in 0..MaxFiles /\ m_currentFileStartOffset \in Nat
      /\ m_TSFile \in {None, m_TSFileId} /\ zapping \in BOOLEAN /\ moved \in BOOLEAN
      /\ ~moved => copied \in [unit : Int, at : Int, n : Int, asked : Int]
      /\ call \in [op : Ops, method : Methods, n : Int, id : 0..MaxFiles]
  BY <1>0 DEF TypeOK, CallOK
<1>r. ASSUME Returns
      PROVE  /\ UNCHANGED <<server, window, m_TSBufferFile, header, list>> /\ pc' = "idle" /\ tries' \in 0..Tries
             /\ call'.op = "none"
  BY <1>r, Constants DEF Returns, NoCall
<1>c. ASSUME NEW op \in {"read", "seek"}, NEW method, NEW n, Begin(op, method, n, None), Continues
      PROVE  /\ UNCHANGED <<server, window, m_TSBufferFile, header, list>> /\ pc' = "header" /\ tries' \in 0..Tries
             /\ call'.op = op
  BY <1>c, Constants DEF Begin, Continues
<1>1. CASE Opened
  <2>1. /\ m_currentPosition' = 0 /\ m_lastZapPosition' = 0 /\ Returns /\ call.op = "open"
        /\ UNCHANGED <<handle, zapping, reading, faults>>
    BY <1>1 DEF Opened
  <2>2. moved' /\ UNCHANGED <<copied, m_TSFileId, m_TSFile, m_currentFileStartOffset, moved>>
    BY <1>0, <2>1 DEF HoleOK, reading, handle
  <2>3. CallOK' /\ ServerOK' /\ RefreshOK' /\ ListOK'
    BY <1>b, <1>t, <2>1, <2>2, ReturnsOK
  <2>4. TypeOK'
    BY <1>r, <1>t, <2>1, <2>2, BodyTypes
  <2>5. HoleOK'
    BY <1>r, <2>1, <2>2 DEF HoleOK
  <2> QED
    BY <2>3, <2>4, <2>5 DEF IInv
<1>2. CASE Sized
  <2>1. Returns /\ call.op = "size" /\ UNCHANGED <<position, handle, zapping, reading, faults>>
    BY <1>2 DEF Sized
  <2>2. /\ UNCHANGED <<copied, moved, m_TSFileId, m_TSFile, m_currentFileStartOffset,
                       m_currentPosition, m_lastZapPosition>>
        /\ ~zapping /\ ~zapping'
    BY <1>0, <2>1 DEF CallOK, reading, handle, position
  <2>3. CallOK' /\ ServerOK' /\ RefreshOK' /\ ListOK'
    BY <1>b, <1>t, <2>1, <2>2, ReturnsOK
  <2>4. TypeOK'
    BY <1>r, <1>t, <2>1, <2>2, PositionTypes, BodyTypes
  <2>5. HoleOK'
    BY <1>b, <1>r, <2>1, <2>2, MovesOnly
  <2> QED
    BY <2>3, <2>4, <2>5 DEF IInv
<1>3. CASE ReadsNothing
  <2>1. /\ m_currentPosition' = Clamped(m_currentPosition) /\ Returns
        /\ UNCHANGED <<m_lastZapPosition, handle, zapping, reading, faults>>
    BY <1>3 DEF ReadsNothing
  <2>2. UNCHANGED <<copied, moved, m_TSFileId, m_TSFile, m_currentFileStartOffset>>
    BY <2>1 DEF reading, handle
  <2>3. CallOK' /\ ServerOK' /\ RefreshOK' /\ ListOK'
    BY <1>b, <1>t, <2>2, <2>1, ReturnsOK
  <2>4. TypeOK'
    BY <1>r, <1>t, <2>1, <2>2, PositionTypes, BodyTypes
  <2>5. HoleOK'
    BY <1>b, <1>r, <2>1, <2>2, PositionTypes, MovesOnly
  <2> QED
    BY <2>3, <2>4, <2>5 DEF IInv
<1>4. CASE ReadsFile
  <2>0. PICK current \in Nat : current = Clamped(m_currentPosition)
    BY PositionTypes
  <2>1. PICK i \in FilesAt(current) : ReadFailsAt(i, current) \/ ReadsFrom(i, current)
    BY <1>4, <2>0 DEF ReadsFile
  <2>2. call.op = "read" /\ current >= m_startPosition
    BY <1>4, <2>0, PositionTypes DEF ReadsFile
  <2>3. CASE ReadFailsAt(i, current)
    <3>1. /\ m_currentPosition' = current /\ Returns
          /\ UNCHANGED <<m_lastZapPosition, m_TSFileId, m_currentFileStartOffset, zapping, reading>>
          /\ m_TSFile' \in {None, m_TSFileId'}
      BY <1>t, <2>3 DEF ReadFailsAt, OpensFile
    <3>2. UNCHANGED <<copied, moved>> /\ m_TSFile' \in 0..MaxFiles
      BY <1>t, <3>1, Constants DEF reading, None
    <3>3. CallOK' /\ ServerOK' /\ RefreshOK' /\ ListOK'
      BY <1>b, <1>t, <3>1, <3>2, ReturnsOK
    <3>4. TypeOK'
      BY <1>r, <1>t, <3>1, <3>2, PositionTypes, BodyTypes
    <3>5. HoleOK'
      BY <1>b, <1>r, <2>0, <2>2, <3>1, <3>2, MovesOnly
    <3> QED
      BY <3>3, <3>4, <3>5 DEF IInv
  <2>4. CASE ReadsFrom(i, current)
    <3>1. PICK n \in Nat \ {0} :
            /\ m_currentPosition' = current + n
            /\ \/ call.n > n /\ Begin("read", "begin", call.n - n, None) /\ Continues
               \/ Returns
            /\ moved' = ~refreshed
            /\ UNCHANGED <<m_lastZapPosition, zapping>>
            /\ m_TSFileId' \in 0..MaxFiles /\ m_TSFile' = m_TSFileId'
            /\ m_currentFileStartOffset' \in Nat
      BY <1>b, <2>1, <2>0, <2>2, <2>4, ReadEffect
    <3>2. refreshed => /\ copied' \in [unit : Int, at : Int, n : Int, asked : Int]
                       /\ copied'.at = current /\ (~mismeasured => copied'.unit = current + origin)
                       /\ m_currentPosition' = current + copied'.asked /\ copied'.asked > 0
                       /\ m_startPosition = Floor /\ m_tsFiles # <<>>
      BY <1>b, <2>1, <2>0, <2>2, <2>4, ReadContent
    <3>3. /\ UNCHANGED <<server, window, m_TSBufferFile, header, list>> /\ pc' \in {"idle", "header"}
          /\ tries' \in 0..Tries /\ call'.op \in {"none", "read"}
      BY <1>r, <1>c, <3>1
    <3>4. CallOK' /\ ServerOK' /\ RefreshOK' /\ ListOK'
      <4>1. CASE Returns
        BY <1>b, <3>1, <3>2, <4>1, ReturnsOK
      <4>2. CASE call.n > n /\ Begin("read", "begin", call.n - n, None) /\ Continues
        <5>1. call.n - n \in Int /\ call.n - n > 0
          BY <1>t, <4>2
        <5> QED
          BY <1>b, <3>1, <3>2, <4>2, <5>1, ContinuesOK DEF Methods
      <4> QED
        BY <3>1, <4>1, <4>2
    <3>5. TypeOK'
      <4>1. m_currentPosition' \in Nat /\ moved' \in BOOLEAN
        BY <3>1
      <4> QED
        BY <1>t, <3>1, <3>3, <4>1, PositionTypes, BodyTypes
    <3>6. HoleOK'
      <4>1. UNCHANGED <<m_tsFiles, mismeasured, refreshed, origin, m_startPosition, m_lastZapPosition>>
        BY <3>1, <3>3 DEF window
      <4>2. Floor' = Floor
        BY <4>1 DEF Floor
      <4>3. CASE refreshed
        <5>1. /\ m_currentPosition' = copied'.at + copied'.asked
              /\ ~mismeasured => copied'.unit = copied'.at + origin
          BY <3>2, <4>3
        <5>2. m_currentPosition' >= m_startPosition /\ m_startPosition <= Floor
          BY <2>2, <3>1, <3>2, <4>3, PositionTypes
        <5> QED
          BY <3>2, <3>3, <4>1, <4>2, <4>3, <5>1, <5>2 DEF HoleOK
      <4>4. CASE ~refreshed
        BY <3>1, <3>3, <4>4 DEF HoleOK
      <4> QED
        BY <4>3, <4>4
    <3> QED
      BY <3>4, <3>5, <3>6 DEF IInv
  <2> QED
    BY <2>1, <2>3, <2>4
<1>5. CASE SetFilePointer
  <2> DEFINE to == Target(call.method, IF call.op = "zap" THEN 0 ELSE call.n)
  <2>1. /\ m_currentPosition' = to /\ moved' = TRUE /\ zapping' = (zapping \/ call.op = "zap")
        /\ UNCHANGED <<m_lastZapPosition, handle, faults>>
        /\ \/ Begin("seek", "current", call.n - m_currentPosition', None) /\ Continues
           \/ Returns
    BY <1>5 DEF SetFilePointer
  <2>2. to \in Nat
    <3>1. call.n \in Int /\ call.method \in {"begin", "current", "end"}
      BY <1>t DEF Methods
    <3>2. /\ m_startPosition \in Nat /\ m_endPosition \in Nat /\ m_currentPosition \in Nat
      BY PositionTypes
    <3>3. PICK distance \in Int : distance = IF call.op = "zap" THEN 0 ELSE call.n
      BY <3>1
    <3>4. PICK from \in Nat : from = CASE call.method = "begin" -> m_startPosition
                                       [] call.method = "current" -> m_currentPosition
                                       [] call.method = "end" -> m_endPosition
      BY <3>1, <3>2
    <3>5. to = LET above == Clamped(distance + from)
               IN  IF above > m_endPosition THEN m_endPosition ELSE above
      BY <3>3, <3>4 DEF Target
    <3> QED
      BY <3>2, <3>5 DEF Clamped
  <2> HIDE DEF to
  <2>3. UNCHANGED <<m_TSFileId, m_TSFile, m_currentFileStartOffset>>
    BY <2>1 DEF handle
  <2>4. /\ UNCHANGED <<server, window, m_TSBufferFile, header, list>> /\ pc' \in {"idle", "header"}
        /\ tries' \in 0..Tries /\ call'.op \in {"none", "seek"}
    BY <1>r, <1>c, <2>1
  <2>5. CallOK' /\ ServerOK' /\ RefreshOK' /\ ListOK'
    <3>1. CASE Returns
      BY <1>b, <1>t, <2>1, <2>3, <3>1, ReturnsOK
    <3>2. CASE Begin("seek", "current", call.n - m_currentPosition', None) /\ Continues
      <4>1. call.n - m_currentPosition' \in Int
        BY <1>t, <2>1, <2>2
      <4> QED
        BY <1>b, <1>t, <2>1, <2>3, <3>2, <4>1, ContinuesOK DEF Methods
    <3> QED
      BY <2>1, <3>1, <3>2
  <2>6. TypeOK'
    BY <1>t, <2>1, <2>2, <2>3, <2>4, PositionTypes, BodyTypes
  <2>7. HoleOK'
    BY <1>b, <2>1, <2>4, MovesOnly
  <2> QED
    BY <2>5, <2>6, <2>7 DEF IInv
<1>6. CASE SetCurrentFilePointer
  <2>1. /\ call.op = "zap" /\ moved' = TRUE /\ zapping' = TRUE /\ Returns
        /\ UNCHANGED m_lastZapPosition
    BY <1>6 DEF SetCurrentFilePointer
  <2>2. call.n \in Nat
    BY <1>0, <1>t, <2>1 DEF CallOK
  <2>3. /\ m_TSFileId' \in 0..MaxFiles /\ m_TSFile' \in {None, m_TSFileId'}
        /\ m_currentFileStartOffset' \in Nat /\ m_currentPosition' \in Nat
    <3>1. CASE UNCHANGED <<m_currentPosition, handle, faults>>
      BY <1>t, <3>1, PositionTypes DEF handle
    <3>2. CASE m_tsFiles # <<>> \/ m_TSFileId = call.id
      <4>0. CASE UNCHANGED <<m_currentPosition, handle, faults>>
        BY <3>1, <4>0
      <4>1. CASE ~ UNCHANGED <<m_currentPosition, handle, faults>>
        <5>1. /\ IF SwitchesFile(call.id, call.n)
                 THEN /\ \E opened \in BOOLEAN : OpensFile(FileOf(call.id), opened)
                      /\ m_TSFileId' = FileOf(call.id).id
                      /\ m_currentFileStartOffset' = FileOf(call.id).start
                 ELSE UNCHANGED <<handle, faults>>
              /\ m_currentPosition' = IF m_currentFileStartOffset' + call.n > m_endPosition
                                      THEN m_endPosition ELSE m_currentFileStartOffset' + call.n
          BY <1>6, <4>1 DEF SetCurrentFilePointer
        <5>2. /\ m_TSFileId' \in 0..MaxFiles /\ m_TSFile' \in {None, m_TSFileId'}
              /\ m_currentFileStartOffset' \in Nat
          <6>1. CASE SwitchesFile(call.id, call.n)
            <7>1. m_tsFiles # <<>>
              BY <3>2, <6>1 DEF SwitchesFile
            <7>2. PICK i \in 1..Len(m_tsFiles) : FileOf(call.id) = m_tsFiles[i]
              <8>1. Len(m_tsFiles) \in 1..Len(m_tsFiles)
                BY <7>1, ListTypes, EmptySeq
              <8>2. DOMAIN m_tsFiles = 1..Len(m_tsFiles)
                BY ListTypes
              <8> DEFINE having == {i \in DOMAIN m_tsFiles : m_tsFiles[i].id = call.id}
              <8>3. having # {} => (CHOOSE i \in having : TRUE) \in having
                OBVIOUS
              <8>4. FileOf(call.id) = m_tsFiles[IF having = {} THEN Len(m_tsFiles)
                                                ELSE CHOOSE i \in having : TRUE]
                BY DEF FileOf
              <8>5. CASE having = {}
                BY <8>1, <8>4, <8>5
              <8>6. CASE having # {}
                <9>1. PICK i \in having : i = CHOOSE j \in having : TRUE
                  BY <8>3, <8>6
                <9>2. i \in 1..Len(m_tsFiles)
                  BY <8>2, <9>1
                <9> QED
                  BY <8>4, <8>6, <9>1, <9>2
              <8> QED
                BY <8>5, <8>6
            <7>3. /\ m_tsFiles[i].number \in 1..MaxFiles /\ m_tsFiles[i].id = m_tsFiles[i].number
                  /\ m_tsFiles[i].start \in Nat
              BY <1>b, BodyList
            <7>4. m_TSFile' = m_tsFiles[i].number \/ m_TSFile' = None
              BY <5>1, <6>1, <7>2 DEF OpensFile
            <7> QED
              BY <5>1, <6>1, <7>2, <7>3, <7>4, Constants
          <6>2. CASE ~SwitchesFile(call.id, call.n)
            BY <1>t, <5>1, <6>2 DEF handle
          <6> QED
            BY <6>1, <6>2
        <5> QED
          BY <2>2, <5>1, <5>2, PositionTypes
      <4> QED
        BY <4>0, <4>1
    <3> QED
      BY <1>6, <3>1, <3>2 DEF SetCurrentFilePointer
  <2>4. m_TSFile' \in 0..MaxFiles
    BY <2>3, Constants DEF None
  <2>5. CallOK' /\ ServerOK' /\ RefreshOK' /\ ListOK'
    BY <1>b, <1>t, <2>1, <2>3, ReturnsOK
  <2>6. TypeOK'
    BY <1>r, <2>1, <2>3, <2>4, PositionTypes, BodyTypes
  <2>7. HoleOK'
    BY <1>b, <1>r, <2>1, MovesOnly
  <2> QED
    BY <2>5, <2>6, <2>7 DEF IInv
<1> QED
  BY <1>1, <1>2, <1>3, <1>4, <1>5, <1>6 DEF Body

\* Every step keeps the invariant.
LEMMA InvariantStep ==
  ASSUME IInv, [Next]_vars
  PROVE  IInv'
<1>1. CASE Server
  BY <1>1, ServerStep
<1>2. CASE Calls
  BY <1>2, CallStep
<1>3. CASE Refresh
  BY <1>3, HeaderStep, NotRefreshedStep, ListStep, FooterStep, ApplyStep, AppendStep DEF Refresh
<1>4. CASE ReadFails
  BY <1>4, Retried DEF ReadFails
<1>5. CASE Body
  BY <1>5, BodyStep
<1>6. CASE UNCHANGED vars
  <2>1. UNCHANGED <<server, window, position, handle, refresh, caller, reading, rolls>>
    BY <1>6 DEF vars
  <2>2. TypeOK /\ ServerOK /\ CallOK /\ RefreshOK /\ ListOK /\ HoleOK
    BY DEF IInv
  <2>3. TypeOK'
    BY <2>1, <2>2 DEF TypeOK, server, window, position, handle, refresh, caller, reading
  <2>4. ServerOK' /\ CallOK'
    BY <2>1, <2>2 DEF ServerOK, CallOK, server, handle, refresh, caller, reading
  <2>5. RefreshOK'
    BY <2>1, <2>2 DEF RefreshOK, server, window, refresh, caller
  <2>6. ListOK'
    BY <2>1, <2>2 DEF ListOK, Contiguous, FileOK, server, window, refresh, caller
  <2>7. HoleOK'
    BY <2>1, <2>2 DEF HoleOK, Floor, window, position, caller, reading
  <2> QED
    BY <2>3, <2>4, <2>5, <2>6, <2>7 DEF IInv
<1> QED
  BY <1>1, <1>2, <1>3, <1>4, <1>5, <1>6 DEF Next, Calls

\* The inductive invariant.
THEOREM InvariantHolds == Spec => []IInv
BY InitOK, InvariantStep, PTL DEF Spec

\* The reader numbers the files as the server does, its coordinates of them lie one after the
\* other, and they count the stream unless the length of a file in them could not be read; for
\* any number of files in the list and names in the ring, whatever is published, removed or
\* reused between the reads of a refresh, and whichever of its reads and opens fail.
THEOREM ListIsTrueHolds == Spec => []ListIsTrue
<1>1. IInv => ListIsTrue
  <2> SUFFICES ASSUME IInv PROVE ListIsTrue
    OBVIOUS
  <2>1. /\ DOMAIN m_tsFiles = 1..Len(m_tsFiles) /\ Len(m_tsFiles) \in Nat
        /\ \A i \in 1..Len(m_tsFiles) : m_tsFiles[i].number \in 1..MaxFiles
    BY ListTypes
  <2>2. ASSUME NEW i \in 1..Len(m_tsFiles), NEW gone \in 0..MaxFiles, NEW known \in 0..MaxFiles,
               \A j \in DOMAIN m_tsFiles : FileOK(m_tsFiles[j], j, gone, known)
        PROVE  /\ m_tsFiles[i].id = m_tsFiles[i].number
               /\ ~mismeasured =>
                    /\ m_tsFiles[i].start + origin = base[m_tsFiles[i].number]
                    /\ i < Len(m_tsFiles) => m_tsFiles[i].length = Lengths[m_tsFiles[i].number]
    <3>1. /\ FileOK(m_tsFiles[i], i, gone, known)
          /\ FileOK(m_tsFiles[Len(m_tsFiles)], Len(m_tsFiles), gone, known)
      BY <2>1, <2>2
    <3>2. /\ m_tsFiles[i].number = gone + i /\ m_tsFiles[i].id = m_tsFiles[i].number
          /\ ~mismeasured =>
               /\ m_tsFiles[i].start + origin = base[m_tsFiles[i].number]
               /\ m_tsFiles[i].number < known => m_tsFiles[i].length = Lengths[m_tsFiles[i].number]
          /\ gone + Len(m_tsFiles) <= known
      BY <3>1 DEF FileOK
    <3>3. i < Len(m_tsFiles) => m_tsFiles[i].number < known
      BY <2>1, <3>2, Constants
    <3> QED
      BY <3>2, <3>3
  <2>3. /\ m_filesAdded \in 0..MaxFiles /\ m_filesRemoved \in 0..MaxFiles
        /\ header.added \in 0..MaxFiles /\ header.removed \in 0..MaxFiles
    BY CountTypes
  <2>4. TypeOK /\ ListOK
    BY DEF IInv
  <2>c. \A i \in DOMAIN m_tsFiles :
          i > 1 => m_tsFiles[i].start = m_tsFiles[i - 1].start + m_tsFiles[i - 1].length
    BY <2>1, <2>4 DEF ListOK, Contiguous
  <2>5. CASE pc = "gone"
    <3>1. m_tsFiles = <<>>
      BY <2>4, <2>5 DEF ListOK
    <3> QED
      BY <2>1, <2>4, <3>1, EmptySeq DEF ListIsTrue
  <2>6. CASE pc # "gone"
    <3>1. \E gone, known \in 0..MaxFiles :
            \A j \in DOMAIN m_tsFiles : FileOK(m_tsFiles[j], j, gone, known)
      BY <2>3, <2>4, <2>6 DEF ListOK
    <3> QED
      BY <2>1, <2>2, <2>4, <2>c, <3>1 DEF ListIsTrue
  <2> QED
    BY <2>5, <2>6
<1> QED
  BY <1>1, InvariantHolds, PTL

\* Only a read in a body says what was copied.
LEMMA OnlyReadsCopy ==
  ASSUME IInv, [Next]_vars, pc = "body", copied' # copied, ~moved'
  PROVE  LET current == Clamped(m_currentPosition)
         IN  call.op = "read" /\ refreshed /\ \E i \in FilesAt(current) : ReadsFrom(i, current)
<1>1. ~Server /\ ~UNCHANGED vars
  BY DEF Server, vars, reading
<1>2. ~Calls
  BY DEF Calls, OpenFile, OpenTimesOut, CloseFile, Read, Seek, Zap, OnZap, GetFileSize,
         OnChannelChange, Move
<1>3. ~Refresh /\ ~ReadFails
  BY DEF Refresh, ReadHeader, NotRefreshed, ReadList, ReadFooter, ApplyCounts, AppendFile, ReadFails
<1>4. Body
  BY <1>1, <1>2, <1>3 DEF Next, Calls
<1>5. ReadsFile
  BY <1>4 DEF Body, Opened, Sized, ReadsNothing, SetFilePointer, SetCurrentFilePointer, reading
<1>6. \A i \in FilesAt(Clamped(m_currentPosition)) : ~ReadFailsAt(i, Clamped(m_currentPosition))
  BY DEF ReadFailsAt, reading
<1>7. /\ call.op = "read"
      /\ \E i \in FilesAt(Clamped(m_currentPosition)) : ReadsFrom(i, Clamped(m_currentPosition))
  BY <1>5, <1>6 DEF ReadsFile
<1>8. refreshed
  BY <1>7 DEF ReadsFrom
<1> QED
  BY <1>7, <1>8

\* Faults are counted.
LEMMA FaultsCounted == Spec => [](faults \in Nat)
<1>1. Init => faults \in Nat
  BY DEF Init
<1>2. faults \in Nat /\ [Next]_vars => (faults \in Nat)'
  <2>0. SUFFICES ASSUME faults \in Nat, [Next]_vars
                 PROVE  faults' = faults \/ faults' = faults + 1
    BY SMT
  <2>1. CASE Server \/ UNCHANGED vars
    BY <2>1 DEF Server, vars
  <2>2. CASE Calls
    BY <2>2 DEF Calls, OpenFile, OpenTimesOut, CloseFile, Read, Seek, Zap, OnZap, GetFileSize,
                OnChannelChange, CallFrame
  <2>3. CASE ReadHeader \/ NotRefreshed \/ ReadList \/ ReadFooter \/ ReadFails
    BY <2>3 DEF ReadHeader, NotRefreshed, ReadList, ReadFooter, ReadFails, Fault
  <2>4. CASE ApplyCounts
    BY <2>4 DEF ApplyCounts, Fault
  <2>5. CASE AppendFile
    BY <2>5 DEF AppendFile, Fault
  <2>6. CASE Opened \/ Sized \/ ReadsNothing \/ SetFilePointer
    BY <2>6 DEF Opened, Sized, ReadsNothing, SetFilePointer
  <2>7. CASE ReadsFile
    BY <2>7 DEF ReadsFile, ReadFailsAt, ReadsFrom, OpensFile, Fault
  <2>8. CASE SetCurrentFilePointer
    BY <2>8 DEF SetCurrentFilePointer, OpensFile, Fault
  <2> QED
    BY <2>0, <2>1, <2>2, <2>3, <2>4, <2>5, <2>6, <2>7, <2>8 DEF Next, Calls, Refresh, Body
<1> QED
  BY <1>1, <1>2, PTL DEF Spec

\* What a read returns is what the server wrote there, all that was wanted unless the file's
\* Read itself fails, and it begins where the last read ended, but for seeks and zaps, a list that
\* could not be refreshed or measured, the first read after a lap, and what the server has
\* removed; for any ring, any faults, and any interleaving of the server with the steps of a call.
THEOREM ReadsTheStreamHolds == Spec => ReadsTheStream
<1>1. ASSUME IInv, faults \in Nat, [Next]_vars, pc = "body", copied' # copied, ~moved'
      PROVE  /\ copied'.n = copied'.asked \/ faults' # faults
             /\ ~mismeasured => copied'.unit = copied'.at + origin
             /\ ~moved /\ ~mismeasured =>
                  \/ copied'.unit = copied.unit + copied.asked
                  \/ copied'.at = m_startPosition /\ copied'.unit > copied.unit + copied.asked
  <2>1. PICK current \in Nat : current = Clamped(m_currentPosition)
    BY <1>1, PositionTypes
  <2>2. PICK i \in FilesAt(current) : ReadsFrom(i, current) /\ call.op = "read" /\ refreshed
    BY <1>1, <2>1, OnlyReadsCopy
  <2>3. /\ copied'.n = copied'.asked \/ faults' = faults + 1
        /\ copied'.at = current
        /\ ~mismeasured => copied'.unit = current + origin
        /\ m_startPosition = Floor /\ m_tsFiles # <<>>
    BY <1>1, <2>1, <2>2, ReadContent
  <2>4. ASSUME ~moved, ~mismeasured
        PROVE  \/ current + origin = copied.unit + copied.asked
               \/ current = m_startPosition /\ current + origin > copied.unit + copied.asked
    <3>1. /\ copied.unit \in Int /\ copied.asked \in Int /\ copied.at \in Int
          /\ copied.unit = copied.at + origin
      BY <1>1, <2>4 DEF IInv, CallOK, HoleOK
    <3>2. \/ m_currentPosition = copied.at + copied.asked
          \/ /\ m_currentPosition > copied.at + copied.asked
             /\ m_currentPosition <= m_startPosition
      BY <1>1, <2>3, <2>4 DEF IInv, HoleOK
    <3>3. /\ m_currentPosition \in Nat /\ m_startPosition \in Nat /\ origin \in Nat
      BY <1>1, PositionTypes
    <3>4. \/ current = copied.at + copied.asked
          \/ current = m_startPosition /\ current > copied.at + copied.asked
      <4>1. copied.at + copied.asked \in Int
        BY <3>1
      <4> QED
        BY <2>1, <3>2, <3>3, <4>1 DEF Clamped
    <3> QED
      BY <3>1, <3>3, <3>4
  <2>5. copied'.n = copied'.asked \/ faults' # faults
    BY <1>1, <2>3
  <2> QED
    BY <2>3, <2>4, <2>5
<1>2. IInv /\ faults \in Nat /\ [Next]_vars =>
        [pc = "body" /\ copied' # copied /\ ~moved' =>
           /\ copied'.n = copied'.asked \/ faults' # faults
           /\ ~mismeasured => copied'.unit = copied'.at + origin]_vars
  BY <1>1
<1>3. IInv /\ faults \in Nat /\ [Next]_vars =>
        [pc = "body" /\ copied' # copied /\ ~moved /\ ~moved' /\ ~mismeasured =>
           \/ copied'.unit = copied.unit + copied.asked
           \/ copied'.at = m_startPosition /\ copied'.unit > copied.unit + copied.asked]_vars
  BY <1>1
<1> QED
  BY <1>2, <1>3, InvariantHolds, FaultsCounted, PTL DEF Spec, ReadsTheStream, TrueContent, NoHole
-----------------------------------------------------------------------------
(* Zaps                                                                     *)

\* The file that the reader has open: the server names no file that is older, and as long as it
\* is in the list the reader knows where it begins.
HandleOK ==
  /\ m_TSFileId <= m_filesAdded
  /\ call.op = "zap" /\ call.id # None => call.n > 0 /\ m_TSFileId <= call.id
  /\ \A i \in 1..Len(m_tsFiles) :
       m_tsFiles[i].id = m_TSFileId => m_currentFileStartOffset = m_tsFiles[i].start

\* A reader that has not been moved is in the file that it read last, or before its list.
PlaceOK ==
  pc # "gone" /\ ~moved =>
    /\ m_TSFileId # None
    /\ m_currentPosition >= m_lastZapPosition
    /\ ~mismeasured => m_currentFileStartOffset + origin = base[m_TSFileId]
    /\ \/ m_currentPosition <= m_currentFileStartOffset + size[m_TSFileId]
       \/ m_currentPosition <= m_tsFiles[1].start

ZapInv == HandleOK /\ PlaceOK

LEMMA ZapInitially == Init => ZapInv
BY RingAssumption, EmptySeq DEF Init, ZapInv, HandleOK, PlaceOK, NoCall, None

\* The types that the steps below need.
LEMMA ZapTypes ==
  ASSUME IInv
  PROVE  /\ m_TSFileId \in 0..MaxFiles /\ m_currentFileStartOffset \in Nat /\ origin \in Nat
         /\ m_currentPosition \in Nat /\ m_lastZapPosition \in Nat /\ m_startPosition \in Nat
         /\ written \in 1..MaxFiles /\ MaxFiles \in Nat /\ None = 0
         /\ \A n \in 1..written : base[n] \in Nat /\ size[n] \in Nat
         /\ m_tsFiles # <<>> => 1 \in 1..Len(m_tsFiles) /\ m_tsFiles[1].start \in Nat
         /\ pc # "gone" /\ ~moved => m_tsFiles # <<>>
         /\ m_filesAdded \in Nat /\ m_filesAdded <= written
         /\ call.id \in 0..MaxFiles /\ call.n \in Int
<1>1. /\ m_TSFileId \in 0..MaxFiles /\ written \in 1..MaxFiles /\ base \in [1..MaxFiles -> Nat]
      /\ size \in [1..MaxFiles -> Nat] /\ MaxFiles \in Nat
  BY Constants DEF IInv, TypeOK
<1>2. \A n \in 1..written : base[n] \in Nat /\ size[n] \in Nat
  BY <1>1
<1>3. m_tsFiles # <<>> => 1 \in 1..Len(m_tsFiles) /\ m_tsFiles[1].start \in Nat
  <2>1. m_tsFiles \in Seq(Files) /\ Len(m_tsFiles) \in Nat
    BY ListTypes
  <2>2. m_tsFiles # <<>> => 1 \in 1..Len(m_tsFiles)
    BY <2>1, EmptySeq
  <2>3. m_tsFiles # <<>> => m_tsFiles[1] \in Files
    BY <2>1, <2>2, ElementOfSeq
  <2>4. \A f \in Files : f.start \in Nat
    BY DEF Files
  <2> QED BY <2>2, <2>3, <2>4
<1>4. pc # "gone" /\ ~moved => m_tsFiles # <<>>
  BY DEF IInv, HoleOK
<1>5. call.id \in 0..MaxFiles /\ call.n \in Int
  BY DEF IInv, CallOK
<1>6. m_filesAdded \in Nat /\ m_filesAdded <= written
  <2>1. /\ m_filesAdded \in 0..MaxFiles /\ m_filesAdded <= tsbuffer.added
        /\ tsbuffer.added \in 0..MaxFiles /\ tsbuffer.added <= written
    BY CountTypes, ServerTypes
  <2> QED BY <1>1, <2>1
<1> QED BY <1>1, <1>2, <1>3, <1>4, <1>5, <1>6, PositionTypes DEF None

\* A step that leaves the reader where it is, and of the list at least what comes later.
LEMMA ZapInvKept ==
  ASSUME IInv, ZapInv,
         UNCHANGED <<m_TSFileId, m_currentFileStartOffset, m_currentPosition, m_lastZapPosition>>,
         written' \in Nat, written <= written',
         \A n \in 1..written : base'[n] = base[n] /\ size'[n] \in Nat /\ size'[n] >= size[n],
         m_filesAdded' \in Nat, m_filesAdded <= m_filesAdded',
         call'.op = "zap" /\ call'.id # None => call' = call \/ (call'.n > 0 /\ call'.id = written),
         pc' = "gone" <=> pc = "gone",
         \A i \in 1..Len(m_tsFiles') :
           m_tsFiles'[i].id = m_TSFileId => m_currentFileStartOffset = m_tsFiles'[i].start,
         \/ moved'
         \/ /\ moved' = moved /\ origin' = origin /\ (~mismeasured' => ~mismeasured)
            /\ \/ m_tsFiles' = m_tsFiles
               \/ /\ m_tsFiles # <<>> /\ m_tsFiles' # <<>>
                  /\ m_tsFiles'[1].start \in Nat /\ m_tsFiles'[1].start >= m_tsFiles[1].start
  PROVE  ZapInv'
<1> DEFINE f == m_TSFileId
           p == m_currentPosition
           o == m_currentFileStartOffset
<1>1. /\ f \in 0..MaxFiles /\ o \in Nat /\ p \in Nat /\ m_lastZapPosition \in Nat /\ origin \in Nat
      /\ written \in 1..MaxFiles /\ MaxFiles \in Nat /\ None = 0
      /\ \A n \in 1..written : base[n] \in Nat /\ size[n] \in Nat
      /\ m_tsFiles # <<>> => m_tsFiles[1].start \in Nat
      /\ pc # "gone" /\ ~moved => m_tsFiles # <<>>
      /\ m_filesAdded \in Nat /\ m_filesAdded <= written
  BY ZapTypes
<1>2. f <= m_filesAdded /\ f <= written /\ (f # None => f \in 1..written)
  BY <1>1 DEF ZapInv, HandleOK
<1>3. HandleOK'
  <2>1. m_TSFileId' <= m_filesAdded'
    BY <1>1, <1>2
  <2>2. call'.op = "zap" /\ call'.id # None => call'.n > 0 /\ m_TSFileId' <= call'.id
    BY <1>2 DEF ZapInv, HandleOK
  <2> QED BY <2>1, <2>2 DEF HandleOK
<1>4. PlaceOK'
  <2> SUFFICES ASSUME pc' # "gone", ~moved'
               PROVE  /\ f # None /\ p >= m_lastZapPosition
                      /\ ~mismeasured' => o + origin' = base'[f]
                      /\ \/ p <= o + size'[f]
                         \/ p <= m_tsFiles'[1].start
    BY DEF PlaceOK
  <2>1. ~moved /\ origin' = origin /\ (~mismeasured' => ~mismeasured)
    OBVIOUS
  <2>2. /\ f # None /\ p >= m_lastZapPosition
        /\ ~mismeasured => o + origin = base[f]
        /\ \/ p <= o + size[f]
           \/ p <= m_tsFiles[1].start
    BY <2>1 DEF ZapInv, PlaceOK
  <2>3. base'[f] = base[f] /\ size'[f] >= size[f] /\ size'[f] \in Nat /\ base[f] \in Nat /\ size[f] \in Nat
    BY <1>1, <1>2, <2>2
  <2>4. CASE p <= o + size[f]
    <3>1. p <= o + size'[f]
      BY <1>1, <2>3, <2>4
    <3> QED BY <2>1, <2>2, <2>3, <3>1
  <2>5. CASE p <= m_tsFiles[1].start
    <3>1. m_tsFiles # <<>> /\ m_tsFiles[1].start \in Nat
      BY <1>1, <2>1
    <3>2. m_tsFiles'[1].start \in Nat /\ m_tsFiles'[1].start >= m_tsFiles[1].start
      BY <2>2, <3>1
    <3>3. p <= m_tsFiles'[1].start
      BY <1>1, <2>5, <3>1, <3>2
    <3> QED BY <2>1, <2>2, <2>3, <3>3
  <2> QED BY <2>2, <2>4, <2>5
<1> QED BY <1>3, <1>4 DEF ZapInv

\* A step that leaves the list, too.
LEMMA ZapListKept ==
  ASSUME IInv, ZapInv, UNCHANGED <<position, handle, reading, m_tsFiles, m_filesAdded, origin, mismeasured>>,
         written' \in Nat, written <= written',
         \A n \in 1..written : base'[n] = base[n] /\ size'[n] \in Nat /\ size'[n] >= size[n],
         call'.op = "zap" /\ call'.id # None => call' = call \/ (call'.n > 0 /\ call'.id = written),
         pc' = "gone" <=> pc = "gone"
  PROVE  ZapInv'
<1>1. UNCHANGED <<m_TSFileId, m_currentFileStartOffset, m_currentPosition, m_lastZapPosition, moved>>
  BY DEF position, handle, reading
<1>2. \A i \in 1..Len(m_tsFiles') :
        m_tsFiles'[i].id = m_TSFileId => m_currentFileStartOffset = m_tsFiles'[i].start
  BY DEF ZapInv, HandleOK
<1>3. m_filesAdded' \in Nat /\ m_filesAdded <= m_filesAdded'
  BY ZapTypes
<1> QED BY <1>1, <1>2, <1>3, ZapInvKept

LEMMA ZapServerStep ==
  ASSUME IInv, ZapInv, Server
  PROVE  ZapInv'
<1>1. /\ UNCHANGED <<window, position, handle, refresh, caller, reading>>
  BY DEF Server
<1>2. /\ written \in 1..MaxFiles /\ MaxFiles \in Nat
      /\ base \in [1..MaxFiles -> Nat] /\ size \in [1..MaxFiles -> Nat]
  BY ServerTypes, Constants
<1>3. /\ written' \in Nat /\ written <= written'
      /\ \A n \in 1..written : base'[n] = base[n] /\ size'[n] \in Nat /\ size'[n] >= size[n]
  <2>1. CASE Write
    <3>1. written' = written /\ base' = base /\ size' = [size EXCEPT ![written] = @ + 1]
      BY <2>1 DEF Write
    <3> QED BY <1>2, <3>1
  <2>2. CASE Roll
    <3>1. /\ written' = written + 1 /\ size' = size
          /\ base' = [base EXCEPT ![written + 1] = base[written] + size[written]]
      BY <2>2 DEF Roll
    <3> QED BY <1>2, <3>1
  <2>3. CASE Publish
    <3>1. written' = written /\ base' = base /\ size' = size
      BY <2>3 DEF Publish
    <3> QED BY <1>2, <3>1
  <2> QED BY <2>1, <2>2, <2>3 DEF Server
<1> QED BY <1>1, <1>3, ZapListKept DEF window, caller

\* The server's part of a step of the reader.
LEMMA ZapSame ==
  ASSUME IInv, UNCHANGED server
  PROVE  /\ written' \in Nat /\ written <= written'
         /\ \A n \in 1..written : base'[n] = base[n] /\ size'[n] \in Nat /\ size'[n] >= size[n]
<1>1. /\ written \in 1..MaxFiles /\ MaxFiles \in Nat
      /\ base \in [1..MaxFiles -> Nat] /\ size \in [1..MaxFiles -> Nat]
      /\ UNCHANGED <<written, base, size>>
  BY ServerTypes, Constants DEF server
<1> QED BY <1>1

LEMMA ZapBegun ==
  ASSUME IInv, ZapInv, pc \in {"closed", "opening", "idle"}, NEW op, NEW method, NEW n, NEW id,
         Begin(op, method, n, id), UNCHANGED <<server, window, position, handle, reading>>,
         op = "zap" /\ id # None => n > 0 /\ id = written
  PROVE  ZapInv'
<1>1. pc' = "header" /\ call' = [op |-> op, method |-> method, n |-> n, id |-> id]
  BY DEF Begin
<1>2. call'.op = "zap" /\ call'.id # None => call'.n > 0 /\ call'.id = written
  BY <1>1
<1> QED BY <1>1, <1>2, ZapSame, ZapListKept DEF window

LEMMA ZapCallStep ==
  ASSUME IInv, ZapInv, Calls
  PROVE  ZapInv'
<1>1. CASE OpenFile
  <2>1. CASE tsbuffer.added > 0
    BY <1>1, <2>1, ZapBegun DEF OpenFile
  <2>2. CASE ~(tsbuffer.added > 0)
    <3>1. pc = "closed" /\ pc' = "opening" /\ UNCHANGED <<server, window, position, handle, call, reading>>
      BY <1>1, <2>2 DEF OpenFile
    <3> QED BY <3>1, ZapSame, ZapListKept DEF window
  <2> QED BY <2>1, <2>2
<1>2. CASE OpenTimesOut
  <2>1. pc = "opening" /\ pc' = "closed" /\ UNCHANGED <<server, window, position, handle, call, reading>>
    BY <1>2 DEF OpenTimesOut
  <2> QED BY <2>1, ZapSame, ZapListKept DEF window
<1>3. CASE CloseFile
  <2>1. /\ pc' = "gone" /\ m_TSFileId' = None /\ m_tsFiles' = <<>>
        /\ UNCHANGED <<server, call, m_filesAdded>>
    BY <1>3 DEF CloseFile
  <2>2. /\ None = 0 /\ call.id \in 0..MaxFiles /\ MaxFiles \in Nat /\ m_filesAdded \in Nat
        /\ Len(m_tsFiles') = 0
    BY <2>1, ZapTypes, EmptySeq
  <2>3. call'.op = "zap" /\ call'.id # None => call'.n > 0 /\ m_TSFileId' <= call'.id
    BY <2>1, <2>2 DEF ZapInv, HandleOK
  <2> QED BY <2>1, <2>2, <2>3 DEF ZapInv, HandleOK, PlaceOK
<1>4. CASE \E n \in Requests : Read(n)
  BY <1>4, ZapBegun DEF Read, CallFrame
<1>5. CASE \E move \in Moves : Seek(move)
  BY <1>5, ZapBegun DEF Seek, CallFrame, Move
<1>6. CASE Zap
  <2>1. \A pos \in Int : OnZap(pos, None) => ZapInv'
    BY ZapBegun DEF OnZap, CallFrame, Move
  <2>2. OnZap(size[written], written) => ZapInv'
    BY ZapBegun DEF OnZap, CallFrame, Move
  <2>3. size[written] \in Int /\ 0 - 1 \in Int /\ 0 \in Int
    BY ZapTypes
  <2> QED BY <1>6, <2>1, <2>2, <2>3 DEF Zap
<1>7. CASE GetFileSize
  BY <1>7, ZapBegun DEF GetFileSize, CallFrame, Move
<1>8. CASE OnChannelChange
  <2>1. /\ m_lastZapPosition' = m_currentPosition
        /\ UNCHANGED <<server, window, m_currentPosition, handle, pc, call, reading>>
    BY <1>8 DEF OnChannelChange
  <2>2. HandleOK'
    BY <2>1 DEF ZapInv, HandleOK, window, handle
  <2>3. PlaceOK'
    BY <2>1, ZapTypes DEF ZapInv, PlaceOK, server, window, handle, reading
  <2> QED BY <2>2, <2>3 DEF ZapInv
<1> QED BY <1>1, <1>2, <1>3, <1>4, <1>5, <1>6, <1>7, <1>8 DEF Calls

LEMMA ZapPositions ==
  ASSUME IInv, ZapInv, NEW current \in Nat, SetPositions(m_tsFiles, current), pc # "gone",
         UNCHANGED <<server, position, handle, call, reading, mismeasured, origin>>,
         m_filesAdded' \in Nat, m_filesAdded <= m_filesAdded'
  PROVE  ZapInv'
<1>1. pc' = "body"
  BY DEF SetPositions
<1>2. /\ m_tsFiles' = <<>> <=> m_tsFiles = <<>>
      /\ m_tsFiles # <<>> => m_tsFiles'[1].start = m_tsFiles[1].start
  BY PositionsSet
<1>3. \/ /\ m_tsFiles # <<>> /\ m_tsFiles' # <<>>
         /\ m_tsFiles'[1].start \in Nat /\ m_tsFiles'[1].start >= m_tsFiles[1].start
      \/ m_tsFiles' = m_tsFiles
  <2>1. CASE m_tsFiles = <<>>
    BY <1>2, <2>1
  <2>2. CASE m_tsFiles # <<>>
    BY <1>2, <2>2, ZapTypes
  <2> QED BY <2>1, <2>2
<1>4. ASSUME NEW i \in 1..Len(m_tsFiles'), m_tsFiles'[i].id = m_TSFileId
      PROVE  m_currentFileStartOffset = m_tsFiles'[i].start
  <2>1. Len(m_tsFiles') = Len(m_tsFiles) /\ i \in 1..Len(m_tsFiles) /\ m_tsFiles # <<>>
    <3>1. Len(m_tsFiles') = Len(m_tsFiles)
      BY PositionsSet
    <3>2. i \in 1..Len(m_tsFiles)
      BY <3>1
    <3>3. Len(m_tsFiles) # 0
      BY <3>2, ListTypes
    <3> QED BY <3>1, <3>2, <3>3, EmptySeq
  <2>2. m_tsFiles'[i].start = m_tsFiles[i].start /\ m_tsFiles'[i].id = m_tsFiles[i].id
    <3>1. CASE i # Len(m_tsFiles)
      BY <2>1, <3>1, PositionsSet
    <3>2. CASE i = Len(m_tsFiles)
      <4>1. m_tsFiles'[i] = [m_tsFiles[i] EXCEPT !.length = current]
        BY <2>1, <3>2, PositionsSet
      <4>2. m_tsFiles[i] \in Files
        BY <2>1, ListTypes, ElementOfSeq
      <4> QED BY <4>1, <4>2 DEF Files
    <3> QED BY <3>1, <3>2
  <2> QED BY <1>4, <2>1, <2>2 DEF ZapInv, HandleOK
<1> QED BY <1>1, <1>3, <1>4, ZapSame, ZapInvKept DEF position, handle, reading

LEMMA ZapRetried ==
  ASSUME IInv, ZapInv, pc \in {"header", "list", "footer"}, NEW reopened, Retry(reopened)
  PROVE  ZapInv'
<1>1. /\ pc' \in {"header", "body"}
      /\ UNCHANGED <<server, m_tsFiles, m_filesAdded, origin, mismeasured, position, handle, call, reading>>
  BY DEF Retry
<1> QED BY <1>1, ZapSame, ZapListKept

\* Another length of a file leaves the beginnings and the ids.
LEMMA StartsStay ==
  ASSUME NEW fs \in Seq(Files), fs # <<>>, NEW c,
         NEW gs, gs = [fs EXCEPT ![Len(fs)] = [fs[Len(fs)] EXCEPT !.length = c]]
  PROVE  /\ Len(gs) = Len(fs)
         /\ \A i \in 1..Len(fs) : gs[i].start = fs[i].start /\ gs[i].id = fs[i].id
<1>1. Len(fs) \in Nat \ {0} /\ DOMAIN fs = 1..Len(fs) /\ \A i \in 1..Len(fs) : fs[i] \in Files
  OBVIOUS
<1>2. DOMAIN gs = 1..Len(fs) /\ Len(gs) = Len(fs)
  BY <1>1
<1>3. \A f \in Files : [f EXCEPT !.length = c].start = f.start /\ [f EXCEPT !.length = c].id = f.id
  BY DEF Files
<1>4. ASSUME NEW i \in 1..Len(fs)
      PROVE  gs[i].start = fs[i].start /\ gs[i].id = fs[i].id
  <2>1. CASE i = Len(fs)
    <3>1. gs[i] = [fs[i] EXCEPT !.length = c]
      BY <1>1, <2>1
    <3> QED BY <1>1, <1>3, <3>1
  <2>2. CASE i # Len(fs)
    <3>1. gs[i] = fs[i]
      BY <1>1, <2>2
    <3> QED BY <3>1
  <2> QED BY <2>1, <2>2
<1> QED BY <1>2, <1>4

\* What is left of the list begins later.
LEMMA ZapApplyStep ==
  ASSUME IInv, ZapInv, ApplyCounts
  PROVE  ZapInv'
<1> DEFINE gone == header.removed - m_filesRemoved
           kept == SubSeq(m_tsFiles, gone + 1, Len(m_tsFiles))
<1>1. /\ pc = "apply" /\ pc' = "append"
      /\ UNCHANGED <<server, origin, position, handle, call, m_filesAdded>>
  BY DEF ApplyCounts
<1>2. PICK opened \in BOOLEAN :
        /\ ~opened => kept # <<>>
        /\ m_tsFiles' = IF kept # <<>> /\ header.added > m_filesAdded
                        THEN [kept EXCEPT ![Len(kept)].length = GetFileLength(kept[Len(kept)].number, opened)]
                        ELSE kept
        /\ mismeasured' = ((mismeasured /\ kept # <<>>) \/ ~opened)
        /\ moved' = (moved \/ (m_tsFiles # <<>> /\ kept = <<>>))
  BY DEF ApplyCounts
<1>3. m_filesAdded' \in Nat /\ m_filesAdded <= m_filesAdded'
  BY <1>1, ZapTypes
<1>4. CASE kept = <<>>
  <2>1. m_tsFiles' = <<>> /\ moved'
    BY <1>1, <1>2, <1>4 DEF IInv, HoleOK
  <2>2. Len(m_tsFiles') = 0
    BY <2>1, EmptySeq
  <2> QED BY <1>1, <1>3, <2>1, <2>2, ZapSame, ZapInvKept DEF position, handle
<1>5. CASE kept # <<>>
  <2>1. /\ header.added \in 1..written /\ m_filesAdded < header.added
        /\ header.removed = R(header.added) /\ m_filesRemoved = R(m_filesAdded)
        /\ m_filesAdded \in Nat /\ Keep \in Nat /\ header.added \in Nat
    BY <1>1, HeaderIsBetween, CountTypes, Constants DEF IInv, RefreshOK
  <2>2. PICK g \in Nat : g = gone
    BY <2>1 DEF R
  <2>3. PICK k : k = kept
    OBVIOUS
  <2>4. k # <<>> /\ k = SubSeq(m_tsFiles, g + 1, Len(m_tsFiles))
    BY <1>5, <2>2, <2>3
  <2>5. PICK c :
          \/ m_tsFiles' = k
          \/ m_tsFiles' = [k EXCEPT ![Len(k)] = [k[Len(k)] EXCEPT !.length = c]]
    BY <1>2, <2>3
  <2>6. moved' = moved /\ (~mismeasured' => ~mismeasured)
    BY <1>2, <1>5 DEF IInv, TypeOK
  <2> HIDE DEF gone, kept
  <2>7. m_tsFiles \in Seq(Files)
    BY ListTypes
  <2>8. /\ k \in Seq(Files)
        /\ \A i \in 1..Len(k) : g + i \in 1..Len(m_tsFiles) /\ k[i] = m_tsFiles[g + i]
    <3>1. Without(k, g, m_tsFiles)
      BY <2>2, <2>4, <2>7, Shortened
    <3> QED BY <3>1 DEF Without
  <2>9. Len(k) \in Nat \ {0} /\ 1 \in 1..Len(k)
    BY <2>4, <2>8, EmptySeq
  <2>10. /\ Len(m_tsFiles') = Len(k)
         /\ \A i \in 1..Len(k) : m_tsFiles'[i].start = k[i].start /\ m_tsFiles'[i].id = k[i].id
    <3>1. CASE m_tsFiles' = k
      BY <3>1
    <3>2. ASSUME m_tsFiles' = [k EXCEPT ![Len(k)] = [k[Len(k)] EXCEPT !.length = c]]
          PROVE  /\ Len(m_tsFiles') = Len(k)
                 /\ \A i \in 1..Len(k) : m_tsFiles'[i].start = k[i].start /\ m_tsFiles'[i].id = k[i].id
      <4>1. PICK gs : gs = m_tsFiles'
        OBVIOUS
      <4>3. k \in Seq(Files) /\ k # <<>> /\ gs = [k EXCEPT ![Len(k)] = [k[Len(k)] EXCEPT !.length = c]]
        BY <2>4, <2>8, <3>2, <4>1
      <4>2. /\ Len(gs) = Len(k)
            /\ \A i \in 1..Len(k) : gs[i].start = k[i].start /\ gs[i].id = k[i].id
        BY ONLY <4>3, StartsStay
      <4> QED BY <4>1, <4>2
    <3> QED BY <2>5, <3>1, <3>2
  <2>11. \A i \in 1..Len(m_tsFiles') :
           m_tsFiles'[i].id = m_TSFileId => m_currentFileStartOffset = m_tsFiles'[i].start
    BY <2>8, <2>10 DEF ZapInv, HandleOK
  <2>12. /\ m_tsFiles # <<>> /\ m_tsFiles' # <<>>
         /\ m_tsFiles'[1].start \in Nat /\ m_tsFiles'[1].start >= m_tsFiles[1].start
    <3>1. g + 1 \in 1..Len(m_tsFiles) /\ k[1] = m_tsFiles[g + 1]
      BY <2>8, <2>9
    <3>2. m_tsFiles[g + 1].start >= m_tsFiles[1].start /\ m_tsFiles[g + 1].start \in Nat
      BY <3>1, StartsGrow, ListTypes
    <3>3. Len(m_tsFiles) # 0 /\ Len(m_tsFiles') # 0 /\ Len(<<>>) = 0
      BY <2>9, <2>10, <3>1, EmptySeq, ListTypes
    <3> QED BY <2>9, <2>10, <3>1, <3>2, <3>3
  <2> QED BY <1>1, <1>3, <2>6, <2>11, <2>12, ZapSame, ZapInvKept DEF position, handle
<1> QED BY <1>4, <1>5

\* The files that are kept reach as far as the list has reached.
Reach == pc = "append" => m_filesAdded <= header.removed + Len(m_tsFiles)

LEMMA ReachStep ==
  ASSUME IInv, Reach, [Next]_vars
  PROVE  Reach'
<1>t. /\ m_tsFiles \in Seq(Files) /\ Len(m_tsFiles) \in Nat
      /\ m_filesAdded \in Nat /\ m_filesRemoved \in Nat /\ header.removed \in Nat
  BY ListTypes, CountTypes, Constants
<1>1. CASE pc' # "append"
  BY <1>1 DEF Reach
<1>2. CASE UNCHANGED <<pc, header, m_tsFiles, m_filesAdded>>
  BY <1>2 DEF Reach
<1>3. CASE ApplyCounts
  <2>1. /\ pc = "apply" /\ UNCHANGED <<m_filesAdded, header>>
    BY <1>3 DEF ApplyCounts, refresh
  <2>2. PICK g \in Int : g = header.removed - m_filesRemoved
    BY <1>t
  <2>3. PICK k : k = SubSeq(m_tsFiles, g + 1, Len(m_tsFiles))
    OBVIOUS
  <2>4. PICK c : \/ m_tsFiles' = k
                 \/ k # <<>> /\ m_tsFiles' = [k EXCEPT ![Len(k)] = [k[Len(k)] EXCEPT !.length = c]]
    BY <1>3, <2>2, <2>3 DEF ApplyCounts
  <2>5. /\ Len(m_tsFiles) = m_filesAdded - m_filesRemoved
        /\ header.removed = R(header.added) /\ m_filesRemoved = R(m_filesAdded)
        /\ m_filesAdded < header.added /\ header.added \in Nat /\ Keep \in Nat
    BY <2>1, HeaderIsBetween, CountTypes, Constants DEF IInv, ListOK, RefreshOK
  <2>6. g \in Nat
    BY <1>t, <2>2, <2>5 DEF R
  <2>7. k \in Seq(Files) /\ (g < Len(m_tsFiles) => Len(k) = Len(m_tsFiles) - g) /\ Len(k) \in Nat
    <3>1. Without(k, g, m_tsFiles)
      BY <1>t, <2>3, <2>6, Shortened
    <3>2. k \in Seq(Files) /\ (g < Len(m_tsFiles) => Len(k) = Len(m_tsFiles) - g)
      BY <3>1 DEF Without
    <3> QED BY <3>2
  <2>8. Len(m_tsFiles') = Len(k)
    BY <2>4, <2>7, StartsStay
  <2>9. m_filesAdded <= header.removed + Len(k)
    BY <1>t, <2>2, <2>5, <2>6, <2>7
  <2> QED BY <2>1, <2>8, <2>9 DEF Reach
<1>4. CASE AppendFile
  <2> SUFFICES ASSUME pc' = "append" PROVE Reach'
    BY DEF Reach
  <2>1. pc = "append" /\ UNCHANGED <<header, m_filesAdded>>
    BY <1>4 DEF AppendFile, SetPositions
  <2>2. PICK new : m_tsFiles' = Append(m_tsFiles, new)
    BY <1>4 DEF AppendFile, SetPositions
  <2>3. Len(m_tsFiles') = Len(m_tsFiles) + 1
    BY <1>t, <2>2
  <2> QED BY <1>t, <2>1, <2>3 DEF Reach
<1>5. CASE Server
  BY <1>2, <1>5 DEF Server, window, refresh, caller
<1>6. CASE Calls
  <2>1. CASE OnChannelChange
    BY <1>2, <2>1 DEF OnChannelChange, window, refresh
  <2>2. CASE OpenFile
    BY <1>1, <2>2 DEF OpenFile, Begin
  <2>3. CASE OpenTimesOut \/ CloseFile
    BY <1>1, <2>3 DEF OpenTimesOut, CloseFile
  <2>4. CASE \E n \in Requests : Read(n)
    BY <1>1, <2>4 DEF Read, Begin
  <2>5. CASE \E move \in Moves : Seek(move)
    BY <1>1, <2>5 DEF Seek, Begin
  <2>6. CASE Zap
    BY <1>1, <2>6 DEF Zap, OnZap, Begin
  <2>7. CASE GetFileSize
    BY <1>1, <2>7 DEF GetFileSize, Begin
  <2> QED BY <1>6, <2>1, <2>2, <2>3, <2>4, <2>5, <2>6, <2>7 DEF Calls
<1>7. CASE Refresh \/ ReadFails
  <2>1. CASE ReadHeader
    BY <1>1, <2>1 DEF ReadHeader, SetPositions
  <2>2. CASE NotRefreshed
    <3>1. pc' \in {"opening", "body"}
      BY <2>2 DEF NotRefreshed
    <3> QED BY <1>1, <3>1
  <2>3. CASE ReadList
    BY <1>1, <2>3 DEF ReadList
  <2>4. CASE ReadFooter
    BY <1>1, <2>4 DEF ReadFooter, Retry
  <2>5. CASE ReadFails
    BY <1>1, <2>5 DEF ReadFails, Retry
  <2> QED BY <1>3, <1>4, <1>7, <2>1, <2>2, <2>3, <2>4, <2>5 DEF Refresh
<1>8. CASE Body
  <2>1. pc' \in {"idle", "header"}
    <3>1. CASE Opened \/ Sized \/ ReadsNothing \/ SetCurrentFilePointer
      BY <3>1 DEF Opened, Sized, ReadsNothing, SetCurrentFilePointer, Returns
    <3>2. CASE ReadsFile
      BY <3>2 DEF ReadsFile, ReadFailsAt, ReadsFrom, Returns, Begin
    <3>3. CASE SetFilePointer
      BY <3>3 DEF SetFilePointer, Returns, Begin
    <3> QED BY <1>8, <3>1, <3>2, <3>3 DEF Body
  <2> QED BY <1>1, <2>1
<1>9. CASE UNCHANGED vars
  BY <1>2, <1>9 DEF vars, window, refresh, caller
<1> QED BY <1>5, <1>6, <1>7, <1>8, <1>9 DEF Next, Calls

\* Names go to the end of the list; their files are younger than the one that is open.
LEMMA ZapAppendStep ==
  ASSUME IInv, ZapInv, Reach, AppendFile
  PROVE  ZapInv'
<1>1. pc = "append" /\ UNCHANGED <<server, position, handle, call, reading>>
  BY DEF AppendFile
<1>2. m_tsFiles \in Seq(Files) /\ Len(m_tsFiles) \in Nat
  BY ListTypes
<1>3. /\ list.removed = header.removed /\ list.added = header.added
      /\ header.removed \in Nat /\ header.added \in Nat /\ m_filesAdded < header.added
      /\ m_filesAdded \in Nat
  BY <1>1, CountTypes, HeaderIsBetween, Constants DEF IInv, RefreshOK
<1> DEFINE k == Len(m_tsFiles) + 1
<1>4. CASE k <= list.added - list.removed
  <2>1. PICK new :
          /\ m_tsFiles' = Append(m_tsFiles, new) /\ new.id = header.removed + k
          /\ ~mismeasured' => ~mismeasured
    <3>1. PICK opened \in BOOLEAN :
            /\ m_tsFiles' = Append(m_tsFiles, NewFile(k, opened))
            /\ mismeasured' = (mismeasured \/ (~opened /\ k < list.added - list.removed))
      BY <1>1, <1>4 DEF AppendFile
    <3>2. NewFile(k, opened).id = header.removed + k
      BY DEF NewFile
    <3> QED BY <3>1, <3>2
  <2>2. /\ origin' = IF k = 1 THEN base[Holder(list.removed + 1)] ELSE origin
        /\ pc' = "append" /\ m_filesAdded' = m_filesAdded
    BY <1>1, <1>4 DEF AppendFile
  <2>3. /\ Len(m_tsFiles') = k /\ m_tsFiles' # <<>>
        /\ \A i \in 1..Len(m_tsFiles) : m_tsFiles'[i] = m_tsFiles[i]
        /\ m_tsFiles'[k] = new
    BY <1>2, <2>1
  <2>4. PICK added \in Nat :
          added = m_filesAdded /\ m_TSFileId <= added /\ m_TSFileId \in Nat
    BY <1>3, ZapTypes DEF ZapInv, HandleOK
  <2>5. added <= header.removed + Len(m_tsFiles)
    BY <1>1, <2>4 DEF Reach
  <2>6. m_TSFileId # new.id
    BY <1>2, <1>3, <2>1, <2>4, <2>5
  <2>7. \A i \in 1..Len(m_tsFiles') :
          m_tsFiles'[i].id = m_TSFileId => m_currentFileStartOffset = m_tsFiles'[i].start
    <3>1. \A i \in 1..k : i = k \/ i \in 1..Len(m_tsFiles)
      BY <1>2
    <3> HIDE DEF k
    <3> QED BY <2>3, <2>6, <3>1 DEF ZapInv, HandleOK
  <2>8. m_filesAdded' \in Nat /\ m_filesAdded <= m_filesAdded'
    BY <1>3, <2>2
  <2>9. CASE m_tsFiles = <<>>
    <3>1. moved'
      BY <1>1, <2>9 DEF IInv, HoleOK, reading
    <3> QED BY <1>1, <2>2, <2>7, <2>8, <3>1, ZapSame, ZapInvKept DEF position, handle
  <2>10. CASE m_tsFiles # <<>>
    <3>1. Len(m_tsFiles) # 0 /\ k # 1 /\ 1 \in 1..Len(m_tsFiles)
      BY <1>2, <2>10, EmptySeq
    <3>2. m_tsFiles'[1] = m_tsFiles[1] /\ m_tsFiles[1].start \in Nat
      BY <2>3, <2>10, <3>1, ZapTypes
    <3>3. origin' = origin
      BY <2>2, <3>1
    <3>4. m_tsFiles'[1].start \in Nat /\ m_tsFiles'[1].start >= m_tsFiles[1].start
      BY <3>2
    <3> HIDE DEF k
    <3> QED BY <1>1, <2>1, <2>2, <2>3, <2>7, <2>8, <2>10, <3>3, <3>4, ZapSame, ZapInvKept
         DEF position, handle, reading
  <2> QED BY <2>9, <2>10
<1>5. CASE ~(k <= list.added - list.removed)
  <2>1. /\ SetPositions(m_tsFiles, header.position) /\ UNCHANGED <<origin, mismeasured>>
        /\ m_filesAdded' = header.added
    BY <1>1, <1>5 DEF AppendFile
  <2>2. header.position \in Nat
    BY CountTypes
  <2>3. m_filesAdded' \in Nat /\ m_filesAdded <= m_filesAdded'
    BY <1>3, <2>1
  <2> QED BY <1>1, <2>1, <2>2, <2>3, ZapPositions
<1> QED BY <1>4, <1>5

LEMMA ZapRefreshStep ==
  ASSUME IInv, ZapInv, Reach, Refresh \/ ReadFails
  PROVE  ZapInv'
<1>1. CASE ReadHeader
  <2>1. /\ pc = "header"
        /\ UNCHANGED <<server, position, handle, call, reading, m_filesAdded, mismeasured, origin>>
    BY <1>1 DEF ReadHeader
  <2>2. CASE SetPositions(m_tsFiles, tsbuffer.position)
    BY <2>1, <2>2, ServerTypes, ZapTypes, ZapPositions
  <2>3. CASE pc' = "list" /\ UNCHANGED m_tsFiles
    BY <2>1, <2>3, ZapSame, ZapListKept
  <2> QED BY <1>1, <2>2, <2>3 DEF ReadHeader
<1>2. CASE ReadList
  <2>1. pc = "list" /\ pc' = "footer" /\ UNCHANGED <<server, window, position, handle, call, reading>>
    BY <1>2 DEF ReadList
  <2> QED BY <2>1, ZapSame, ZapListKept DEF window
<1>3. CASE ReadFooter
  <2>1. CASE FooterAgrees
    <3>1. pc = "footer" /\ pc' = "apply" /\ UNCHANGED <<server, window, position, handle, call, reading>>
      BY <1>3, <2>1 DEF ReadFooter
    <3> QED BY <3>1, ZapSame, ZapListKept DEF window
  <2>2. CASE ~FooterAgrees
    BY <1>3, <2>2, ZapRetried DEF ReadFooter
  <2> QED BY <2>1, <2>2
<1>4. CASE ApplyCounts
  BY <1>4, ZapApplyStep
<1>5. CASE AppendFile
  BY <1>5, ZapAppendStep
<1>6. CASE ReadFails
  BY <1>6, ZapRetried DEF ReadFails
<1>7. CASE NotRefreshed
  <2>1. /\ pc = "header" /\ pc' \in {"opening", "body"}
        /\ UNCHANGED <<server, m_tsFiles, m_filesAdded, origin, mismeasured, position, handle, call, reading>>
    BY <1>7 DEF NotRefreshed
  <2> QED BY <2>1, ZapSame, ZapListKept
<1> QED BY <1>1, <1>2, <1>3, <1>4, <1>5, <1>6, <1>7 DEF Refresh

\* A file of the list, in the body of a call.
LEMMA FileInBody ==
  ASSUME IInv, pc = "body", NEW i \in 1..Len(m_tsFiles)
  PROVE  /\ m_tsFiles[i].number = m_filesRemoved + i /\ m_tsFiles[i].id = m_tsFiles[i].number
         /\ ~mismeasured => m_tsFiles[i].start + origin = base[m_tsFiles[i].number]
         /\ m_tsFiles[i].length <= size[m_tsFiles[i].number]
         /\ m_tsFiles[i].number \in 1..written /\ m_tsFiles[i].number <= m_filesAdded
         /\ m_tsFiles[i].start \in Nat /\ m_tsFiles[i].length \in Nat
<1>1. FileOK(m_tsFiles[i], i, m_filesRemoved, m_filesAdded)
  BY ListTypes DEF IInv, ListOK
<1>2. /\ m_tsFiles[i].number \in 1..MaxFiles
      /\ m_tsFiles[i].start \in Nat /\ m_tsFiles[i].length \in Nat
  BY ListTypes
<1>3. /\ m_filesAdded \in 0..MaxFiles /\ m_filesAdded <= tsbuffer.added
      /\ tsbuffer.added \in 0..MaxFiles /\ tsbuffer.added <= written /\ written \in 1..MaxFiles
      /\ MaxFiles \in Nat
  BY CountTypes, ServerTypes, Constants
<1>4. /\ m_tsFiles[i].number = m_filesRemoved + i /\ m_tsFiles[i].id = m_tsFiles[i].number
      /\ m_tsFiles[i].number <= m_filesAdded
      /\ ~mismeasured => m_tsFiles[i].start + origin = base[m_tsFiles[i].number]
      /\ m_tsFiles[i].length <= size[m_tsFiles[i].number]
  BY <1>1 DEF FileOK
<1>5. m_tsFiles[i].number \in 1..written
  BY <1>2, <1>3, <1>4
<1> QED BY <1>2, <1>4, <1>5

\* The body of a call opens files of the list only.
LEMMA HandleInBody ==
  ASSUME IInv, ZapInv, pc = "body", UNCHANGED <<server, window>>, call'.op # "zap",
         \/ UNCHANGED <<m_TSFileId, m_currentFileStartOffset>>
         \/ \E i \in 1..Len(m_tsFiles) :
              m_TSFileId' = m_tsFiles[i].id /\ m_currentFileStartOffset' = m_tsFiles[i].start
  PROVE  HandleOK'
<1>1. UNCHANGED <<m_tsFiles, m_filesAdded>>
  BY DEF window
<1>2. CASE UNCHANGED <<m_TSFileId, m_currentFileStartOffset>>
  BY <1>1, <1>2 DEF ZapInv, HandleOK
<1>3. ASSUME NEW i \in 1..Len(m_tsFiles), m_TSFileId' = m_tsFiles[i].id,
             m_currentFileStartOffset' = m_tsFiles[i].start
      PROVE  HandleOK'
  <2>1. m_TSFileId' <= m_filesAdded'
    BY <1>1, <1>3, FileInBody
  <2>2. ASSUME NEW j \in 1..Len(m_tsFiles), m_tsFiles[j].id = m_TSFileId'
        PROVE  j = i
    <3>1. m_tsFiles[j].id = m_filesRemoved + j /\ m_tsFiles[i].id = m_filesRemoved + i
      BY FileInBody
    <3>2. m_filesRemoved \in Nat /\ Len(m_tsFiles) \in Nat
      BY CountTypes, Constants, ListTypes
    <3>3. m_filesRemoved + j = m_filesRemoved + i
      BY <1>3, <2>2, <3>1
    <3> QED BY ONLY <3>2, <3>3, i \in 1..Len(m_tsFiles), j \in 1..Len(m_tsFiles)
  <2>3. \A j \in 1..Len(m_tsFiles') :
          m_tsFiles'[j].id = m_TSFileId' => m_currentFileStartOffset' = m_tsFiles'[j].start
    BY <1>1, <1>3, <2>2
  <2> QED BY <2>1, <2>3 DEF HandleOK
<1> QED BY <1>2, <1>3

\* A body that reads nothing brings the reader at most to the begin of the list.
LEMMA PlaceClamped ==
  ASSUME IInv, ZapInv, pc = "body",
         UNCHANGED <<server, window, m_lastZapPosition, m_TSFileId, m_currentFileStartOffset, moved>>,
         m_currentPosition' \in {m_currentPosition, Clamped(m_currentPosition)}
  PROVE  PlaceOK'
<1>1. UNCHANGED <<base, size, m_tsFiles, mismeasured, origin>>
  BY DEF server, window
<1> SUFFICES ASSUME ~moved
             PROVE  /\ m_TSFileId # None /\ m_currentPosition' >= m_lastZapPosition
                    /\ ~mismeasured => m_currentFileStartOffset + origin = base[m_TSFileId]
                    /\ \/ m_currentPosition' <= m_currentFileStartOffset + size[m_TSFileId]
                       \/ m_currentPosition' <= m_tsFiles[1].start
  BY <1>1 DEF PlaceOK
<1>2. /\ m_TSFileId # None /\ m_currentPosition >= m_lastZapPosition
      /\ ~mismeasured => m_currentFileStartOffset + origin = base[m_TSFileId]
      /\ \/ m_currentPosition <= m_currentFileStartOffset + size[m_TSFileId]
         \/ m_currentPosition <= m_tsFiles[1].start
  BY DEF ZapInv, PlaceOK
<1>3. CASE m_currentPosition' = m_currentPosition
  BY <1>2, <1>3
<1>4. CASE m_currentPosition' # m_currentPosition
  <2>1. m_currentPosition' = m_startPosition /\ m_startPosition > m_currentPosition
    BY <1>4, ZapTypes DEF Clamped
  <2>2. m_startPosition <= Floor
    BY DEF IInv, HoleOK
  <2>3. /\ m_startPosition \in Nat /\ m_currentPosition \in Nat /\ m_lastZapPosition \in Nat
        /\ m_tsFiles[1].start \in Nat
    BY ZapTypes
  <2>4. m_startPosition <= m_tsFiles[1].start /\ m_startPosition >= m_lastZapPosition
    BY <1>2, <2>1, <2>2, <2>3 DEF Floor
  <2> QED BY <1>2, <2>1, <2>4
<1> QED BY <1>3, <1>4

\* The file that a zap asks for.
LEMMA FileAskedFor ==
  ASSUME IInv, m_tsFiles # <<>>, NEW id
  PROVE  \E i \in 1..Len(m_tsFiles) :
           /\ FileOf(id) = m_tsFiles[i]
           /\ (\E j \in 1..Len(m_tsFiles) : m_tsFiles[j].id = id) => m_tsFiles[i].id = id
<1>1. DOMAIN m_tsFiles = 1..Len(m_tsFiles) /\ Len(m_tsFiles) \in 1..Len(m_tsFiles)
  BY ListTypes, EmptySeq
<1> DEFINE having == {i \in DOMAIN m_tsFiles : m_tsFiles[i].id = id}
<1>2. FileOf(id) = m_tsFiles[IF having = {} THEN Len(m_tsFiles) ELSE CHOOSE i \in having : TRUE]
  BY DEF FileOf
<1>3. CASE having = {}
  <2>1. ~\E j \in 1..Len(m_tsFiles) : m_tsFiles[j].id = id
    BY <1>1, <1>3
  <2> HIDE DEF having
  <2> QED BY <1>1, <1>2, <1>3, <2>1
<1>4. CASE having # {}
  <2>1. PICK i \in having : i = CHOOSE j \in having : TRUE
    BY <1>4
  <2>2. i \in 1..Len(m_tsFiles) /\ m_tsFiles[i].id = id
    BY <1>1, <2>1
  <2> HIDE DEF having
  <2> QED BY <1>2, <1>4, <2>1, <2>2
<1> QED BY <1>3, <1>4

\* A read ends in the file that it opened.
LEMMA ZapReadStep ==
  ASSUME IInv, ZapInv, pc = "body", call.op = "read", NEW current \in Nat,
         current = Clamped(m_currentPosition), NEW i \in FilesAt(current), ReadsFrom(i, current)
  PROVE  ZapInv'
<1>1. i \in 1..Len(m_tsFiles)
  BY BodyList DEF FilesAt
<1>2. PICK n \in Nat \ {0} :
        /\ m_currentPosition' = current + n
        /\ n <= m_tsFiles[i].length - (current - m_tsFiles[i].start)
        /\ \/ Begin("read", "begin", call.n - n, None) /\ Continues
           \/ Returns
        /\ moved' = ~refreshed
        /\ UNCHANGED m_lastZapPosition
        /\ m_TSFileId' = m_tsFiles[i].id
  BY ReadEffect
<1>3. UNCHANGED <<server, window>> /\ call'.op # "zap"
  BY <1>2 DEF Begin, Continues, Returns, NoCall
<1>4. \/ UNCHANGED <<m_TSFileId, m_currentFileStartOffset>>
      \/ m_TSFileId' = m_tsFiles[i].id /\ m_currentFileStartOffset' = m_tsFiles[i].start
  BY DEF ReadsFrom, handle
<1>5. HandleOK'
  BY <1>1, <1>3, <1>4, HandleInBody
<1>6. CASE ~refreshed
  <2>1. moved'
    BY <1>2, <1>6
  <2> QED BY <1>5, <2>1 DEF ZapInv, PlaceOK
<1>7. CASE refreshed
  <2>1. /\ ~mismeasured => m_tsFiles[i].start + origin = base[m_tsFiles[i].number]
        /\ m_tsFiles[i].length <= size[m_tsFiles[i].number]
        /\ m_tsFiles[i].id = m_tsFiles[i].number /\ m_tsFiles[i].number \in 1..written
        /\ m_tsFiles[i].start \in Nat /\ m_tsFiles[i].length \in Nat
    BY <1>1, FileInBody
  <2>2. current >= m_startPosition /\ m_startPosition = Floor
    BY <1>7, PositionTypes, ReadContent
  <2>3. PICK f \in 1..written : f = m_TSFileId'
    BY <1>2, <2>1
  <2>4. size[f] \in Nat
    BY ZapTypes
  <2>5. m_currentFileStartOffset' = m_tsFiles[i].start
    <3>1. CASE UNCHANGED <<m_TSFileId, m_currentFileStartOffset>>
      BY <1>1, <1>2, <3>1 DEF ZapInv, HandleOK
    <3> QED BY <1>4, <3>1
  <2>6. m_currentPosition' <= m_currentFileStartOffset' + size[f]
    BY <1>2, <2>1, <2>3, <2>4, <2>5
  <2>7. m_currentPosition' >= m_lastZapPosition
    <3>1. m_startPosition \in Nat /\ m_lastZapPosition \in Nat
      BY PositionTypes
    <3>2. m_tsFiles[1].start \in Nat
      BY <1>1, ZapTypes, ListTypes, EmptySeq
    <3>3. Floor >= m_lastZapPosition
      BY <3>1, <3>2 DEF Floor
    <3> QED BY <1>2, <2>2, <3>1, <3>3
  <2>8. m_TSFileId' # None /\ UNCHANGED <<base, size, origin, m_tsFiles, mismeasured>>
    BY <1>3, <2>3, ZapTypes DEF server, window
  <2>9. ~mismeasured => m_currentFileStartOffset' + origin = base[f]
    BY <1>2, <2>1, <2>3, <2>5
  <2>10. PlaceOK'
    BY <1>2, <2>3, <2>6, <2>7, <2>8, <2>9 DEF PlaceOK
  <2> QED BY <1>5, <2>10 DEF ZapInv
<1> QED BY <1>6, <1>7

LEMMA ZapBodyStep ==
  ASSUME IInv, ZapInv, Body
  PROVE  ZapInv'
<1>b. pc = "body"
  BY DEF Body, Opened, Sized, ReadsNothing, ReadsFile, SetFilePointer, SetCurrentFilePointer
<1>r. ASSUME Returns
      PROVE  UNCHANGED <<server, window>> /\ call'.op # "zap"
  BY <1>r DEF Returns, NoCall
<1>m. ASSUME moved', HandleOK'
      PROVE  ZapInv'
  BY <1>m DEF ZapInv, PlaceOK
<1>1. CASE Opened
  <2>1. Returns /\ call.op = "open" /\ UNCHANGED <<handle, moved>>
    BY <1>1 DEF Opened, reading
  <2>2. moved'
    BY <2>1 DEF IInv, HoleOK
  <2>3. HandleOK'
    BY <1>b, <1>r, <2>1, HandleInBody DEF handle
  <2> QED BY <1>m, <2>2, <2>3
<1>2. CASE Sized
  <2>1. Returns /\ UNCHANGED <<m_currentPosition, m_lastZapPosition, handle, moved>>
    BY <1>2 DEF Sized, position, reading
  <2>2. HandleOK'
    BY <1>b, <1>r, <2>1, HandleInBody DEF handle
  <2>3. PlaceOK'
    BY <1>b, <1>r, <2>1, PlaceClamped DEF handle
  <2> QED BY <2>2, <2>3 DEF ZapInv
<1>3. CASE ReadsNothing
  <2>1. /\ Returns /\ UNCHANGED <<m_lastZapPosition, handle, moved>>
        /\ m_currentPosition' = Clamped(m_currentPosition)
    BY <1>3 DEF ReadsNothing, reading
  <2>2. HandleOK'
    BY <1>b, <1>r, <2>1, HandleInBody DEF handle
  <2>3. PlaceOK'
    BY <1>b, <1>r, <2>1, PlaceClamped DEF handle
  <2> QED BY <2>2, <2>3 DEF ZapInv
<1>4. CASE ReadsFile
  <2>1. PICK current \in Nat : current = Clamped(m_currentPosition)
    BY PositionTypes
  <2>2. PICK i \in FilesAt(current) : ReadFailsAt(i, current) \/ ReadsFrom(i, current)
    BY <1>4, <2>1 DEF ReadsFile
  <2>3. CASE ReadFailsAt(i, current)
    <3>1. /\ Returns /\ UNCHANGED <<m_lastZapPosition, m_TSFileId, m_currentFileStartOffset, moved>>
          /\ m_currentPosition' = Clamped(m_currentPosition)
      BY <2>1, <2>3 DEF ReadFailsAt, reading
    <3>2. HandleOK'
      BY <1>b, <1>r, <3>1, HandleInBody
    <3>3. PlaceOK'
      BY <1>b, <1>r, <3>1, PlaceClamped
    <3> QED BY <3>2, <3>3 DEF ZapInv
  <2>4. CASE ReadsFrom(i, current)
    BY <1>4, <1>b, <2>1, <2>2, <2>4, ZapReadStep DEF ReadsFile
  <2> QED BY <2>2, <2>3, <2>4
<1>5. CASE SetFilePointer
  <2>1. /\ moved' /\ UNCHANGED handle
        /\ \/ Begin("seek", "current", call.n - m_currentPosition', None) /\ Continues
           \/ Returns
    BY <1>5 DEF SetFilePointer
  <2>2. UNCHANGED <<server, window>> /\ call'.op # "zap"
    BY <1>r, <2>1 DEF Begin, Continues
  <2>3. HandleOK'
    BY <1>b, <2>1, <2>2, HandleInBody DEF handle
  <2> QED BY <1>m, <2>1, <2>3
<1>6. CASE SetCurrentFilePointer
  <2>1. moved' /\ Returns
    BY <1>6 DEF SetCurrentFilePointer
  <2>2. CASE UNCHANGED handle
    <3>1. HandleOK'
      BY <1>b, <1>r, <2>1, <2>2, HandleInBody DEF handle
    <3> QED BY <1>m, <2>1, <3>1
  <2>3. CASE ~UNCHANGED handle
    <3>1. /\ m_tsFiles # <<>> \/ m_TSFileId = call.id
          /\ SwitchesFile(call.id, call.n)
          /\ m_TSFileId' = FileOf(call.id).id /\ m_currentFileStartOffset' = FileOf(call.id).start
      BY <1>6, <2>3 DEF SetCurrentFilePointer
    <3>2. m_tsFiles # <<>>
      BY <3>1 DEF SwitchesFile
    <3>3. PICK i \in 1..Len(m_tsFiles) : FileOf(call.id) = m_tsFiles[i]
      BY <3>2, FileAskedFor
    <3>4. HandleOK'
      BY <1>b, <1>r, <2>1, <3>1, <3>3, HandleInBody
    <3> QED BY <1>m, <2>1, <3>4
  <2> QED BY <2>2, <2>3
<1> QED BY <1>1, <1>2, <1>3, <1>4, <1>5, <1>6 DEF Body

LEMMA ZapInvStep ==
  ASSUME IInv, ZapInv, Reach, [Next]_vars
  PROVE  ZapInv'
<1>1. CASE Server
  BY <1>1, ZapServerStep
<1>2. CASE Calls
  BY <1>2, ZapCallStep
<1>3. CASE Refresh \/ ReadFails
  BY <1>3, ZapRefreshStep
<1>4. CASE Body
  BY <1>4, ZapBodyStep
<1>5. CASE UNCHANGED vars
  BY <1>5, ZapSame, ZapListKept DEF vars, window, caller
<1> QED BY <1>1, <1>2, <1>3, <1>4, <1>5 DEF Next, Calls

\* Where the zap goes when the file is not changed: the reader is then in the file that the server
\* named, because it cannot have come to a later one.
LEMMA ZapGoesThere ==
  ASSUME IInv, ZapInv, SetCurrentFilePointer, ~mismeasured, ~moved,
         NEW i \in 1..Len(m_tsFiles), m_tsFiles[i].id = call.id
  PROVE  LET to == base[call.id] + call.n - origin
         IN  m_currentPosition' = IF to > m_endPosition THEN m_endPosition ELSE to
<1> DEFINE id == call.id
           f == m_TSFileId
<1>1. pc = "body" /\ call.op = "zap" /\ id # None
  BY DEF SetCurrentFilePointer
<1>2. call.n \in Int /\ call.n > 0 /\ f <= id
  BY <1>1, ZapTypes DEF ZapInv, HandleOK
<1>3. /\ m_tsFiles[i].start + origin = base[id] /\ id \in 1..written
      /\ m_tsFiles[i].start \in Nat /\ m_tsFiles[i].number = id
      /\ id = m_filesRemoved + i
  BY <1>1, FileInBody
<1>4. m_tsFiles # <<>> /\ 1 \in 1..Len(m_tsFiles)
  BY ListTypes, EmptySeq
<1>5. /\ origin \in Nat /\ m_currentPosition \in Nat /\ m_endPosition \in Nat
      /\ m_currentFileStartOffset \in Nat /\ written \in Nat
      /\ base[id] \in Nat
  BY <1>3, ZapTypes, PositionTypes
<1>6. /\ IF SwitchesFile(id, call.n)
         THEN m_currentFileStartOffset' = FileOf(id).start
         ELSE UNCHANGED handle
      /\ m_currentPosition' = IF m_currentFileStartOffset' + call.n > m_endPosition
                              THEN m_endPosition ELSE m_currentFileStartOffset' + call.n
  BY <1>4 DEF SetCurrentFilePointer
<1>7. PICK j \in 1..Len(m_tsFiles) : FileOf(id) = m_tsFiles[j] /\ m_tsFiles[j].id = id
  BY <1>4, FileAskedFor
<1>8. m_tsFiles[j].start + origin = base[id] /\ m_tsFiles[j].start \in Nat
  BY <1>1, <1>7, FileInBody
<1>9. m_currentFileStartOffset' \in Nat /\ m_currentFileStartOffset' + origin = base[id]
  <2>1. CASE SwitchesFile(id, call.n)
    BY <1>6, <1>7, <1>8, <2>1
  <2>2. CASE ~SwitchesFile(id, call.n)
    <3>0. UNCHANGED handle
      <4>1. IF SwitchesFile(id, call.n)
            THEN m_currentFileStartOffset' = FileOf(id).start ELSE UNCHANGED handle
        BY <1>6
      <4> HIDE DEF id, f
      <4> QED BY ONLY <2>2, <4>1
    <3>1. m_currentFileStartOffset' = m_currentFileStartOffset
      BY <3>0 DEF handle
    <3>2. /\ f # None /\ m_currentFileStartOffset + origin = base[f]
          /\ \/ m_currentPosition <= m_currentFileStartOffset + size[f]
             \/ m_currentPosition <= m_tsFiles[1].start
      BY <1>1 DEF ZapInv, PlaceOK
    <3>3. f \in 1..written
      <4>1. f \in 0..MaxFiles /\ MaxFiles \in Nat /\ None = 0
        BY ZapTypes
      <4>2. f # 0
        BY <3>2, <4>1
      <4> QED BY ONLY <1>2, <1>3, <1>5, <4>1, <4>2
    <3>4. f = id
      <4> SUFFICES ASSUME f # id PROVE FALSE
        OBVIOUS
      <4>1. m_currentPosition >= m_tsFiles[j].start + call.n
        BY <1>2, <1>5, <1>7, <1>8, <2>2 DEF SwitchesFile
      <4>2. m_currentPosition + origin > base[id]
        BY <1>2, <1>5, <1>8, <4>1
      <4>3. f \in 1..written - 1 /\ f + 1 \in 1..written /\ f + 1 <= id
        BY <1>2, <1>3, <1>5, <3>3
      <4>4. size[f] = Lengths[f] /\ base[f + 1] = base[f] + Lengths[f] /\ base[f + 1] <= base[id]
        BY <1>3, <4>3 DEF IInv, ServerOK
      <4>5. CASE m_currentPosition <= m_currentFileStartOffset + size[f]
        <5>1. base[f + 1] \in Nat /\ base[f] \in Nat /\ size[f] \in Nat
          BY <3>3, <4>3, ZapTypes
        <5> QED BY <1>5, <3>2, <4>2, <4>4, <4>5, <5>1
      <4>6. CASE m_currentPosition <= m_tsFiles[1].start
        <5>1. /\ m_tsFiles[1].start + origin = base[m_tsFiles[1].number]
              /\ m_tsFiles[1].number = m_filesRemoved + 1 /\ m_tsFiles[1].number \in 1..written
              /\ m_tsFiles[1].start \in Nat
          BY <1>1, <1>4, FileInBody
        <5>2. m_tsFiles[1].number <= id
          BY <1>3, <5>1, CountTypes
        <5>3. base[m_tsFiles[1].number] <= base[id]
          BY <1>3, <5>1, <5>2 DEF IInv, ServerOK
        <5> QED BY <1>5, <4>2, <4>6, <5>1, <5>3
      <4> QED BY <3>2, <4>5, <4>6
    <3>5. m_currentFileStartOffset + origin = base[id]
      BY <3>2, <3>4
    <3> QED BY <1>5, <3>1, <3>5
  <2> QED BY <2>1, <2>2
<1>10. base[id] + call.n - origin = m_currentFileStartOffset' + call.n
  BY <1>2, <1>5, <1>9
<1> QED BY <1>6, <1>10

\* A zap goes to where the server says that the new channel begins, in the file it names, also
\* when the reader has that file open already, although names are used again and after the reader
\* has been lapped; for any ring and whatever has failed, but for a list that could not be
\* refreshed or measured and for a seek since the last read.
THEOREM ZapLandsHolds == Spec => ZapLands
<1>1. Init => IInv /\ ZapInv /\ Reach
  <2>1. Init => Reach
    BY DEF Init, Reach
  <2> QED BY <2>1, InitOK, ZapInitially
<1>2. IInv /\ ZapInv /\ Reach /\ [Next]_vars => (IInv /\ ZapInv /\ Reach)'
  BY InvariantStep, ZapInvStep, ReachStep
<1>3. IInv /\ ZapInv /\ [Next]_vars =>
        [SetCurrentFilePointer /\ refreshed /\ ~mismeasured /\ ~moved
           /\ (\E i \in DOMAIN m_tsFiles : m_tsFiles[i].id = call.id) =>
           LET to == base[call.id] + call.n - origin
           IN  m_currentPosition' = IF to > m_endPosition THEN m_endPosition ELSE to]_vars
  <2>1. ASSUME IInv, ZapInv, SetCurrentFilePointer, ~mismeasured, ~moved,
               \E i \in DOMAIN m_tsFiles : m_tsFiles[i].id = call.id
        PROVE  LET to == base[call.id] + call.n - origin
               IN  m_currentPosition' = IF to > m_endPosition THEN m_endPosition ELSE to
    <3>1. PICK i \in 1..Len(m_tsFiles) : m_tsFiles[i].id = call.id
      BY <2>1, ListTypes
    <3> QED BY <2>1, <3>1, ZapGoesThere
  <2> QED BY <2>1
<1> QED
  BY <1>1, <1>2, <1>3, PTL DEF Spec, ZapLands
=============================================================================
