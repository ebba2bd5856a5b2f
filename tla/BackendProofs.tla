------------------------------ MODULE BackendProofs ------------------------------
(***************************************************************************)
(* What holds of timers, recordings, guide and signal for every server,     *)
(* every setting and every bound.                                           *)
(***************************************************************************)
EXTENDS Backend, TLAPS, WellFoundedInduction, SequenceTheorems, FiniteSetTheorems

-----------------------------------------------------------------------------
(* Lemmas                                                                  *)

\* Induction over the numbers is by the least one for which something is false.
LEMMA LeastOf ==
  ASSUME NEW T, T \subseteq Nat, T # {}
  PROVE  \E x \in T : \A y \in T : x <= y
<1> DEFINE less == {pair \in Nat \X Nat : pair[1] < pair[2]}
<1>1. IsWellFoundedOn(less, Nat)
  BY NatLessThanWellFounded DEF OpToRel
<1>2. PICK x \in T : \A y \in T : <<y, x>> \notin less
  <2> HIDE DEF less
  <2> QED BY <1>1, WFMin
<1>3. ASSUME NEW y \in T PROVE x <= y
  <2>1. x \in Nat /\ y \in Nat
    OBVIOUS
  <2>2. ~(y < x)
    BY <1>2, <2>1
  <2> QED BY <2>1, <2>2
<1> QED BY <1>3

\* How many of a set of places there are up to each one.
UpTo(good, i) == Cardinality({j \in good : j <= i})

LEMMA CountIs ==
  ASSUME NEW n \in Nat, NEW good, good \subseteq 1 .. n
  PROVE  /\ UpTo(good, 0) = 0 /\ UpTo(good, n) = Cardinality(good)
         /\ \A i \in 0 .. n : UpTo(good, i) \in Nat
         /\ \A i \in 1 .. n : UpTo(good, i) = IF i \in good THEN UpTo(good, i - 1) + 1 ELSE UpTo(good, i - 1)
         /\ \A i \in 1 .. n : \A j \in good : j <= i => UpTo(good, j) \in 1 .. UpTo(good, i)
<1> DEFINE S(i) == {j \in good : j <= i}
<1>1. IsFiniteSet(1 .. n)
  BY FS_Interval
<1>2. ASSUME NEW i PROVE IsFiniteSet(S(i)) /\ Cardinality(S(i)) \in Nat
  <2>1. S(i) \in SUBSET (1 .. n)
    OBVIOUS
  <2> HIDE DEF S
  <2> QED BY <1>1, <2>1, FS_Subset, FS_CardinalityType
<1>0. \A j \in good : j \in 1 .. n /\ ~(j <= 0) /\ j <= n
  OBVIOUS
<1>3. S(0) = {} /\ S(n) = good
  BY <1>0, Zenon
<1>4. ASSUME NEW i \in 1 .. n
      PROVE  Cardinality(S(i)) = IF i \in good THEN Cardinality(S(i - 1)) + 1 ELSE Cardinality(S(i - 1))
  <2>1. ASSUME i \in good PROVE S(i) = S(i - 1) \cup {i} /\ i \notin S(i - 1)
    <3>1. \A j \in good : j <= i <=> j <= i - 1 \/ j = i
      BY <1>0
    <3>2. ~(i <= i - 1) /\ i <= i
      OBVIOUS
    <3> QED BY <2>1, <3>1, <3>2, Zenon
  <2>2. ASSUME i \notin good PROVE S(i) = S(i - 1)
    <3>1. \A j \in good : j <= i <=> j <= i - 1
      BY <1>0, <2>2
    <3> QED BY <3>1, Zenon
  <2> HIDE DEF S
  <2>3. ASSUME i \in good PROVE Cardinality(S(i)) = Cardinality(S(i - 1)) + 1
    BY <1>2, <2>1, <2>3, FS_AddElement
  <2> QED BY <2>2, <2>3
<1>5. ASSUME NEW i \in 1 .. n, NEW j \in good, j <= i PROVE Cardinality(S(j)) \in 1 .. Cardinality(S(i))
  <2>1. S(j) \subseteq S(i) /\ j \in S(j)
    <3>1. j <= j /\ \A k \in good : k <= j => k <= i
      BY <1>0, <1>5
    <3> QED BY <3>1, Zenon
  <2> HIDE DEF S
  <2>2. Cardinality(S(j)) <= Cardinality(S(i))
    BY <1>2, <2>1, FS_Subset
  <2>3. Cardinality(S(j)) # 0
    BY <1>2, <2>1, FS_EmptySet
  <2> QED BY <1>2, <2>2, <2>3
<1> HIDE DEF S
<1>6. \A i : UpTo(good, i) = Cardinality(S(i))
  BY DEF UpTo, S
<1>7. Cardinality(S(0)) = 0
  BY <1>3, FS_EmptySet
<1> QED BY <1>2, <1>3, <1>4, <1>5, <1>6, <1>7

-----------------------------------------------------------------------------
(* Signal                                                                  *)

\* An answer that is awaited is of the channel that plays, or of one that was left since the last
\* call; the signal of another channel is older than the calls that repeat it.
SignalInv ==
  /\ m_signalStateCounter \in 0 .. Signal!Repeats
  /\ calls \in 0 .. Signal!Enough
  /\ asked # Signal!None =>
       m_signalStateCounter = 0 /\ (asked = m_iCurrentChannel \/ calls = 0)
  /\ m_iSignal # m_iCurrentChannel =>
       calls <= IF m_signalStateCounter = 0 THEN Signal!Repeats + 1 ELSE m_signalStateCounter

\* A step of the part "signal" is one of SignalStatus.
LEMMA SignalOnly ==
  ASSUME part = "signal", [Next]_vars
  PROVE  part' = "signal" /\ (Signal!Next \/ UNCHANGED signal)
BY DEF Next, vars, Others

LEMMA SignalStep ==
  ASSUME SignalInv, Signal!Next \/ UNCHANGED signal
  PROVE  SignalInv'
<1> USE DEF SignalInv, Signal!Repeats, Signal!Enough, Signal!Counted, Signal!Called
<1>1. ASSUME NEW c \in Channels, Signal!OpenLiveStream(c) PROVE SignalInv'
  BY <1>1 DEF Signal!OpenLiveStream
<1>2. CASE Signal!CloseLiveStream
  BY <1>2 DEF Signal!CloseLiveStream
<1>3. CASE Signal!Ask
  BY <1>3 DEF Signal!Ask
<1>4. CASE Signal!Answer
  BY <1>4 DEF Signal!Answer
<1>5. CASE Signal!NoAnswer
  BY <1>5 DEF Signal!NoAnswer
<1>6. CASE Signal!Repeat
  BY <1>6 DEF Signal!Repeat
<1>7. CASE UNCHANGED signal
  BY <1>7 DEF signal
<1> QED BY <1>1, <1>2, <1>3, <1>4, <1>5, <1>6, <1>7 DEF Signal!Next

\* However tunes, answers and lost answers fall together, the twelfth call after a tune shows the
\* signal of the channel that plays.
THEOREM SignalIsNotStale == Spec => []SignalNotStale
<1> DEFINE Inv == part = "signal" => SignalInv
<1>1. Init => Inv
  BY DEF Init, Signal!Init, SignalInv, Signal!Repeats, Signal!Enough, Signal!None
<1>2. Inv /\ [Next]_vars => Inv'
  <2> SUFFICES ASSUME Inv, [Next]_vars, part' = "signal" PROVE SignalInv'
    OBVIOUS
  <2>1. part = "signal"
    BY DEF Next, vars, Others
  <2> QED BY <2>1, SignalOnly, SignalStep
<1>3. Inv => SignalNotStale
  BY DEF SignalNotStale, Signal!SignalNotStale, SignalInv, Signal!Repeats, Signal!Enough
<1> QED BY <1>1, <1>2, <1>3, PTL DEF Spec

-----------------------------------------------------------------------------
(* Guide                                                                   *)

\* What GetChannels and GetChannelGroupMembers leave out, from what the answers came from.
Kept(basis, radio, c) ==
  /\ c \in basis[1] /\ c.radio = radio
  /\ ~basis[2].onlyFTA \/ ~c.encrypted
  /\ ~radio \/ basis[2].radioEnabled

\* A list of channels has all that was kept of the lineup and the settings it was read with; a
\* member was kept of those it was read with.
GuideInv ==
  /\ DOMAIN channels = BOOLEAN /\ channels = [radio \in BOOLEAN |-> channels[radio]]
  /\ DOMAIN readOf = BOOLEAN /\ readOf = [radio \in BOOLEAN |-> readOf[radio]]
  /\ \A radio \in BOOLEAN :
       LET read == readOf[radio]
       IN  \/ read.basis = <<>>
           \/ \A c : /\ Kept(read.basis, radio, c)
                     /\ read.filter = <<>> \/ c.groups \cap Guide!NamesIn(read.filter) # {}
                     => Guide!Shown(c) \in channels[radio]
  /\ \A m \in members :
       /\ m.radio \in BOOLEAN /\ Len(m.of) = 2
       /\ \E c : Kept(m.of, m.radio, c) /\ m.group \in c.groups /\ m.channel = Guide!Shown(c)

\* A step of the part "guide" is one of Guide.
LEMMA GuideOnly ==
  ASSUME part = "guide", [Next]_vars
  PROVE  part' = "guide" /\ (Guide!Next \/ UNCHANGED guide)
BY DEF Next, vars, Others

LEMMA GuideStep ==
  ASSUME GuideInv, Guide!Next \/ UNCHANGED guide
  PROVE  GuideInv'
<1>1. ASSUME NEW radio \in BOOLEAN, Guide!GetChannels(radio) PROVE GuideInv'
  <2> USE <1>1 DEF Guide!GetChannels
  <2>1. DOMAIN channels' = BOOLEAN /\ channels' = [r \in BOOLEAN |-> channels'[r]]
    BY DEF GuideInv
  <2>2. DOMAIN readOf' = BOOLEAN /\ readOf' = [r \in BOOLEAN |-> readOf'[r]]
    BY DEF GuideInv
  <2>3. readOf'[radio] = [basis |-> <<lineup, options>>, filter |-> filters[radio]]
    BY DEF GuideInv, Guide!Basis
  <2>4. ASSUME NEW c, Kept(<<lineup, options>>, radio, c),
               filters[radio] = <<>> \/ c.groups \cap Guide!NamesIn(filters[radio]) # {}
        PROVE  Guide!Shown(c) \in channels'[radio]
    <3>1. c \in Guide!ServerList(radio, IF filters[radio] = <<>> THEN {} ELSE Guide!NamesIn(filters[radio]))
      BY <2>4 DEF Guide!ServerList, Kept
    <3>2. Guide!Asked(radio) /\ (~options.onlyFTA \/ ~c.encrypted)
      BY <2>4 DEF Kept, Guide!Asked
    <3> QED BY <3>1, <3>2 DEF GuideInv
  <2>5. \A r \in BOOLEAN \ {radio} : channels'[r] = channels[r] /\ readOf'[r] = readOf[r]
    BY DEF GuideInv
  <2>6. members' = members
    OBVIOUS
  <2> QED BY <2>1, <2>2, <2>3, <2>4, <2>5, <2>6 DEF GuideInv
<1>2. ASSUME NEW radio \in BOOLEAN, NEW group, Guide!GetChannelGroupMembers(radio, group)
      PROVE  GuideInv'
  <2> USE <1>2 DEF Guide!GetChannelGroupMembers
  <2>1. UNCHANGED <<channels, readOf>>
    OBVIOUS
  <2>2. ASSUME NEW m \in members', m \notin members
        PROVE  /\ m.radio \in BOOLEAN /\ Len(m.of) = 2
               /\ \E c : Kept(m.of, m.radio, c) /\ m.group \in c.groups /\ m.channel = Guide!Shown(c)
    <3>1. PICK c \in Guide!ServerList(radio, {group}) :
            /\ Guide!Asked(radio) /\ Guide!Added(c)
            /\ m = [radio |-> radio, group |-> group, channel |-> Guide!Shown(c), of |-> Guide!Basis]
      BY <2>2
    <3>2. c \in lineup /\ c.radio = radio /\ group \in c.groups
      BY <3>1 DEF Guide!ServerList
    <3> QED BY <3>1, <3>2 DEF Kept, Guide!Asked, Guide!Added, Guide!Basis
  <2> QED BY <2>1, <2>2 DEF GuideInv
<1>3. ASSUME UNCHANGED <<channels, readOf, members>> PROVE GuideInv'
  BY <1>3 DEF GuideInv
<1>4. ASSUME NEW radio \in BOOLEAN, Guide!GetChannelGroups(radio) PROVE UNCHANGED <<channels, readOf, members>>
  BY <1>4 DEF Guide!GetChannelGroups
<1>5. ASSUME NEW new \in Lineups, Guide!NewLineup(new) PROVE UNCHANGED <<channels, readOf, members>>
  BY <1>5 DEF Guide!NewLineup
<1>6. ASSUME Guide!SetSetting PROVE UNCHANGED <<channels, readOf, members>>
  BY <1>6 DEF Guide!SetSetting
<1>7. ASSUME NEW lines, Guide!GetEPGForChannel(lines) PROVE UNCHANGED <<channels, readOf, members>>
  BY <1>7 DEF Guide!GetEPGForChannel
<1>8. ASSUME UNCHANGED guide PROVE UNCHANGED <<channels, readOf, members>>
  BY <1>8 DEF guide
<1> QED BY <1>1, <1>2, <1>3, <1>4, <1>5, <1>6, <1>7, <1>8 DEF Guide!Next

\* Channels and the members of the groups are read one after the other, while lineup and settings
\* change; those that were read of the same fit together, for every lineup and every setting.
THEOREM MembersAreChannels == Spec => []MembersExist
<1> DEFINE Inv == part = "guide" => GuideInv
<1>1. Init => Inv
  BY DEF Init, Guide!Init, GuideInv
<1>2. Inv /\ [Next]_vars => Inv'
  <2> SUFFICES ASSUME Inv, [Next]_vars, part' = "guide" PROVE GuideInv'
    OBVIOUS
  <2>1. part = "guide"
    BY DEF Next, vars, Others
  <2> QED BY <2>1, GuideOnly, GuideStep
<1>3. Inv => MembersExist
  <2> SUFFICES ASSUME GuideInv, NEW m \in members, m.of = readOf[m.radio].basis,
                      readOf[m.radio].filter = <<>> \/ m.group \in Guide!NamesIn(readOf[m.radio].filter)
               PROVE  m.channel \in channels[m.radio]
    BY DEF MembersExist, Guide!MembersExist
  <2>1. m.of # <<>>
    BY DEF GuideInv
  <2>2. PICK c : Kept(m.of, m.radio, c) /\ m.group \in c.groups /\ m.channel = Guide!Shown(c)
    BY DEF GuideInv
  <2> QED BY <2>1, <2>2 DEF GuideInv
<1> QED BY <1>1, <1>2, <1>3, PTL DEF Spec

\* What GetEPGForChannel makes of the first n lines, with one cEpg for all of them.
LinesRead(lines, n, f) ==
  f = [i \in 0 .. n |->
         IF i = 0 THEN [epg |-> Guide!Cleared, tags |-> <<>>]
         ELSE LET before == f[i - 1]
                  parsed == Guide!ParseLine(before.epg, lines[i])
              IN  [epg |-> Guide!Reset(parsed.epg),
                   tags |-> IF parsed.ok THEN Append(before.tags, parsed.epg) ELSE before.tags]]

LEMMA LinesAreRead ==
  ASSUME NEW lines, NEW n \in Nat
  PROVE  \E f : LinesRead(lines, n, f)
<1> DEFINE First == [epg |-> Guide!Cleared, tags |-> <<>>]
           Next1(before, i) ==
             LET parsed == Guide!ParseLine(before.epg, lines[i])
             IN  [epg |-> Guide!Reset(parsed.epg),
                  tags |-> IF parsed.ok THEN Append(before.tags, parsed.epg) ELSE before.tags]
           Bad == {k \in Nat : ~\E f : LinesRead(lines, k, f)}
<1> SUFFICES ASSUME n \in Bad PROVE FALSE
  OBVIOUS
<1>1. PICK k \in Bad : \A j \in Bad : k <= j
  <2>1. Bad \subseteq Nat /\ Bad # {}
    OBVIOUS
  <2> HIDE DEF Bad
  <2> QED BY <2>1, LeastOf
<1>2. k \in Nat /\ ~\E f : LinesRead(lines, k, f)
  OBVIOUS
<1>3. \A m \in Nat : \A f : LinesRead(lines, m, f) <=> f = [i \in 0 .. m |-> IF i = 0 THEN First ELSE Next1(f[i - 1], i)]
  BY Zenon DEF LinesRead
<1> HIDE DEF First, Next1
<1>4. CASE k = 0
  <2> DEFINE g == [i \in 0 .. k |-> First]
  <2>1. \A i \in 0 .. k : i = 0
    BY <1>4
  <2>2. g = [i \in 0 .. k |-> IF i = 0 THEN First ELSE Next1(g[i - 1], i)]
    BY <2>1, Zenon
  <2> HIDE DEF g
  <2> QED BY <1>2, <1>3, <2>2
<1>5. CASE k # 0
  <2>1. k - 1 \in Nat /\ k - 1 \notin Bad
    <3>1. k - 1 \in Nat /\ ~(k <= k - 1)
      BY <1>2, <1>5
    <3> HIDE DEF Bad
    <3> QED BY <1>1, <3>1
  <2>2. PICK h : h = [i \in 0 .. k - 1 |-> IF i = 0 THEN First ELSE Next1(h[i - 1], i)]
    BY <1>3, <2>1
  <2> DEFINE g == [i \in 0 .. k |-> IF i = k THEN Next1(h[k - 1], k) ELSE h[i]]
  <2>3. ASSUME NEW i \in 0 .. k PROVE g[i] = IF i = 0 THEN First ELSE Next1(g[i - 1], i)
    <3>1. CASE i = k
      <4>1. i # 0 /\ i - 1 \in 0 .. k /\ i - 1 # k
        BY <1>2, <1>5, <3>1
      <4> QED BY <3>1, <4>1
    <3>2. CASE i # k
      <4>1. i \in 0 .. k - 1 /\ (i # 0 => i - 1 \in 0 .. k /\ i - 1 # k)
        BY <1>2, <3>2
      <4>2. h[i] = IF i = 0 THEN First ELSE Next1(h[i - 1], i)
        BY <2>2, <4>1
      <4> QED BY <3>2, <4>1, <4>2
    <3> QED BY <3>1, <3>2
  <2>4. g = [i \in 0 .. k |-> g[i]]
    OBVIOUS
  <2> HIDE DEF g
  <2>5. g = [i \in 0 .. k |-> IF i = 0 THEN First ELSE Next1(g[i - 1], i)]
    BY <2>3, <2>4, Zenon
  <2> QED BY <1>2, <1>3, <2>5
<1> QED BY <1>4, <1>5

GoodLines(lines, n) == {i \in 1 .. n : Guide!ParseLine(Guide!Cleared, lines[i]).ok}

\* Each line is parsed into a cEpg that the one before has left empty.
LEMMA ProgramsAre ==
  ASSUME NEW lines, NEW n \in Nat, DOMAIN lines = 1 .. n, NEW f, LinesRead(lines, n, f),
         NEW good, good = GoodLines(lines, n)
  PROVE  /\ Len(f[n].tags) = UpTo(good, n)
         /\ \A i \in good : f[n].tags[UpTo(good, i)] = Guide!ParseLine(Guide!Cleared, lines[i]).epg
<1> DEFINE A(i) == Guide!ParseLine(Guide!Cleared, lines[i])
           S == {A(i).epg : i \in 1 .. n}
           U(i) == UpTo(good, i)
           Right(i) == /\ f[i].epg = Guide!Cleared
                       /\ f[i].tags \in Seq(S) /\ Len(f[i].tags) = U(i)
                       /\ \A j \in good : j <= i => f[i].tags[U(j)] = A(j).epg
           Bad == {i \in 0 .. n : ~Right(i)}
<1>0. good = {i \in 1 .. n : Guide!ParseLine(Guide!Cleared, lines[i]).ok}
  BY Zenon DEF GoodLines
<1> USE <1>0
<1>1. /\ f[0] = [epg |-> Guide!Cleared, tags |-> <<>>]
      /\ \A i \in 1 .. n :
           LET parsed == Guide!ParseLine(f[i - 1].epg, lines[i])
           IN  f[i] = [epg |-> Guide!Cleared,
                       tags |-> IF parsed.ok THEN Append(f[i - 1].tags, parsed.epg) ELSE f[i - 1].tags]
  <2> DEFINE Body(i) == IF i = 0 THEN [epg |-> Guide!Cleared, tags |-> <<>>]
                        ELSE LET before == f[i - 1]
                                 parsed == Guide!ParseLine(before.epg, lines[i])
                             IN  [epg |-> Guide!Reset(parsed.epg),
                                  tags |-> IF parsed.ok THEN Append(before.tags, parsed.epg) ELSE before.tags]
  <2>1. f = [i \in 0 .. n |-> Body(i)]
    BY Zenon DEF LinesRead
  <2> HIDE DEF Body
  <2>2. \A i \in 0 .. n : f[i] = Body(i)
    BY <2>1
  <2>3. 0 \in 0 .. n /\ \A i \in 1 .. n : i \in 0 .. n /\ i # 0
    OBVIOUS
  <2>4. f[0] = Body(0) /\ \A i \in 1 .. n : f[i] = Body(i) /\ i # 0
    BY <2>2, <2>3
  <2> QED BY <2>4, Zenon DEF Body, Guide!Reset
<1>2. /\ U(0) = 0 /\ \A i \in 0 .. n : U(i) \in Nat
      /\ \A i \in 1 .. n : U(i) = IF i \in good THEN U(i - 1) + 1 ELSE U(i - 1)
      /\ \A i \in 1 .. n : \A j \in good : j <= i => U(j) \in 1 .. U(i)
  <2>1. good \subseteq 1 .. n
    OBVIOUS
  <2>2. /\ UpTo(good, 0) = 0 /\ \A i \in 0 .. n : UpTo(good, i) \in Nat
        /\ \A i \in 1 .. n : UpTo(good, i) = IF i \in good THEN UpTo(good, i - 1) + 1 ELSE UpTo(good, i - 1)
        /\ \A i \in 1 .. n : \A j \in good : j <= i => UpTo(good, j) \in 1 .. UpTo(good, i)
    BY ONLY n \in Nat, <2>1, CountIs
  <2> QED BY <2>2
<1>3. \A i \in 1 .. n : i \in good <=> A(i).ok
  BY Zenon
<1>4. \A i \in 1 .. n : A(i).epg \in S
  BY Zenon
<1>5. \A j \in good : j \in 1 .. n
  OBVIOUS
<1> HIDE DEF A, S, U
<1> SUFFICES Right(n)
  BY <1>5 DEF A, U
<1> SUFFICES ASSUME Bad # {} PROVE FALSE
  OBVIOUS
<1>6. PICK k \in Bad : \A j \in Bad : k <= j
  <2>1. Bad \subseteq Nat
    OBVIOUS
  <2> HIDE DEF Bad
  <2> QED BY <2>1, LeastOf
<1>7. k \in 0 .. n /\ ~Right(k)
  OBVIOUS
<1>8. CASE k = 0
  <2>1. f[0].epg = Guide!Cleared /\ f[0].tags = <<>>
    BY <1>1
  <2>2. <<>> \in Seq(S) /\ Len(<<>>) = 0
    BY EmptySeq
  <2>3. \A j \in good : ~(j <= 0)
    BY <1>5
  <2>4. Right(0)
    BY <1>2, <2>1, <2>2, <2>3
  <2> QED BY <1>7, <1>8, <2>4
<1>9. CASE k # 0
  <2>1. k \in 1 .. n /\ k - 1 \in 0 .. n /\ k - 1 \notin Bad
    <3>1. k \in 1 .. n /\ k - 1 \in 0 .. n /\ ~(k <= k - 1)
      BY <1>7, <1>9
    <3> HIDE DEF Bad
    <3> QED BY <1>6, <3>1
  <2>2. Right(k - 1)
    BY <2>1
  <2> DEFINE t == f[k - 1].tags
             e == A(k).epg
  <2>3. f[k].epg = Guide!Cleared /\ f[k].tags = IF A(k).ok THEN Append(t, e) ELSE t
    <3>1. Guide!ParseLine(f[k - 1].epg, lines[k]) = A(k)
      BY <2>2 DEF A
    <3>2. f[k] = [epg |-> Guide!Cleared, tags |-> IF A(k).ok THEN Append(t, e) ELSE t]
      BY <1>1, <2>1, <3>1, Zenon
    <3> QED BY <3>2
  <2>4. t \in Seq(S) /\ Len(t) = U(k - 1) /\ \A j \in good : j <= k - 1 => t[U(j)] = A(j).epg
    BY <2>2
  <2>5. e \in S
    BY <1>4, <2>1
  <2> HIDE DEF t, e
  <2>6. CASE k \in good
    <3>1. f[k].tags = Append(t, e) /\ U(k) = U(k - 1) + 1
      BY <1>2, <1>3, <2>1, <2>3, <2>6
    <3>2. /\ Append(t, e) \in Seq(S) /\ Len(Append(t, e)) = U(k)
          /\ \A i \in 1 .. Len(t) : Append(t, e)[i] = t[i]
          /\ Append(t, e)[Len(t) + 1] = e
      BY <2>4, <2>5, <3>1, AppendProperties
    <3>3. ASSUME NEW j \in good, j <= k PROVE Append(t, e)[U(j)] = A(j).epg
      <4>1. CASE j = k
        BY <2>4, <3>1, <3>2, <4>1 DEF e
      <4>2. CASE j # k
        <5>1. j <= k - 1 /\ k - 1 \in 1 .. n
          BY <1>5, <2>1, <3>3, <4>2
        <5>2. U(j) \in 1 .. Len(t)
          BY <1>2, <2>4, <5>1
        <5> QED BY <2>4, <3>2, <5>1, <5>2
      <4> QED BY <4>1, <4>2
    <3> QED BY <1>7, <2>3, <3>1, <3>2, <3>3
  <2>7. CASE k \notin good
    <3>1. f[k].tags = t /\ U(k) = U(k - 1)
      BY <1>2, <1>3, <2>1, <2>3, <2>7
    <3>2. ASSUME NEW j \in good, j <= k PROVE j <= k - 1
      BY <1>5, <2>1, <2>7, <3>2
    <3> QED BY <1>7, <2>3, <2>4, <3>1, <3>2
  <2> QED BY <2>6, <2>7
<1> QED BY <1>8, <1>9

\* The options that matter to the programs stay; the programs are each of its own line.
EpgInv ==
  /\ options \in [radioEnabled : BOOLEAN, onlyFTA : BOOLEAN, readGenre : BOOLEAN]
  /\ Guide!ProgramsAreTheirOwn

LEMMA EpgStays ==
  ASSUME EpgInv, options'.readGenre = options.readGenre, broadcasts' = broadcasts
  PROVE  Guide!ProgramsAreTheirOwn'
<1>1. \A epg, line : Guide!ParseLine(epg, line)' = Guide!ParseLine(epg, line)
  BY Zenon DEF Guide!ParseLine, Guide!GenreToTypes
<1> QED BY <1>1, Zenon DEF EpgInv, Guide!ProgramsAreTheirOwn

LEMMA CountOfGuide ==
  ASSUME NEW S
  PROVE  Guide!Cardinality(S) = Cardinality(S)
BY Zenon DEF Guide!Cardinality, Cardinality

LEMMA EpgIsRead ==
  ASSUME EpgInv, NEW lines \in Guide!BoundedSeq(GuideLines, MaxLines), Guide!GetEPGForChannel(lines)
  PROVE  EpgInv'
<1> DEFINE n == Len(lines)
           Body(f, i) == IF i = 0 THEN [epg |-> Guide!Cleared, tags |-> <<>>]
                         ELSE LET before == f[i - 1]
                                  parsed == Guide!ParseLine(before.epg, lines[i])
                              IN  [epg |-> Guide!Reset(parsed.epg),
                                   tags |-> IF parsed.ok THEN Append(before.tags, parsed.epg) ELSE before.tags]
           good == {i \in 1 .. n : Guide!ParseLine(Guide!Cleared, lines[i]).ok}
<1>1. n \in Nat /\ DOMAIN lines = 1 .. n
  <2>1. PICK m \in 0 .. MaxLines : lines \in [1 .. m -> GuideLines]
    BY Zenon DEF Guide!BoundedSeq, Guide!SeqOf
  <2>2. m \in Nat
    BY GuideAssumption
  <2> QED BY <2>1, <2>2
<1>2. PICK f : LinesRead(lines, n, f) /\ broadcasts' = [lines |-> lines, tags |-> f[n].tags]
  <2> HIDE DEF n
  <2>1. \E f : f = [i \in 0 .. n |-> Body(f, i)]
    BY <1>1, LinesAreRead, Zenon DEF LinesRead
  <2>2. \E f : f = [i \in 0 .. n |-> Body(f, i)] /\ broadcasts' = [lines |-> lines, tags |-> f[n].tags]
    BY <2>1, Zenon DEF Guide!GetEPGForChannel, n
  <2> QED BY <2>2, Zenon DEF LinesRead
<1>3. UNCHANGED options
  BY DEF Guide!GetEPGForChannel
<1>4. broadcasts'.lines = lines /\ broadcasts'.tags = f[n].tags
  BY <1>2
<1> HIDE DEF n
<1>5. /\ Len(f[n].tags) = UpTo(good, n)
      /\ \A i \in good : f[n].tags[UpTo(good, i)] = Guide!ParseLine(Guide!Cleared, lines[i]).epg
  <2> HIDE DEF good
  <2>1. good = GoodLines(lines, n)
    BY Zenon DEF good, GoodLines
  <2>2. LinesRead(lines, n, f) /\ n \in Nat /\ DOMAIN lines = 1 .. n
    BY <1>1, <1>2
  <2>3. n \in Nat /\ DOMAIN lines = 1 .. n /\ LinesRead(lines, n, f) /\ good = GoodLines(lines, n)
        => /\ Len(f[n].tags) = UpTo(good, n)
           /\ \A i \in good : f[n].tags[UpTo(good, i)] = Guide!ParseLine(Guide!Cleared, lines[i]).epg
    BY ONLY ProgramsAre
  <2> QED BY ONLY <2>1, <2>2, <2>3, Zenon
<1>6. UpTo(good, n) = Cardinality(good)
  <2>1. good \subseteq 1 .. n
    OBVIOUS
  <2> HIDE DEF good
  <2> QED BY <1>1, <2>1, CountIs
<1>7. \A epg, line : Guide!ParseLine(epg, line)' = Guide!ParseLine(epg, line)
  BY <1>3, Zenon DEF Guide!ParseLine, Guide!GenreToTypes
<1>8. Guide!ProgramsAreTheirOwn'
  <2> DEFINE own == {i \in DOMAIN lines : Guide!ParseLine(Guide!Cleared, lines[i]).ok}
  <2>1. own = good
    BY <1>1
  <2>2. /\ Len(broadcasts'.tags) = Cardinality(own)
        /\ \A i \in own : broadcasts'.tags[UpTo(own, i)] = Guide!ParseLine(Guide!Cleared, lines[i]).epg
    <3> HIDE DEF own, good
    <3> QED BY <1>4, <1>5, <1>6, <2>1
  <2>3. Guide!Cleared' = Guide!Cleared
    BY DEF Guide!Cleared
  <2>4. \A i : Guide!ParseLine(Guide!Cleared, lines[i])' = Guide!ParseLine(Guide!Cleared, lines[i])
    BY <1>7, <2>3
  <2>5. /\ Len(broadcasts'.tags) = Guide!Cardinality(own)
        /\ \A i \in own : broadcasts'.tags[Guide!Cardinality({j \in own : j <= i})]
                              = Guide!ParseLine(Guide!Cleared, lines[i]).epg
    <3> HIDE DEF own
    <3> QED BY <2>2, CountOfGuide DEF UpTo
  <2> QED BY <1>4, <1>7, <2>3, <2>5, Zenon DEF Guide!ProgramsAreTheirOwn
<1> QED BY <1>3, <1>8 DEF EpgInv

LEMMA EpgStep ==
  ASSUME EpgInv, Guide!Next \/ UNCHANGED guide
  PROVE  EpgInv'
<1>1. ASSUME UNCHANGED <<options, broadcasts>> PROVE EpgInv'
  BY <1>1, EpgStays DEF EpgInv
<1>2. ASSUME Guide!SetSetting PROVE EpgInv'
  <2>1. broadcasts' = broadcasts /\ (options' = options \/ \E name : Guide!SetOption(name))
    BY <1>2 DEF Guide!SetSetting, Guide!SetGroups
  <2>2. ASSUME NEW name, Guide!SetOption(name)
        PROVE  /\ options' \in [radioEnabled : BOOLEAN, onlyFTA : BOOLEAN, readGenre : BOOLEAN]
               /\ options'.readGenre = options.readGenre
    <3>1. CASE name = "radioEnabled"
      <4>1. options' = [options EXCEPT !.radioEnabled = ~@]
        BY <2>2, <3>1 DEF Guide!SetOption
      <4> QED BY <4>1 DEF EpgInv
    <3>2. CASE name = "onlyFTA"
      <4>1. options' = [options EXCEPT !.onlyFTA = ~@]
        BY <2>2, <3>2 DEF Guide!SetOption
      <4> QED BY <4>1 DEF EpgInv
    <3> QED BY <2>2, <3>1, <3>2 DEF Guide!SetOption
  <2> QED BY <1>1, <2>1, <2>2, EpgStays DEF EpgInv
<1>3. ASSUME NEW radio, Guide!GetChannels(radio) PROVE EpgInv'
  BY <1>1, <1>3 DEF Guide!GetChannels
<1>4. ASSUME NEW radio, Guide!GetChannelGroups(radio) PROVE EpgInv'
  BY <1>1, <1>4 DEF Guide!GetChannelGroups
<1>5. ASSUME NEW radio, NEW group, Guide!GetChannelGroupMembers(radio, group) PROVE EpgInv'
  BY <1>1, <1>5 DEF Guide!GetChannelGroupMembers
<1>6. ASSUME NEW new, Guide!NewLineup(new) PROVE EpgInv'
  BY <1>1, <1>6 DEF Guide!NewLineup
<1>7. CASE UNCHANGED guide
  BY <1>1, <1>7 DEF guide
<1> QED BY <1>2, <1>3, <1>4, <1>5, <1>6, <1>7, EpgIsRead DEF Guide!Next

\* GetEPGForChannel fills one cEpg from every line of an answer; each program that Kodi gets is what
\* its own line says, in the order of the lines, whichever of them are short or cannot be parsed.
THEOREM EachProgramIsItsLine == Spec => []ProgramsAreTheirOwn
<1> DEFINE Inv == part = "guide" => EpgInv
<1>1. Init => Inv
  <2> SUFFICES ASSUME Guide!Init PROVE EpgInv
    BY DEF Init
  <2>1. broadcasts = [lines |-> <<>>, tags |-> <<>>] /\ options \in Settings
    BY DEF Guide!Init
  <2>2. broadcasts.lines = <<>> /\ broadcasts.tags = <<>>
    BY <2>1
  <2>3. DOMAIN broadcasts.lines = {} /\ Len(broadcasts.tags) = 0
    BY <2>2, EmptySeq
  <2>4. Guide!ProgramsAreTheirOwn
    <3> DEFINE own == {i \in DOMAIN broadcasts.lines : Guide!ParseLine(Guide!Cleared, broadcasts.lines[i]).ok}
    <3>1. own = {}
      BY <2>3, Zenon
    <3> HIDE DEF own
    <3>2. Len(broadcasts.tags) = Guide!Cardinality(own) /\ \A i \in own : FALSE
      BY <2>3, <3>1, FS_EmptySet, CountOfGuide
    <3> QED BY <3>2, Zenon DEF Guide!ProgramsAreTheirOwn, own
  <2> QED BY <2>1, <2>4, GuideAssumption DEF EpgInv
<1>2. Inv /\ [Next]_vars => Inv'
  <2> SUFFICES ASSUME Inv, [Next]_vars, part' = "guide" PROVE EpgInv'
    OBVIOUS
  <2>1. part = "guide"
    BY DEF Next, vars, Others
  <2> QED BY <2>1, GuideOnly, EpgStep
<1>3. Inv => ProgramsAreTheirOwn
  BY DEF ProgramsAreTheirOwn, EpgInv
<1> QED BY <1>1, <1>2, <1>3, PTL DEF Spec

-----------------------------------------------------------------------------
(* Timers: what Kodi has been told                                         *)

\* Kodi's list, and what it is made from, stay; or it will be read again, or it is known to be old.
Quiet == UNCHANGED <<config, schedules, canceled, kodi, update, unseen>>
Told == update' = TRUE \/ unseen' = TRUE

\* A step of the part "timers" or "dialog" is one of Timers.
LEMMA TimersOnly ==
  ASSUME part = "timers", [Next]_vars
  PROVE  part' = "timers" /\ (Timers!Next \/ UNCHANGED timers)
BY DEF Next, vars, Others

LEMMA DialogOnly ==
  ASSUME part = "dialog", [Next]_vars
  PROVE  part' = "dialog" /\ (Dialog!Next \/ UNCHANGED timers)
BY DEF Next, vars, Others

\* Whatever Kodi has not been told of leaves its list as it is.
LEMMA TimersTell ==
  ASSUME Timers!Next \/ UNCHANGED timers
  PROVE  Quiet \/ Told \/ Timers!GetTimers
<1> USE DEF Quiet, Told, Timers!Commanded
<1>1. ASSUME NEW tag, Timers!AddTimer(tag) PROVE Quiet \/ Told
  BY <1>1 DEF Timers!AddTimer, Timers!Send
<1>2. ASSUME NEW tag, Timers!UpdateTimer(tag) PROVE Quiet \/ Told
  BY <1>2 DEF Timers!UpdateTimer
<1>3. ASSUME NEW tag, Timers!DeleteTimer(tag) PROVE Quiet \/ Told
  BY <1>2, <1>3 DEF Timers!DeleteTimer
<1>4. ASSUME NEW tag, Timers!Disable(tag) \/ Timers!Enable(tag) PROVE Quiet \/ Told
  BY <1>2, <1>4 DEF Timers!Disable, Timers!Enable
<1>5. ASSUME NEW tag, NEW n, Timers!EditMargin(tag, n) \/ Timers!EditLifetime(tag, n) PROVE Quiet \/ Told
  BY <1>2, <1>5 DEF Timers!EditMargin, Timers!EditLifetime
<1>6. ASSUME NEW c, Timers!SpinFrequency(c) \/ Timers!SpinChannels(c) \/ Timers!SpinAirtime(c)
                    \/ Timers!SpinKeep(c) \/ Timers!SpinMargin(c)
      PROVE  Quiet \/ Told
  BY <1>6 DEF Timers!SpinFrequency, Timers!SpinChannels, Timers!SpinAirtime, Timers!SpinKeep,
              Timers!SpinMargin, Timers!Clicked
<1>7. CASE Timers!Ok \/ Timers!Cancel \/ Timers!NoWindow
  BY <1>7 DEF Timers!Ok, Timers!Cancel, Timers!NoWindow, Timers!Send, Timers!Clicked
<1>8. CASE Timers!Others \/ Timers!Records
  BY <1>8 DEF Timers!Others, Timers!Records
<1>9. CASE UNCHANGED timers
  BY <1>9 DEF timers
<1> QED BY <1>1, <1>3, <1>4, <1>5, <1>6, <1>7, <1>8, <1>9 DEF Timers!Next

LEMMA TimersCurrent ==
  ASSUME Timers!ListIsCurrent, Quiet \/ Told \/ Timers!GetTimers
  PROVE  Timers!ListIsCurrent'
<1> USE DEF Timers!ListIsCurrent
<1>1. ASSUME UNCHANGED <<config, schedules, canceled>> PROVE Timers!TagsOf' = Timers!TagsOf
  <2>1. ASSUME NEW id PROVE Timers!LineOf(id)' = Timers!LineOf(id)
    BY <1>1 DEF Timers!LineOf
  <2>2. ASSUME NEW line PROVE Timers!ParseLine(line)' = Timers!ParseLine(line)
    BY <1>1 DEF Timers!ParseLine
  <2>3. ASSUME NEW id, NEW p PROVE Timers!ProgramLine(id, p)' = Timers!ProgramLine(id, p)
    BY <1>1 DEF Timers!ProgramLine
  <2>4. Timers!ListSchedules' = Timers!ListSchedules
    BY <1>1, <2>1, <2>3 DEF Timers!ListSchedules
  <2> QED BY <2>2, <2>4 DEF Timers!TagsOf
<1>2. CASE Quiet
  BY <1>1, <1>2 DEF Quiet
<1>3. CASE Told
  BY <1>3 DEF Told
<1>4. CASE Timers!GetTimers
  BY <1>1, <1>4 DEF Timers!GetTimers
<1> QED BY <1>2, <1>3, <1>4

\* Whatever Kodi has not been told of leaves its list as it is.
LEMMA DialogTell ==
  ASSUME Dialog!Next \/ UNCHANGED timers
  PROVE  Quiet \/ Told \/ Dialog!GetTimers
<1> USE DEF Quiet, Told, Dialog!Commanded
<1>1. ASSUME NEW tag, Dialog!AddTimer(tag) PROVE Quiet \/ Told
  BY <1>1 DEF Dialog!AddTimer, Dialog!Send
<1>2. ASSUME NEW tag, Dialog!UpdateTimer(tag) PROVE Quiet \/ Told
  BY <1>2 DEF Dialog!UpdateTimer
<1>3. ASSUME NEW tag, Dialog!DeleteTimer(tag) PROVE Quiet \/ Told
  BY <1>2, <1>3 DEF Dialog!DeleteTimer
<1>4. ASSUME NEW tag, Dialog!Disable(tag) \/ Dialog!Enable(tag) PROVE Quiet \/ Told
  BY <1>2, <1>4 DEF Dialog!Disable, Dialog!Enable
<1>5. ASSUME NEW tag, NEW n, Dialog!EditMargin(tag, n) \/ Dialog!EditLifetime(tag, n) PROVE Quiet \/ Told
  BY <1>2, <1>5 DEF Dialog!EditMargin, Dialog!EditLifetime
<1>6. ASSUME NEW c, Dialog!SpinFrequency(c) \/ Dialog!SpinChannels(c) \/ Dialog!SpinAirtime(c)
                    \/ Dialog!SpinKeep(c) \/ Dialog!SpinMargin(c)
      PROVE  Quiet \/ Told
  BY <1>6 DEF Dialog!SpinFrequency, Dialog!SpinChannels, Dialog!SpinAirtime, Dialog!SpinKeep,
              Dialog!SpinMargin, Dialog!Clicked
<1>7. CASE Dialog!Ok \/ Dialog!Cancel \/ Dialog!NoWindow
  BY <1>7 DEF Dialog!Ok, Dialog!Cancel, Dialog!NoWindow, Dialog!Send, Dialog!Clicked
<1>8. CASE Dialog!Others \/ Dialog!Records
  BY <1>8 DEF Dialog!Others, Dialog!Records
<1>9. CASE UNCHANGED timers
  BY <1>9 DEF timers
<1> QED BY <1>1, <1>3, <1>4, <1>5, <1>6, <1>7, <1>8, <1>9 DEF Dialog!Next

LEMMA DialogCurrent ==
  ASSUME Dialog!ListIsCurrent, Quiet \/ Told \/ Dialog!GetTimers
  PROVE  Dialog!ListIsCurrent'
<1> USE DEF Dialog!ListIsCurrent
<1>1. ASSUME UNCHANGED <<config, schedules, canceled>> PROVE Dialog!TagsOf' = Dialog!TagsOf
  <2>1. ASSUME NEW id PROVE Dialog!LineOf(id)' = Dialog!LineOf(id)
    BY <1>1 DEF Dialog!LineOf
  <2>2. ASSUME NEW line PROVE Dialog!ParseLine(line)' = Dialog!ParseLine(line)
    BY <1>1 DEF Dialog!ParseLine
  <2>3. ASSUME NEW id, NEW p PROVE Dialog!ProgramLine(id, p)' = Dialog!ProgramLine(id, p)
    BY <1>1 DEF Dialog!ProgramLine
  <2>4. Dialog!ListSchedules' = Dialog!ListSchedules
    BY <1>1, <2>1, <2>3 DEF Dialog!ListSchedules
  <2> QED BY <2>2, <2>4 DEF Dialog!TagsOf
<1>2. CASE Quiet
  BY <1>1, <1>2 DEF Quiet
<1>3. CASE Told
  BY <1>3 DEF Told
<1>4. CASE Dialog!GetTimers
  BY <1>1, <1>4 DEF Dialog!GetTimers
<1> QED BY <1>2, <1>3, <1>4

\* Whatever commands Kodi sends, and whether they are answered, refused or lost, other clients
\* and the recorder in between: a list that is not the server's is one that Kodi is told to read
\* again, or cannot know to be old.
THEOREM TimerListIsCurrent == Spec => []ListIsCurrent
<1> USE DEF ListIsCurrent
<1>1. Init => ListIsCurrent
  <2> SUFFICES ASSUME Init PROVE ListIsCurrent
    OBVIOUS
  <2>1. schedules = <<>> /\ kodi = {}
    BY DEF Init, Timers!Init, Dialog!Init
  <2>2. Timers!ListSchedules = {} /\ Dialog!ListSchedules = {}
    <3>1. DOMAIN schedules = {}
      BY <2>1
    <3> QED BY <3>1 DEF Timers!ListSchedules, Dialog!ListSchedules
  <2>3. Timers!TagsOf = {} /\ Dialog!TagsOf = {}
    BY <2>2 DEF Timers!TagsOf, Dialog!TagsOf
  <2> QED BY <2>1, <2>3 DEF Timers!ListIsCurrent, Dialog!ListIsCurrent
<1>2. ListIsCurrent /\ [Next]_vars => ListIsCurrent'
  <2> SUFFICES ASSUME ListIsCurrent, [Next]_vars PROVE ListIsCurrent'
    OBVIOUS
  <2>1. part' = part
    BY DEF Next, vars, Others
  <2>2. CASE part = "timers"
    BY <2>1, <2>2, TimersOnly, TimersTell, TimersCurrent
  <2>3. CASE part = "dialog"
    BY <2>1, <2>3, DialogOnly, DialogTell, DialogCurrent
  <2> QED BY <2>1, <2>2, <2>3
<1> QED BY <1>1, <1>2, PTL DEF Spec

-----------------------------------------------------------------------------
(* The old series dialog                                                   *)

\* The controls that are shown follow from the frequency, and any channel goes with any time only,
\* whether the two can be seen or not.
DialogInv ==
  \/ dialog = Dialog!NoDialog
  \/ /\ dialog = [open |-> TRUE, tag |-> dialog.tag, frequency |-> dialog.frequency,
                  airtime |-> dialog.airtime, channels |-> dialog.channels, keep |-> dialog.keep,
                  margin |-> dialog.margin, visible |-> dialog.visible]
     /\ dialog.frequency \in {"Once", "Daily", "Weekly", "Weekends", "WeekDays"}
     /\ dialog.airtime \in {"ThisTime", "AnyTime"}
     /\ dialog.channels \in {"ThisChannel", "AnyChannel"}
     /\ dialog.channels = "AnyChannel" => dialog.airtime = "AnyTime"
     /\ dialog.visible = CASE dialog.frequency = "Weekly" -> {"airtime"}
                          [] dialog.frequency = "Daily" -> {"airtime", "channels"}
                          [] OTHER -> {}

LEMMA DialogStep ==
  ASSUME DialogInv, Dialog!Next \/ UNCHANGED timers
  PROVE  DialogInv'
<1>1. ASSUME UNCHANGED dialog PROVE DialogInv'
  BY <1>1 DEF DialogInv
<1>2. ASSUME NEW tag, Dialog!AddTimer(tag) PROVE DialogInv'
  <2>1. dialog' = Dialog!OnInit(tag) \/ UNCHANGED dialog
    BY <1>2 DEF Dialog!AddTimer
  <2>2. CASE dialog' = Dialog!OnInit(tag)
    BY <2>2 DEF Dialog!OnInit, DialogInv
  <2> QED BY <1>1, <2>1, <2>2
<1>3. ASSUME NEW f \in {"Once", "Daily", "Weekly", "Weekends", "WeekDays"}, Dialog!SpinFrequency(f)
      PROVE  DialogInv'
  BY <1>3 DEF Dialog!SpinFrequency, Dialog!Clicked, Dialog!NoDialog, DialogInv
<1>4. ASSUME NEW c \in {"ThisChannel", "AnyChannel"}, Dialog!SpinChannels(c) PROVE DialogInv'
  BY <1>4 DEF Dialog!SpinChannels, Dialog!WithChannels, Dialog!Clicked, Dialog!NoDialog, DialogInv
<1>5. ASSUME NEW a \in {"ThisTime", "AnyTime"}, Dialog!SpinAirtime(a) PROVE DialogInv'
  BY <1>5 DEF Dialog!SpinAirtime, Dialog!Clicked, Dialog!NoDialog, DialogInv
<1>6. ASSUME NEW k, Dialog!SpinKeep(k) \/ Dialog!SpinMargin(k) PROVE DialogInv'
  BY <1>6 DEF Dialog!SpinKeep, Dialog!SpinMargin, Dialog!Clicked, Dialog!NoDialog, DialogInv
<1>7. CASE Dialog!Ok \/ Dialog!Cancel \/ Dialog!NoWindow
  BY <1>7 DEF Dialog!Ok, Dialog!Cancel, Dialog!NoWindow, Dialog!Clicked, DialogInv
<1>8. ASSUME NEW tag, Dialog!UpdateTimer(tag) PROVE UNCHANGED dialog
  BY <1>8 DEF Dialog!UpdateTimer
<1>9. ASSUME NEW tag, NEW n,
             \/ Dialog!DeleteTimer(tag) \/ Dialog!Disable(tag) \/ Dialog!Enable(tag)
             \/ Dialog!EditMargin(tag, n) \/ Dialog!EditLifetime(tag, n)
      PROVE  DialogInv'
  BY <1>1, <1>8, <1>9 DEF Dialog!DeleteTimer, Dialog!Disable, Dialog!Enable, Dialog!EditMargin,
                          Dialog!EditLifetime
<1>10. CASE Dialog!GetTimers \/ Dialog!Others \/ Dialog!Records \/ UNCHANGED timers
  BY <1>1, <1>10 DEF Dialog!GetTimers, Dialog!Others, Dialog!Records, timers
<1> QED BY <1>2, <1>3, <1>4, <1>5, <1>6, <1>7, <1>9, <1>10 DEF Dialog!Next

\* The schedule that OK adds, if it is added.
LEMMA OkStores ==
  ASSUME Dialog!Ok, NEW id \in DOMAIN schedules' \ DOMAIN schedules
  PROVE  /\ schedules'[id].type = Dialog!DialogType(dialog)
         /\ schedules'[id].keep = dialog.keep /\ schedules'[id].margin = dialog.margin
<1> DEFINE t == Dialog!UpdateTimerSettings(Dialog!TimerOf(dialog.tag), dialog)
<1>1. Dialog!AddSchedule(Dialog!ScheduleOf(t)) \/ UNCHANGED schedules
  BY DEF Dialog!Ok, Dialog!Send, Dialog!Commanded
<1>2. id = nextId /\ schedules'[id] = Dialog!ScheduleOf(t)
  BY <1>1 DEF Dialog!AddSchedule
<1>3. /\ Dialog!ScheduleOf(t).type = t.type /\ Dialog!ScheduleOf(t).keep = t.keep
      /\ Dialog!ScheduleOf(t).margin = t.margin
  BY DEF Dialog!ScheduleOf
<1>4. t.type = Dialog!DialogType(dialog) /\ t.keep = dialog.keep /\ t.margin = dialog.margin
  BY DEF Dialog!UpdateTimerSettings, Dialog!TimerOf
<1> QED BY <1>2, <1>3, <1>4

\* In whatever order the controls are used, what OK stores is what the window shows.
THEOREM DialogIsStored == Spec => DialogStoresWhatItShows
<1> DEFINE Inv == part = "dialog" => DialogInv
<1>1. Init => Inv
  BY DEF Init, Dialog!Init, DialogInv
<1>2. Inv /\ [Next]_vars => Inv'
  <2> SUFFICES ASSUME Inv, [Next]_vars, part' = "dialog" PROVE DialogInv'
    OBVIOUS
  <2>1. part = "dialog"
    BY DEF Next, vars, Others
  <2> QED BY <2>1, DialogOnly, DialogStep
<1>3. Inv => (part = "dialog" => Dialog!DialogStoresWhatItShows)
  <2> SUFFICES ASSUME DialogInv, NEW id \in DOMAIN schedules' \ DOMAIN schedules, Dialog!Ok
               PROVE  LET type == schedules'[id].type
                          shows(control, value) == control \in dialog.visible /\ dialog[control] = value
                      IN  /\ (type = "EveryTimeOnEveryChannel") = shows("channels", "AnyChannel")
                          /\ shows("airtime", "ThisTime") => type \in {"Daily", "Weekly"}
                          /\ shows("airtime", "AnyTime") <=>
                               type \in {"EveryTimeOnThisChannel", "EveryTimeOnEveryChannel",
                                         "WeeklyEveryTimeOnThisChannel"}
                          /\ schedules'[id].keep = dialog.keep /\ schedules'[id].margin = dialog.margin
    BY DEF Dialog!DialogStoresWhatItShows
  <2>1. dialog # Dialog!NoDialog
    BY DEF Dialog!Ok, Dialog!NoDialog
  <2>2. /\ schedules'[id].type = Dialog!DialogType(dialog)
        /\ schedules'[id].keep = dialog.keep /\ schedules'[id].margin = dialog.margin
    BY OkStores
  <2> QED BY <2>1, <2>2 DEF Dialog!DialogType, DialogInv
<1> QED BY <1>1, <1>2, <1>3, PTL DEF Spec, DialogStoresWhatItShows

-----------------------------------------------------------------------------
(* Timers: from the server to Kodi and back                                *)

Keeps == {"UntilSpaceNeeded", "UntilWatched", "TillDate", "Always", "none"}

\* A schedule of the server.
IsSchedule(s) ==
  /\ s = [type |-> s.type, title |-> s.title, channel |-> s.channel, active |-> s.active,
          recording |-> s.recording, start |-> s.start, priority |-> s.priority, keep |-> s.keep,
          keepDate |-> s.keepDate, margin |-> s.margin]
  /\ s.type # "KodiManual"
  /\ s.active \in BOOLEAN /\ s.recording \in BOOLEAN
  /\ s.start \in Nat \ {0} /\ s.keepDate \in Int /\ s.keep \in Keeps

\* A timer of Kodi, be it that the client has told it or that the user makes it.
IsTag(tag) ==
  /\ tag = [index |-> tag.index, epg |-> tag.epg, state |-> tag.state, title |-> tag.title,
            channel |-> tag.channel, start |-> tag.start, parent |-> tag.parent,
            weekdays |-> tag.weekdays, type |-> tag.type, priority |-> tag.priority,
            lifetime |-> tag.lifetime, margin |-> tag.margin]
  /\ tag.index \in Int /\ tag.epg \in Int /\ tag.start \in Int /\ tag.parent \in Int
  /\ tag.lifetime \in Int

\* The schedule that a timer of Kodi was read from; it may be gone.
IdOf(tag) == IF tag.parent = Timers!NoIndex THEN tag.index - 1 ELSE tag.parent - 1

\* A timer without parent is of the type of its schedule; one with a parent is a program of a series.
IsRead(tag) ==
  /\ IsTag(tag)
  /\ IdOf(tag) \in 1 .. MaxId /\ IdOf(tag) < nextId
  /\ tag.parent = Timers!NoIndex =>
       /\ tag.type # "KodiManual" /\ (tag.type = "Once" => tag.weekdays = {})
       /\ IdOf(tag) \in DOMAIN schedules => schedules[IdOf(tag)].type = tag.type
  /\ tag.parent # Timers!NoIndex =>
       /\ tag.epg > 0 /\ tag.index - 1 >= Timers!SeriesOffset
       /\ tag.type = "Once" /\ tag.weekdays = {}
       /\ IdOf(tag) \in DOMAIN schedules => schedules[IdOf(tag)].type # "Once"

ServerInv ==
  /\ config.fields \in Nat
  /\ nextId \in 1 .. MaxId + 1
  /\ schedules = [id \in DOMAIN schedules |-> schedules[id]]
  /\ \A id \in DOMAIN schedules : id \in 1 .. nextId - 1 /\ IsSchedule(schedules[id])

TimersInv ==
  /\ ServerInv
  /\ \A tag \in kodi : IsRead(tag)
  /\ \/ dialog = Timers!NoDialog
     \/ /\ dialog = [open |-> TRUE, tag |-> dialog.tag, frequency |-> dialog.frequency,
                     airtime |-> dialog.airtime, channels |-> dialog.channels, keep |-> dialog.keep,
                     margin |-> dialog.margin, visible |-> dialog.visible]
        /\ IsTag(dialog.tag) /\ dialog.keep \in Keeps

\* How the server may change: ids are not used again, and a schedule keeps its type.
Evolves ==
  /\ ServerInv' /\ nextId' >= nextId
  /\ \A id \in DOMAIN schedules' :
       id < nextId => id \in DOMAIN schedules /\ schedules'[id].type = schedules[id].type

-----------------------------------------------------------------------------

LEMMA DaysAreInt ==
  ASSUME NEW t \in Int
  PROVE  Timers!DaysIn(t) \in Int
BY TimersAssumption DEF Timers!DaysIn

LEMMA LifetimeIsInt ==
  ASSUME NEW s, s.keep # "TillDate" \/ (s.keepDate \in Int /\ s.start \in Int)
  PROVE  Timers!GetLifetime(s) \in Int
<1>1. CASE s.keep = "TillDate"
  BY <1>1, DaysAreInt DEF Timers!GetLifetime
<1>2. CASE s.keep # "TillDate"
  BY <1>2 DEF Timers!GetLifetime
<1> QED BY <1>1, <1>2

LEMMA KeepIsKnown ==
  ASSUME NEW lifetime \in Int, NEW start \in Int
  PROVE  /\ Timers!SetKeepMethod(lifetime, start).keep \in Keeps
         /\ Timers!SetKeepMethod(lifetime, start).keepDate \in Int
BY TimersAssumption DEF Timers!SetKeepMethod, Timers!KeepMethod, Timers!KeepMethods,
                        Timers!UndefinedDate, Keeps

\* What the constructor makes of a timer is a schedule that the server can have.
LEMMA TimerIsSchedule ==
  ASSUME NEW tag, IsTag(tag)
  PROVE  IsSchedule(Timers!ScheduleOf(Timers!TimerOf(tag)))
<1> DEFINE t == Timers!TimerOf(tag)
           start == IF tag.start <= 0 THEN Now ELSE tag.start
<1>1. start \in Nat \ {0}
  BY TimersAssumption DEF IsTag
<1>2. t.start = start /\ t.active \in BOOLEAN
  BY DEF Timers!TimerOf
<1>3. /\ t.keep = Timers!SetKeepMethod(tag.lifetime, start).keep
      /\ t.keepDate = Timers!SetKeepMethod(tag.lifetime, start).keepDate
  BY DEF Timers!TimerOf
<1>4. t.keep \in Keeps /\ t.keepDate \in Int
  BY <1>1, <1>3, KeepIsKnown DEF IsTag
<1>5. t.type # "KodiManual"
  BY DEF Timers!TimerOf, Timers!RepeatFlags2SchedRecType
<1> HIDE DEF t, start
<1> QED BY <1>1, <1>2, <1>4, <1>5 DEF IsSchedule, Timers!ScheduleOf, t

\* What Kodi is told of a schedule.
LEMMA ScheduleIsRead ==
  ASSUME ServerInv, NEW id \in DOMAIN schedules
  PROVE  LET line == Timers!ParseLine(Timers!LineOf(id))
             tag == Timers!GetPVRtimerinfo(line)
         IN  /\ IsRead(tag)
             /\ tag.index = 1 + id /\ tag.parent = Timers!NoIndex
             /\ tag.state = IF schedules[id].recording THEN "RECORDING"
                            ELSE IF schedules[id].active THEN "SCHEDULED" ELSE "DISABLED"
             /\ tag.title = schedules[id].title /\ tag.start = schedules[id].start
             /\ schedules[id].type # "EveryTimeOnEveryChannel" => tag.channel = schedules[id].channel
             /\ tag.type = schedules[id].type
             /\ tag.lifetime = Timers!GetLifetime(schedules[id])
<1> DEFINE s == schedules[id]
           line == Timers!ParseLine(Timers!LineOf(id))
           tag == Timers!GetPVRtimerinfo(line)
<1>1. id \in 1 .. MaxId /\ id < nextId /\ MaxId \in Nat /\ IsSchedule(s)
  BY TimersAssumption DEF ServerInv
<1>2. /\ line.index = id /\ line.parent = Timers!NoSchedule /\ line.progid \in Int
      /\ line.type = s.type /\ line.title = s.title /\ line.channel = s.channel
      /\ line.active = s.active /\ line.recording = s.recording /\ line.start = s.start
      /\ line.keep = s.keep /\ line.keepDate = s.keepDate /\ line.margin = s.margin
  <2>1. PICK progid \in Int : Timers!LineOf(id) = Timers!Line(id, s, Timers!NoSchedule, progid)
    <3> DEFINE mine == {p \in Programs : Timers!Matches(s, p) /\ p.start = s.start}
               known == IF Timers!IsSeries(s) \/ mine = {} THEN Timers!NoProgram
                        ELSE (CHOOSE p \in mine : TRUE).id
    <3>1. known \in Int
      BY TimersAssumption DEF Timers!NoProgram
    <3>2. Timers!LineOf(id) = Timers!Line(id, s, Timers!NoSchedule, known)
      BY DEF Timers!LineOf
    <3> HIDE DEF known
    <3> QED BY <3>1, <3>2
  <2> DEFINE told == Timers!Line(id, s, Timers!NoSchedule, progid)
             program == IF config.fields >= 19 THEN told.progid ELSE Timers!NoProgram
  <2>2. told.index = id /\ told.parent = Timers!NoSchedule /\ told.progid \in Int
    BY DEF Timers!Line
  <2>3. line = Timers!Line(id, told, Timers!NoSchedule, program) /\ program \in Int
    BY <2>1, <2>2 DEF Timers!ParseLine, Timers!NoProgram
  <2> HIDE DEF s, line, program
  <2> QED BY <2>3 DEF Timers!Line
<1>3. Timers!GetLifetime(line) = Timers!GetLifetime(s) /\ Timers!GetLifetime(s) \in Int
  BY <1>1, <1>2, LifetimeIsInt DEF Timers!GetLifetime, IsSchedule
<1> HIDE DEF line, s
<1>4. tag = [index |-> 1 + id, epg |-> 1 + line.progid,
             state |-> IF s.recording THEN "RECORDING" ELSE IF s.active THEN "SCHEDULED" ELSE "DISABLED",
             title |-> s.title,
             channel |-> IF s.type = "EveryTimeOnEveryChannel" THEN Timers!AnyChannel ELSE s.channel,
             start |-> s.start, parent |-> Timers!NoIndex,
             weekdays |-> Timers!SchedRecType2RepeatFlags(s.type, s.start), type |-> s.type,
             priority |-> Timers!Mepo2XBMCPriority(line.priority), lifetime |-> Timers!GetLifetime(s),
             margin |-> s.margin]
  BY <1>2, <1>3 DEF Timers!GetPVRtimerinfo
<1> HIDE DEF tag
<1>5. IsTag(tag) /\ IdOf(tag) = id
  <2>1. tag.index = 1 + id /\ tag.parent = 0 /\ IdOf(tag) = id
    BY <1>1, <1>4 DEF IdOf, Timers!NoIndex
  <2>2. /\ tag.epg \in Int /\ tag.lifetime \in Int /\ tag.start \in Int
    BY <1>1, <1>2, <1>3, <1>4 DEF IsSchedule
  <2> QED BY <1>1, <1>4, <2>1, <2>2 DEF IsTag
<1>6. IsRead(tag)
  BY <1>1, <1>4, <1>5 DEF IsRead, IsSchedule, Timers!NoIndex, Timers!SchedRecType2RepeatFlags, s
<1> QED BY <1>4, <1>6 DEF tag, line, s

\* What Kodi is told of a program of a series.
LEMMA ProgramIsRead ==
  ASSUME ServerInv, NEW id \in DOMAIN schedules, NEW p \in Programs,
         config.fields >= 22, Timers!IsSeries(schedules[id])
  PROVE  IsRead(Timers!GetPVRtimerinfo(Timers!ParseLine(Timers!ProgramLine(id, p))))
<1> DEFINE s == schedules[id]
           line == Timers!ParseLine(Timers!ProgramLine(id, p))
           tag == Timers!GetPVRtimerinfo(line)
<1>1. id \in 1 .. MaxId /\ id < nextId /\ MaxId \in Nat /\ IsSchedule(s)
  BY TimersAssumption DEF ServerInv
<1>2. /\ line.index = id /\ line.parent = id /\ line.progid = p.id
      /\ line.type = s.type /\ line.start = p.start
      /\ line.keep = s.keep /\ line.keepDate = s.keepDate
  <2>1. config.fields >= 19
    BY DEF ServerInv
  <2> DEFINE told == [s EXCEPT !.start = p.start, !.channel = p.channel, !.recording = FALSE,
                               !.active = @ /\ <<id, p.id>> \notin canceled]
  <2>2. told.type = s.type /\ told.start = p.start /\ told.keep = s.keep /\ told.keepDate = s.keepDate
    BY <1>1 DEF IsSchedule
  <2>3. Timers!ProgramLine(id, p) = Timers!Line(id, told, id, p.id)
    BY DEF Timers!ProgramLine
  <2>4. line = Timers!ParseLine(Timers!Line(id, told, id, p.id))
    BY <2>3
  <2> HIDE DEF told, s, line
  <2> QED BY <2>1, <2>2, <2>4 DEF Timers!ParseLine, Timers!Line
<1>3. Timers!GetLifetime(line) \in Int
  BY <1>1, <1>2, TimersAssumption, LifetimeIsInt DEF IsSchedule
<1>4. line.parent # Timers!NoSchedule /\ line.type # "Once"
  BY <1>1, <1>2 DEF Timers!IsSeries, Timers!NoSchedule
<1> HIDE DEF line, s
<1>5. tag = [index |-> 1 + Timers!SeriesOffset + 1 + p.id, epg |-> 1 + p.id,
             state |-> IF line.recording THEN "RECORDING" ELSE IF line.active THEN "SCHEDULED" ELSE "DISABLED",
             title |-> line.title, channel |-> line.channel, start |-> p.start, parent |-> 1 + id,
             weekdays |-> {}, type |-> "Once", priority |-> Timers!Mepo2XBMCPriority(line.priority),
             lifetime |-> Timers!GetLifetime(line), margin |-> line.margin]
  BY <1>2, <1>4 DEF Timers!GetPVRtimerinfo
<1> HIDE DEF tag
<1>6. IsTag(tag) /\ IdOf(tag) = id
  BY <1>1, <1>3, <1>5, TimersAssumption DEF IsTag, IdOf, Timers!NoIndex, Timers!SeriesOffset
<1>7. IsRead(tag)
  BY <1>1, <1>5, <1>6, TimersAssumption
     DEF IsRead, Timers!NoIndex, Timers!SeriesOffset, Timers!IsSeries, s
<1> QED BY <1>7 DEF tag, line

LEMMA TagsAreRead ==
  ASSUME ServerInv, NEW tag \in Timers!TagsOf
  PROVE  IsRead(tag)
<1>1. PICK line \in Timers!ListSchedules : tag = Timers!GetPVRtimerinfo(Timers!ParseLine(line))
  BY DEF Timers!TagsOf
<1>2. CASE line \in {Timers!LineOf(id) : id \in DOMAIN schedules}
  BY <1>1, <1>2, ScheduleIsRead
<1>3. CASE line \notin {Timers!LineOf(id) : id \in DOMAIN schedules}
  <2>1. PICK pair \in (DOMAIN schedules) \X Programs :
               /\ config.fields >= 22 /\ Timers!IsSeries(schedules[pair[1]])
               /\ line = Timers!ProgramLine(pair[1], pair[2])
    BY <1>1, <1>3 DEF Timers!ListSchedules
  <2> QED BY <1>1, <2>1, ProgramIsRead
<1> QED BY <1>2, <1>3

-----------------------------------------------------------------------------
(* Timers: what a step makes of the schedules                              *)

LEMMA AddEvolves ==
  ASSUME ServerInv, NEW s, IsSchedule(s), Timers!AddSchedule(s), UNCHANGED config
  PROVE  Evolves
<1>1. nextId' = nextId + 1 /\ nextId' \in 1 .. MaxId + 1
  BY TimersAssumption DEF ServerInv, Timers!AddSchedule
<1>2. \A id \in DOMAIN schedules' :
        \/ id = nextId /\ schedules'[id] = s
        \/ id \in DOMAIN schedules /\ schedules'[id] = schedules[id]
  BY DEF Timers!AddSchedule
<1>3. \A id \in DOMAIN schedules' : id \in 1 .. nextId' - 1 /\ IsSchedule(schedules'[id])
  BY <1>1, <1>2 DEF ServerInv
<1>4. schedules' = [id \in DOMAIN schedules' |-> schedules'[id]]
  BY DEF Timers!AddSchedule
<1>5. ServerInv'
  BY <1>1, <1>3, <1>4 DEF ServerInv, IsSchedule
<1> QED BY <1>1, <1>2, <1>5 DEF Evolves, ServerInv

LEMMA DeleteEvolves ==
  ASSUME ServerInv, NEW id, Timers!DeleteSchedule(id), UNCHANGED config
  PROVE  Evolves
<1>1. \A i \in DOMAIN schedules' : i \in DOMAIN schedules /\ schedules'[i] = schedules[i]
  BY DEF Timers!DeleteSchedule
<1>2. nextId' = nextId /\ schedules' = [i \in DOMAIN schedules' |-> schedules'[i]]
  BY DEF Timers!DeleteSchedule
<1>3. ServerInv'
  BY <1>1, <1>2 DEF ServerInv, IsSchedule
<1> QED BY <1>1, <1>2, <1>3, TimersAssumption DEF Evolves, ServerInv

LEMMA StayEvolves ==
  ASSUME ServerInv, UNCHANGED <<config, schedules, nextId>>
  PROVE  Evolves
BY TimersAssumption DEF Evolves, ServerInv, IsSchedule

\* The timer that is sent for one that Kodi has read is of the same schedule and type.
LEMMA TimerOfRead ==
  ASSUME NEW tag, IsRead(tag)
  PROVE  /\ Timers!TimerOf(tag).index = IdOf(tag)
         /\ Timers!TimerOf(tag).type = tag.type
         /\ Timers!TimerOf(tag).progid = tag.epg - 1
<1>1. Timers!IndexOf(tag) = IdOf(tag)
  BY TimersAssumption DEF Timers!IndexOf, IdOf, IsRead, IsTag, Timers!SeriesOffset
<1>2. tag.type # "KodiManual" /\ (tag.type = "Once" => tag.weekdays = {})
  BY DEF IsRead
<1> QED BY <1>1, <1>2 DEF Timers!TimerOf

\* Of a program of a series no schedule is updated.
LEMMA ProgramIsCanceled ==
  ASSUME NEW tag, IsRead(tag), tag.parent # Timers!NoIndex, Timers!UpdateTimer(tag)
  PROVE  /\ UNCHANGED schedules
         /\ canceled' \subseteq canceled \cup {<<tag.parent - 1, tag.epg - 1>>}
         /\ ~update /\ update' /\ tag.state = "DISABLED" => <<tag.parent - 1, tag.epg - 1>> \in canceled'
<1> DEFINE t == Timers!TimerOf(tag)
<1>1. /\ t.index = tag.parent - 1 /\ t.type = "Once"
      /\ t.progid = tag.epg - 1 /\ t.progid # Timers!NoProgram
  BY TimerOfRead DEF IsRead, IsTag, IdOf, Timers!NoProgram
<1>2. t.index \in DOMAIN schedules => schedules[t.index].type # "Once"
  BY <1>1 DEF IsRead, IdOf
<1>3. Timers!UpdateSchedule(t) \/ UNCHANGED <<schedules, canceled, update>>
  BY DEF Timers!UpdateTimer, Timers!Commanded
<1>4. tag.state = "DISABLED" => ~t.active
  BY DEF Timers!TimerOf
<1> HIDE DEF t
<1>5. CASE Timers!UpdateSchedule(t)
  BY <1>1, <1>2, <1>4, <1>5 DEF Timers!UpdateSchedule, Timers!IsSeries
<1>6. CASE UNCHANGED <<schedules, canceled, update>>
  BY <1>6
<1> QED BY <1>3, <1>5, <1>6

LEMMA UpdateEvolves ==
  ASSUME ServerInv, NEW tag, IsRead(tag), Timers!UpdateTimer(tag)
  PROVE  Evolves
<1> DEFINE t == Timers!TimerOf(tag)
           id == IdOf(tag)
           s == [Timers!ScheduleOf(t) EXCEPT !.recording = schedules[id].recording]
<1>1. UNCHANGED <<config, nextId>>
  BY DEF Timers!UpdateTimer, Timers!Commanded, Timers!UpdateSchedule
<1>2. CASE UNCHANGED schedules
  BY <1>1, <1>2, StayEvolves
<1>3. CASE schedules' # schedules
  <2>1. tag.parent = Timers!NoIndex
    BY <1>3, ProgramIsCanceled
  <2>2. id \in DOMAIN schedules /\ schedules' = [schedules EXCEPT ![id] = s]
    BY <1>3, TimerOfRead DEF Timers!UpdateTimer, Timers!Commanded, Timers!UpdateSchedule
  <2>3. schedules[id].type = tag.type
    BY <2>1, <2>2 DEF IsRead
  <2>4. Timers!ScheduleOf(t).type = tag.type
    BY TimerOfRead DEF Timers!ScheduleOf
  <2>5. IsSchedule(Timers!ScheduleOf(t))
    BY TimerIsSchedule DEF IsRead
  <2>6. schedules[id].recording \in BOOLEAN
    BY <2>2 DEF ServerInv, IsSchedule
  <2>7. IsSchedule(s) /\ s.type = tag.type
    BY <2>4, <2>5, <2>6 DEF IsSchedule
  <2> HIDE DEF s, id, t
  <2>8. \A i \in DOMAIN schedules' :
          /\ i \in DOMAIN schedules
          /\ schedules'[i] = IF i = id THEN s ELSE schedules[i]
    BY <2>2 DEF ServerInv
  <2>9. schedules' = [i \in DOMAIN schedules' |-> schedules'[i]]
    BY <2>2 DEF ServerInv
  <2>10. ServerInv'
    BY <1>1, <2>7, <2>8, <2>9 DEF ServerInv, IsSchedule
  <2> QED BY <1>1, <2>3, <2>7, <2>8, <2>10, TimersAssumption DEF Evolves, ServerInv
<1> QED BY <1>2, <1>3

LEMMA NewIsTag ==
  ASSUME NEW tag \in Timers!FromGuide \cup Timers!Instant
  PROVE  IsTag(tag)
<1>1. \A n \in Lifetimes \cap Timers!LifetimeValues : n \in Int
  BY DEF Timers!LifetimeValues
<1>2. CASE tag \in Timers!FromGuide
  <2>1. PICK p \in Programs, type \in Chosen, n \in Lifetimes \cap Timers!LifetimeValues, margin \in Margins :
          tag = Timers!NewTag(type, p.title, p.channel, p.start, 1 + p.id, n, margin)
    BY <1>2 DEF Timers!FromGuide
  <2>2. p.start \in Int /\ 1 + p.id \in Int /\ n \in Int
    BY <1>1, TimersAssumption
  <2> QED BY <2>1, <2>2 DEF Timers!NewTag, IsTag, Timers!NoIndex
<1>3. CASE tag \in Timers!Instant
  <2>1. PICK p \in Programs, n \in Lifetimes \cap Timers!LifetimeValues, margin \in Margins :
          tag = Timers!NewTag("KodiManual", p.title, p.channel, 0, 0, n, margin)
    BY <1>3 DEF Timers!Instant
  <2>2. n \in Int
    BY <1>1
  <2> QED BY <2>1, <2>2 DEF Timers!NewTag, IsTag, Timers!NoIndex
<1> QED BY <1>2, <1>3

\* Enabled, disabled or edited, a timer is still of the schedule it was read from.
LEMMA EditedIsRead ==
  ASSUME NEW tag, IsRead(tag)
  PROVE  /\ \A state : IsRead([tag EXCEPT !.state = state])
         /\ \A n \in Int : IsRead([tag EXCEPT !.lifetime = n])
         /\ \A margin : IsRead([tag EXCEPT !.margin = margin])
<1>1. ASSUME NEW new, IsTag(new), new.index = tag.index, new.parent = tag.parent, new.epg = tag.epg,
             new.type = tag.type, new.weekdays = tag.weekdays
      PROVE  IsRead(new)
  BY <1>1 DEF IsRead, IdOf
<1>2. ASSUME NEW state PROVE IsRead([tag EXCEPT !.state = state])
  <2>1. IsTag([tag EXCEPT !.state = state])
    BY DEF IsRead, IsTag
  <2> QED BY <1>1, <2>1 DEF IsRead, IsTag
<1>3. ASSUME NEW n \in Int PROVE IsRead([tag EXCEPT !.lifetime = n])
  <2>1. IsTag([tag EXCEPT !.lifetime = n])
    BY DEF IsRead, IsTag
  <2> QED BY <1>1, <2>1 DEF IsRead, IsTag
<1>4. ASSUME NEW margin PROVE IsRead([tag EXCEPT !.margin = margin])
  <2>1. IsTag([tag EXCEPT !.margin = margin])
    BY DEF IsRead, IsTag
  <2> QED BY <1>1, <2>1 DEF IsRead, IsTag
<1> QED BY <1>2, <1>3, <1>4

LEMMA SendEvolves ==
  ASSUME ServerInv, NEW t, IsSchedule(Timers!ScheduleOf(t)), Timers!Send(t), UNCHANGED config
  PROVE  Evolves
<1>1. Timers!AddSchedule(Timers!ScheduleOf(t)) \/ UNCHANGED <<schedules, nextId>>
  BY DEF Timers!Send, Timers!Commanded
<1> QED BY <1>1, AddEvolves, StayEvolves

\* What the dialog makes of a timer is a schedule that the server can have, too.
LEMMA DialogIsSchedule ==
  ASSUME NEW tag, IsTag(tag), NEW d, d.keep \in Keeps
  PROVE  IsSchedule(Timers!ScheduleOf(Timers!UpdateTimerSettings(Timers!TimerOf(tag), d)))
<1> DEFINE s == Timers!ScheduleOf(Timers!TimerOf(tag))
           new == Timers!ScheduleOf(Timers!UpdateTimerSettings(Timers!TimerOf(tag), d))
<1>1. IsSchedule(s)
  BY TimerIsSchedule
<1>2. /\ new.type = Timers!DialogType(d) /\ new.keep = d.keep
      /\ new.active = s.active /\ new.recording = s.recording
      /\ new.start = s.start /\ new.keepDate = s.keepDate
  BY DEF Timers!ScheduleOf, Timers!UpdateTimerSettings, Timers!TimerOf
<1>3. new = [type |-> new.type, title |-> new.title, channel |-> new.channel, active |-> new.active,
             recording |-> new.recording, start |-> new.start, priority |-> new.priority, keep |-> new.keep,
             keepDate |-> new.keepDate, margin |-> new.margin]
  BY DEF Timers!ScheduleOf
<1> HIDE DEF new, s
<1>4. new.type # "KodiManual"
  BY <1>2 DEF Timers!DialogType
<1>5. IsSchedule(new)
  BY <1>1, <1>2, <1>3, <1>4 DEF IsSchedule
<1> QED BY <1>5 DEF new

LEMMA TimersEvolve ==
  ASSUME TimersInv, Timers!Next \/ UNCHANGED timers
  PROVE  Evolves /\ (UNCHANGED kodi \/ kodi' = Timers!TagsOf \/ kodi' = {})
<1>1. ServerInv
  BY DEF TimersInv
<1>2. ASSUME NEW tag \in Timers!FromGuide \cup Timers!Instant, Timers!AddTimer(tag)
      PROVE  Evolves /\ UNCHANGED kodi
  <2>1. CASE UNCHANGED <<schedules, nextId>>
    BY <1>1, <1>2, <2>1, StayEvolves DEF Timers!AddTimer
  <2>2. CASE Timers!Send(Timers!TimerOf(tag))
    BY <1>1, <1>2, <2>2, NewIsTag, TimerIsSchedule, SendEvolves DEF Timers!AddTimer
  <2> QED BY <1>2, <2>1, <2>2 DEF Timers!AddTimer
<1>3. ASSUME NEW tag \in kodi, Timers!DeleteTimer(tag) \/ Timers!Disable(tag) \/ Timers!Enable(tag)
      PROVE  Evolves /\ UNCHANGED kodi
  <2>1. IsRead([tag EXCEPT !.state = "DISABLED"]) /\ IsRead([tag EXCEPT !.state = "SCHEDULED"])
    BY EditedIsRead DEF TimersInv
  <2>2. CASE \/ Timers!UpdateTimer([tag EXCEPT !.state = "DISABLED"])
             \/ Timers!UpdateTimer([tag EXCEPT !.state = "SCHEDULED"])
    BY <1>1, <2>1, <2>2, UpdateEvolves DEF Timers!UpdateTimer
  <2>3. CASE /\ Timers!Commanded(Timers!DeleteSchedule(Timers!TimerOf(tag).index))
             /\ UNCHANGED <<config, kodi, dialog>>
    <3>1. \/ Timers!DeleteSchedule(Timers!TimerOf(tag).index)
          \/ UNCHANGED <<schedules, nextId>>
      BY <2>3 DEF Timers!Commanded
    <3> QED BY <1>1, <2>3, <3>1, DeleteEvolves, StayEvolves
  <2> QED BY <1>3, <2>2, <2>3 DEF Timers!DeleteTimer, Timers!Disable, Timers!Enable
<1>4. ASSUME NEW tag \in kodi, NEW margin \in Margins, Timers!EditMargin(tag, margin)
      PROVE  Evolves /\ UNCHANGED kodi
  <2>1. IsRead([tag EXCEPT !.margin = margin])
    BY EditedIsRead DEF TimersInv
  <2> QED BY <1>1, <1>4, <2>1, UpdateEvolves DEF Timers!EditMargin, Timers!UpdateTimer
<1>5. ASSUME NEW tag \in kodi, NEW n \in Lifetimes \cap Timers!LifetimeValues, Timers!EditLifetime(tag, n)
      PROVE  Evolves /\ UNCHANGED kodi
  <2>1. n \in Int
    BY DEF Timers!LifetimeValues
  <2>2. IsRead([tag EXCEPT !.lifetime = n])
    BY <2>1, EditedIsRead DEF TimersInv
  <2> QED BY <1>1, <1>5, <2>2, UpdateEvolves DEF Timers!EditLifetime, Timers!UpdateTimer
<1>6. ASSUME NEW c, \/ Timers!SpinFrequency(c) \/ Timers!SpinChannels(c) \/ Timers!SpinAirtime(c)
                    \/ Timers!SpinKeep(c) \/ Timers!SpinMargin(c) \/ Timers!Cancel
      PROVE  Evolves /\ UNCHANGED kodi
  <2>1. UNCHANGED <<config, schedules, nextId, kodi>>
    BY <1>6 DEF Timers!SpinFrequency, Timers!SpinChannels, Timers!SpinAirtime, Timers!SpinKeep,
                Timers!SpinMargin, Timers!Cancel, Timers!Clicked
  <2> QED BY <1>1, <2>1, StayEvolves
<1>7. CASE Timers!Ok \/ Timers!NoWindow
  <2>1. IsTag(dialog.tag) /\ dialog.keep \in Keeps
    BY <1>7 DEF TimersInv, Timers!Ok, Timers!NoWindow, Timers!NoDialog
  <2>2. CASE Timers!Ok
    BY <1>1, <2>1, <2>2, DialogIsSchedule, SendEvolves DEF Timers!Ok
  <2>3. CASE Timers!NoWindow
    BY <1>1, <2>1, <2>3, TimerIsSchedule, SendEvolves DEF Timers!NoWindow
  <2> QED BY <1>7, <2>2, <2>3
<1>8. CASE Timers!Others
  <2>1. UNCHANGED <<config, kodi>>
    BY <1>8 DEF Timers!Others
  <2>2. ASSUME NEW id, Timers!DeleteSchedule(id) PROVE Evolves
    BY <1>1, <2>1, <2>2, DeleteEvolves
  <2>3. ASSUME NEW p \in Programs, NEW type \in Chosen, NEW k \in OtherKeeps,
               Timers!AddSchedule([type |-> type, title |-> p.title, channel |-> p.channel,
                 active |-> TRUE, recording |-> FALSE, start |-> p.start, priority |-> k.priority,
                 keep |-> k.keep,
                 keepDate |-> IF k.keep = "TillDate" THEN p.start + k.date ELSE Timers!UndefinedDate,
                 margin |-> -1])
        PROVE  Evolves
    <3> DEFINE date == IF k.keep = "TillDate" THEN p.start + k.date ELSE Timers!UndefinedDate
               s == [type |-> type, title |-> p.title, channel |-> p.channel, active |-> TRUE,
                     recording |-> FALSE, start |-> p.start, priority |-> k.priority, keep |-> k.keep,
                     keepDate |-> date, margin |-> -1]
    <3>1. date \in Int
      BY TimersAssumption DEF Timers!UndefinedDate
    <3> HIDE DEF date
    <3>2. IsSchedule(s)
      BY <3>1, TimersAssumption DEF IsSchedule, Keeps
    <3>3. Timers!AddSchedule(s)
      BY <2>3 DEF date
    <3> QED BY <1>1, <2>1, <3>2, <3>3, AddEvolves
  <2> QED BY <1>8, <2>1, <2>2, <2>3 DEF Timers!Others
<1>9. CASE Timers!Records
  <2>1. PICK id \in DOMAIN schedules : schedules' = [schedules EXCEPT ![id].recording = ~@]
    BY <1>9 DEF Timers!Records
  <2>2. UNCHANGED <<config, nextId, kodi>>
    BY <1>9 DEF Timers!Records
  <2> DEFINE s == [schedules[id] EXCEPT !.recording = ~@]
  <2>3. IsSchedule(s) /\ s.type = schedules[id].type
    BY <1>1 DEF ServerInv, IsSchedule
  <2>4. schedules' = [schedules EXCEPT ![id] = s]
    BY <2>1
  <2> HIDE DEF s
  <2>5. \A i \in DOMAIN schedules' :
          /\ i \in DOMAIN schedules
          /\ schedules'[i] = IF i = id THEN s ELSE schedules[i]
    BY <1>1, <2>4 DEF ServerInv
  <2>6. schedules' = [i \in DOMAIN schedules' |-> schedules'[i]]
    BY <1>1, <2>4 DEF ServerInv
  <2>7. ServerInv'
    BY <1>1, <2>2, <2>3, <2>5, <2>6 DEF ServerInv, IsSchedule
  <2> QED BY <1>1, <2>2, <2>3, <2>5, <2>7, TimersAssumption DEF Evolves, ServerInv
<1>10. CASE Timers!GetTimers \/ UNCHANGED timers
  <2>1. UNCHANGED <<config, schedules, nextId>>
    BY <1>10 DEF Timers!GetTimers, timers
  <2>2. Evolves
    BY <1>1, <2>1, StayEvolves
  <2> QED BY <1>10, <2>2 DEF Timers!GetTimers, timers
<1> QED BY <1>2, <1>3, <1>4, <1>5, <1>6, <1>7, <1>8, <1>9, <1>10 DEF Timers!Next, Timers!Ok, Timers!NoWindow, Timers!Others, Timers!Records

LEMMA TimersStep ==
  ASSUME TimersInv, Timers!Next \/ UNCHANGED timers
  PROVE  TimersInv'
<1>1. Evolves /\ (UNCHANGED kodi \/ kodi' = Timers!TagsOf \/ kodi' = {})
  BY TimersEvolve
<1>2. \A tag \in kodi' : IsRead(tag)
  BY <1>1, TagsAreRead DEF TimersInv
<1>3. ASSUME NEW tag \in kodi' PROVE IsRead(tag)'
  <2>1. IsRead(tag) /\ nextId' >= nextId
    BY <1>1, <1>2 DEF Evolves
  <2>2. IdOf(tag) \in DOMAIN schedules' =>
          IdOf(tag) \in DOMAIN schedules /\ schedules'[IdOf(tag)].type = schedules[IdOf(tag)].type
    BY <1>1, <2>1 DEF Evolves, IsRead
  <2>3. nextId \in Int /\ nextId' \in Int
    BY <1>1, TimersAssumption DEF Evolves, ServerInv, TimersInv
  <2> QED BY <2>1, <2>2, <2>3, TimersAssumption DEF IsRead, IsTag, IdOf
<1> DEFINE DialogTyped ==
      \/ dialog = Timers!NoDialog
      \/ /\ dialog = [open |-> TRUE, tag |-> dialog.tag, frequency |-> dialog.frequency,
                      airtime |-> dialog.airtime, channels |-> dialog.channels, keep |-> dialog.keep,
                      margin |-> dialog.margin, visible |-> dialog.visible]
         /\ IsTag(dialog.tag) /\ dialog.keep \in Keeps
<1>4. DialogTyped'
  <2>1. DialogTyped
    BY DEF TimersInv
  <2>2. ASSUME UNCHANGED dialog PROVE DialogTyped'
    BY <2>1, <2>2 DEF IsTag
  <2>3. ASSUME NEW tag \in Timers!FromGuide \cup Timers!Instant, Timers!AddTimer(tag) PROVE DialogTyped'
    <3>1. dialog' = Timers!OnInit(tag) \/ UNCHANGED dialog
      BY <2>3 DEF Timers!AddTimer
    <3>2. CASE dialog' = Timers!OnInit(tag)
      BY <3>2, NewIsTag DEF Timers!OnInit, IsTag, Keeps
    <3> QED BY <2>2, <3>1, <3>2
  <2>4. ASSUME NEW c, Timers!SpinFrequency(c) \/ Timers!SpinChannels(c) \/ Timers!SpinAirtime(c)
        PROVE  DialogTyped'
    <3>1. dialog # Timers!NoDialog
      BY <2>4 DEF Timers!SpinFrequency, Timers!SpinChannels, Timers!SpinAirtime, Timers!NoDialog
    <3> DEFINE Same == /\ dialog' = [open |-> TRUE, tag |-> dialog'.tag, frequency |-> dialog'.frequency,
                                     airtime |-> dialog'.airtime, channels |-> dialog'.channels,
                                     keep |-> dialog'.keep, margin |-> dialog'.margin,
                                     visible |-> dialog'.visible]
                       /\ dialog'.tag = dialog.tag /\ dialog'.keep = dialog.keep
    <3>2. CASE Timers!SpinFrequency(c)
      <4>1. Same
        BY <2>1, <3>1, <3>2 DEF Timers!SpinFrequency, Timers!Clicked
      <4> QED BY <2>1, <3>1, <4>1
    <3>3. CASE Timers!SpinChannels(c)
      <4>1. Same
        BY <2>1, <3>1, <3>3 DEF Timers!SpinChannels, Timers!WithChannels, Timers!Clicked
      <4> QED BY <2>1, <3>1, <4>1
    <3>4. CASE Timers!SpinAirtime(c)
      <4>1. Same
        BY <2>1, <3>1, <3>4 DEF Timers!SpinAirtime, Timers!Clicked
      <4> QED BY <2>1, <3>1, <4>1
    <3> QED BY <2>4, <3>2, <3>3, <3>4
  <2>5. ASSUME NEW n \in 0 .. 3, Timers!SpinKeep(Timers!KeepMethod(n)) PROVE DialogTyped'
    <3>1. Timers!KeepMethod(n) \in Keeps
      BY DEF Timers!KeepMethod, Timers!KeepMethods, Keeps
    <3> QED BY <2>1, <2>5, <3>1 DEF Timers!SpinKeep, Timers!Clicked, Timers!NoDialog, IsTag
  <2>10. ASSUME NEW m, Timers!SpinMargin(m) PROVE DialogTyped'
    BY <2>1, <2>10 DEF Timers!SpinMargin, Timers!Clicked, Timers!NoDialog, IsTag
  <2>6. CASE Timers!Ok \/ Timers!Cancel \/ Timers!NoWindow
    BY <2>6 DEF Timers!Ok, Timers!Cancel, Timers!NoWindow, Timers!Clicked, Timers!NoDialog
  <2>7. ASSUME NEW tag, Timers!UpdateTimer(tag) PROVE UNCHANGED dialog
    BY <2>7 DEF Timers!UpdateTimer
  <2>8. ASSUME NEW tag, NEW n,
               \/ Timers!DeleteTimer(tag) \/ Timers!Disable(tag) \/ Timers!Enable(tag)
               \/ Timers!EditMargin(tag, n) \/ Timers!EditLifetime(tag, n)
        PROVE  UNCHANGED dialog
    BY <2>7, <2>8 DEF Timers!DeleteTimer, Timers!Disable, Timers!Enable, Timers!EditMargin,
                      Timers!EditLifetime
  <2>9. CASE Timers!GetTimers \/ Timers!Others \/ Timers!Records \/ UNCHANGED timers
    BY <2>2, <2>9 DEF Timers!GetTimers, Timers!Others, Timers!Records, timers
  <2> QED BY <2>2, <2>3, <2>4, <2>5, <2>6, <2>8, <2>9, <2>10 DEF Timers!Next
<1> QED BY <1>1, <1>3, <1>4 DEF TimersInv, Evolves

LEMMA TimersInvariant == Spec => [](part = "timers" => TimersInv)
<1> DEFINE Inv == part = "timers" => TimersInv
<1>1. Init => Inv
  BY TimersAssumption DEF Init, Timers!Init, TimersInv, ServerInv
<1>2. Inv /\ [Next]_vars => Inv'
  <2> SUFFICES ASSUME Inv, [Next]_vars, part' = "timers" PROVE TimersInv'
    OBVIOUS
  <2>1. part = "timers"
    BY DEF Next, vars, Others
  <2> QED BY <2>1, TimersOnly, TimersStep
<1> QED BY <1>1, <1>2, PTL DEF Spec

-----------------------------------------------------------------------------

\* Deleting or disabling a program of a series, from a list however old, stops no other program and
\* leaves every schedule as it is, for the type that Kodi has read still is that of the schedule; and
\* it stops that program when Kodi is told that it is done.
THEOREM OneEpisodeIsStopped == Spec => OneEpisodeOnly
<1>1. ASSUME TimersInv PROVE Timers!OneEpisodeOnly
  <2> SUFFICES ASSUME NEW tag \in kodi, tag.parent # Timers!NoIndex,
                      Timers!DeleteTimer(tag) \/ Timers!Disable(tag)
               PROVE  /\ schedules' = schedules
                      /\ canceled' \subseteq canceled \cup {<<tag.parent - 1, tag.epg - 1>>}
                      /\ ~update /\ update' => <<tag.parent - 1, tag.epg - 1>> \in canceled'
    BY DEF Timers!OneEpisodeOnly
  <2> DEFINE off == [tag EXCEPT !.state = "DISABLED"]
  <2>1. IsRead(tag) /\ IsRead(off)
    BY <1>1, EditedIsRead DEF TimersInv
  <2>2. Timers!IsProgramOnly(tag)
    BY <2>1, TimersAssumption DEF IsRead, IsTag, IdOf, Timers!IsProgramOnly
  <2>3. Timers!UpdateTimer(off)
    BY <2>2 DEF Timers!DeleteTimer, Timers!Disable
  <2>4. off.parent = tag.parent /\ off.epg = tag.epg /\ off.state = "DISABLED"
    BY <2>1 DEF IsRead, IsTag
  <2> HIDE DEF off
  <2> QED BY <2>1, <2>3, <2>4, ProgramIsCanceled
<1> QED BY <1>1, TimersInvariant, PTL DEF OneEpisodeOnly

LEMMA WholeDays ==
  ASSUME NEW n \in Nat
  PROVE  Timers!DaysIn(n * Day) = n
<1>1. n * Day \in Nat
  BY TimersAssumption
<1>2. (n * Day) \div Day = n
  BY TimersAssumption, Z3
<1> QED BY <1>1, <1>2 DEF Timers!DaysIn

LEMMA PartOfADay ==
  ASSUME NEW d \in Nat
  PROVE  d - Timers!DaysIn(d) * Day \in 0 .. Day - 1
<1>1. Day \in Nat /\ Day > 0
  BY TimersAssumption
<1>2. d \div Day \in Int /\ d % Day \in 0 .. Day - 1 /\ d = Day * (d \div Day) + (d % Day)
  BY <1>1, Z3
<1>3. (d \div Day) * Day = Day * (d \div Day)
  BY <1>1, <1>2
<1> QED BY <1>1, <1>2, <1>3 DEF Timers!DaysIn

\* A lifetime that was made from a keep method gives that method again, and of its date whole days.
LEMMA KeepComesBack ==
  ASSUME NEW s, IsSchedule(s), s.keep # "none", s.keep = "TillDate" => Timers!GetLifetime(s) > 0
  PROVE  LET kept == Timers!SetKeepMethod(Timers!GetLifetime(s), s.start)
         IN  /\ kept.keep = s.keep
             /\ s.keep = "TillDate" =>
                  /\ Timers!DaysIn(kept.keepDate - s.start) = Timers!GetLifetime(s)
                  /\ s.keepDate - kept.keepDate \in 0 .. Day - 1
<1>1. CASE s.keep = "TillDate"
  <2> DEFINE n == Timers!GetLifetime(s)
  <2>1. n \in Nat /\ n > 0
    BY <1>1, LifetimeIsInt DEF IsSchedule
  <2> HIDE DEF n
  <2>2. Timers!SetKeepMethod(n, s.start) = [keep |-> "TillDate", keepDate |-> s.start + n * Day]
    BY <2>1 DEF Timers!SetKeepMethod
  <2>3. n * Day \in Nat /\ s.start \in Nat
    BY <2>1, TimersAssumption DEF IsSchedule
  <2>4. (s.start + n * Day) - s.start = n * Day
    BY <2>3
  <2>5. Timers!DaysIn(n * Day) = n
    BY <2>1, WholeDays
  <2>6. n = Timers!DaysIn(s.keepDate - s.start)
    BY <1>1 DEF Timers!GetLifetime, n
  <2>7. s.keepDate \in Int /\ s.keepDate - s.start \in Int
    BY <2>3 DEF IsSchedule
  <2>8. s.keepDate - s.start \in Nat
    <3> SUFFICES ASSUME s.keepDate - s.start < 0 PROVE FALSE
      BY <2>7
    <3> DEFINE d == -(s.keepDate - s.start)
    <3>1. d \in Nat /\ n = -(d \div Day)
      BY <2>6, <2>7 DEF Timers!DaysIn
    <3> HIDE DEF d
    <3>2. d \div Day >= 0 /\ d \div Day \in Int
      BY <3>1, TimersAssumption, Z3
    <3> QED BY <2>1, <3>1, <3>2
  <2>9. (s.keepDate - s.start) - n * Day \in 0 .. Day - 1
    BY <2>6, <2>8, PartOfADay
  <2>10. s.keepDate - (s.start + n * Day) = (s.keepDate - s.start) - n * Day
    BY <2>3, <2>7
  <2> QED BY <1>1, <2>2, <2>4, <2>5, <2>9, <2>10 DEF n
<1>2. CASE s.keep # "TillDate"
  <2>1. s.keep \in {"UntilSpaceNeeded", "UntilWatched", "Always"}
    BY <1>2 DEF IsSchedule, Keeps
  <2>2. /\ Timers!KeepMethods[1] = "UntilSpaceNeeded" /\ Timers!KeepMethods[2] = "UntilWatched"
        /\ Timers!KeepMethods[4] = "Always"
    BY DEF Timers!KeepMethods
  <2>3. /\ Timers!KeepMethod(0) = "UntilSpaceNeeded" /\ Timers!KeepMethod(1) = "UntilWatched"
        /\ Timers!KeepMethod(3) = "Always"
    BY <2>2 DEF Timers!KeepMethod
  <2>4. \A n \in {0, 1, 3} : Timers!SetKeepMethod(0 - n, s.start).keep = Timers!KeepMethod(n)
    <3>1. \A n \in {0, 1, 3} : ~(0 - n > 0) /\ -(0 - n) = n
      BY Z3
    <3> QED BY <3>1 DEF Timers!SetKeepMethod
  <2>5. /\ s.keep = "UntilSpaceNeeded" => Timers!GetLifetime(s) = 0
        /\ s.keep = "UntilWatched" => Timers!GetLifetime(s) = 0 - 1
        /\ s.keep = "Always" => Timers!GetLifetime(s) = 0 - 3
    BY DEF Timers!GetLifetime
  <2> QED BY <1>2, <2>1, <2>3, <2>4, <2>5
<1> QED BY <1>1, <1>2

LEMMA MarginStays ==
  ASSUME TimersInv, NEW tag \in kodi, NEW margin \in Margins, NEW id \in DOMAIN schedules,
         Timers!GetPVRtimerinfo(Timers!ParseLine(Timers!LineOf(id))) = tag, tag.index = 1 + id,
         schedules[id].keep # "none",
         schedules[id].keep = "TillDate" => Timers!GetLifetime(schedules[id]) > 0,
         schedules[id].recording => schedules[id].active,
         Timers!EditMargin(tag, margin), schedules' # schedules
  PROVE  /\ schedules' = [schedules EXCEPT ![id] = schedules'[id]] /\ IsSchedule(schedules'[id])
         /\ schedules'[id].type = schedules[id].type /\ schedules'[id].title = schedules[id].title
         /\ schedules[id].type # "EveryTimeOnEveryChannel" => schedules'[id].channel = schedules[id].channel
         /\ schedules'[id].active = schedules[id].active /\ schedules'[id].recording = schedules[id].recording
         /\ schedules'[id].start = schedules[id].start /\ schedules'[id].keep = schedules[id].keep
         /\ schedules'[id].margin = margin /\ schedules'[id].priority = Timers!XBMC2MepoPriority(50)
         /\ schedules[id].keep = "TillDate" => schedules[id].keepDate - schedules'[id].keepDate \in 0 .. Day - 1
         /\ Timers!GetLifetime(schedules'[id]) = Timers!GetLifetime(schedules[id])
<1> DEFINE s == schedules[id]
           new == [tag EXCEPT !.margin = margin]
           t == Timers!TimerOf(new)
           n == [Timers!ScheduleOf(t) EXCEPT !.recording = s.recording]
<1>1. ServerInv /\ IsSchedule(s) /\ IsRead(tag) /\ IsRead(new)
  BY EditedIsRead DEF TimersInv, ServerInv
<1>2. /\ tag.parent = Timers!NoIndex
      /\ tag.state = IF s.recording THEN "RECORDING" ELSE IF s.active THEN "SCHEDULED" ELSE "DISABLED"
      /\ tag.title = s.title /\ tag.start = s.start
      /\ s.type # "EveryTimeOnEveryChannel" => tag.channel = s.channel
      /\ tag.type = s.type /\ tag.lifetime = Timers!GetLifetime(s)
  BY <1>1, ScheduleIsRead
<1>3. /\ new.index = tag.index /\ new.parent = tag.parent /\ new.state = tag.state
      /\ new.title = tag.title /\ new.start = tag.start /\ new.channel = tag.channel
      /\ new.type = tag.type /\ new.lifetime = tag.lifetime /\ new.margin = margin
  BY <1>1 DEF IsRead, IsTag
<1>4. Timers!UpdateTimer(new)
  BY DEF Timers!EditMargin
<1> HIDE DEF new
<1>5. IdOf(new) = id
  BY <1>1, <1>2, <1>3, TimersAssumption DEF IdOf, ServerInv
<1>6. t.index = id /\ t.type = s.type
  BY <1>1, <1>2, <1>3, <1>5, TimerOfRead
<1>7. schedules' = [schedules EXCEPT ![id] = n]
  BY <1>4, <1>6 DEF Timers!UpdateTimer, Timers!Commanded, Timers!UpdateSchedule
<1>8. s.start > 0 /\ s.start \in Nat
  BY <1>1 DEF IsSchedule
<1>9. LET kept == Timers!SetKeepMethod(Timers!GetLifetime(s), s.start)
      IN  /\ t.title = s.title /\ t.channel = tag.channel /\ t.active = (tag.state # "DISABLED")
          /\ t.start = s.start /\ t.keep = kept.keep /\ t.keepDate = kept.keepDate
          /\ t.margin = margin /\ t.priority = Timers!XBMC2MepoPriority(50)
  BY <1>2, <1>3, <1>8 DEF Timers!TimerOf, Timers!XBMC2MepoPriority
<1>10. (tag.state # "DISABLED") = s.active
  BY <1>1, <1>2 DEF IsSchedule
<1>11. IsSchedule(Timers!ScheduleOf(t))
  BY <1>1, TimerIsSchedule DEF IsRead
<1> HIDE DEF t
<1>12. /\ n.type = s.type /\ n.title = s.title /\ n.channel = tag.channel /\ n.active = s.active
       /\ n.recording = s.recording /\ n.start = s.start /\ n.keep = t.keep /\ n.keepDate = t.keepDate
       /\ n.margin = margin /\ n.priority = Timers!XBMC2MepoPriority(50)
  BY <1>6, <1>9, <1>10 DEF Timers!ScheduleOf
<1>13. IsSchedule(n)
  BY <1>1, <1>11 DEF IsSchedule
<1>14. schedules'[id] = n
  BY <1>7
<1> HIDE DEF n, s
<1>15. /\ n.keep = s.keep
       /\ s.keep = "TillDate" => /\ Timers!DaysIn(n.keepDate - n.start) = Timers!GetLifetime(s)
                                /\ s.keepDate - n.keepDate \in 0 .. Day - 1
  BY <1>1, <1>9, <1>12, KeepComesBack DEF s
<1>16. Timers!GetLifetime(n) = Timers!GetLifetime(s)
  BY <1>15 DEF Timers!GetLifetime
<1> QED BY <1>2, <1>7, <1>12, <1>13, <1>14, <1>15, <1>16 DEF s

\* From the server to Kodi and back: with any lifetime, start and state, an edit of the margin changes
\* that margin, and else loses just the priority and what the keep date has beyond whole days.
THEOREM EditsKeepTheRest == Spec => EditKeepsTheRest
<1>1. ASSUME TimersInv PROVE Timers!EditKeepsTheRest
  <2> SUFFICES ASSUME NEW tag \in kodi, NEW margin \in Margins, NEW id \in DOMAIN schedules,
                      Timers!GetPVRtimerinfo(Timers!ParseLine(Timers!LineOf(id))) = tag, tag.index = 1 + id,
                      schedules[id].keep # "none",
                      schedules[id].keep = "TillDate" => Timers!GetLifetime(schedules[id]) > 0,
                      schedules[id].recording => schedules[id].active,
                      Timers!EditMargin(tag, margin), schedules' # schedules
               PROVE  /\ id \in DOMAIN schedules'
                      /\ \A f \in {"type", "title", "active", "recording", "start", "keep"} :
                           schedules'[id][f] = schedules[id][f]
                      /\ schedules[id].type = "EveryTimeOnEveryChannel"
                           \/ schedules'[id].channel = schedules[id].channel
                      /\ schedules'[id].margin = margin
                      /\ schedules'[id].priority = Timers!XBMC2MepoPriority(50)
                      /\ Timers!GetLifetime(schedules'[id]) = Timers!GetLifetime(schedules[id])
                      /\ schedules[id].keep = "TillDate" =>
                           schedules[id].keepDate - schedules'[id].keepDate \in 0 .. Day - 1
    BY Zenon DEF Timers!EditKeepsTheRest
  <2> DEFINE new == schedules'[id]
  <2>1. schedules' = [schedules EXCEPT ![id] = new]
    BY <1>1, MarginStays
  <2>2. id \in DOMAIN schedules'
    BY <2>1
  <2> QED BY <1>1, <2>2, MarginStays
<1> QED BY <1>1, TimersInvariant, PTL DEF EditKeepsTheRest

-----------------------------------------------------------------------------
(* Recordings                                                              *)

\* The greatest of a set of numbers is the one that no other is above.
LEMMA GreatestIs ==
  ASSUME NEW S, NEW k \in S, S \subseteq Nat, \A j \in S : j <= k
  PROVE  Folders!Max(S) = k
<1>1. ASSUME NEW x \in S PROVE (\A y \in S : x >= y) <=> x = k
  <2>1. k \in Nat /\ x \in Nat /\ \A y \in S : y \in Nat /\ y <= k
    OBVIOUS
  <2>2. ASSUME \A y \in S : x >= y PROVE x = k
    <3>1. x >= k
      BY <2>2
    <3> QED BY <2>1, <3>1
  <2>3. ASSUME x = k PROVE \A y \in S : x >= y
    BY <2>1, <2>3
  <2> QED BY <2>2, <2>3
<1> QED BY <1>1, Zenon DEF Folders!Max

\* The smallest of a set of numbers is one of them, and below all others.
LEMMA SmallestIs ==
  ASSUME NEW S, S \subseteq Nat, S # {}
  PROVE  Folders!Min(S) \in S /\ \A j \in S : Folders!Min(S) <= j
<1>1. \E x \in S : \A y \in S : x <= y
  BY LeastOf
<1> QED BY <1>1, Zenon DEF Folders!Min

\* What a sequence of names is joined to: three letters for each of them.
LEMMA JoinedIs ==
  ASSUME NEW names, Len(names) \in Nat
  PROVE  /\ DOMAIN Folders!Joined(names) = 1 .. 3 * Len(names)
         /\ Folders!Joined(names) \in Seq({Folders!Joined(names)[i] : i \in 1 .. 3 * Len(names)})
         /\ Len(Folders!Joined(names)) = 3 * Len(names)
<1> DEFINE J == Folders!Joined(names)
           S == {J[i] : i \in 1 .. 3 * Len(names)}
<1>1. J = [i \in 1 .. 3 * Len(names) |-> J[i]]
  <2> DEFINE E(i) == LET name == Folders!NameOf(names[(i + 2) \div 3])
                     IN  CASE i % 3 = 1 -> Folders!Separator
                           [] i % 3 = 2 -> name[1]
                           [] OTHER -> name[2]
  <2>1. J = [i \in 1 .. 3 * Len(names) |-> E(i)]
    BY Zenon DEF Folders!Joined
  <2> HIDE DEF J, E
  <2> QED BY <2>1
<1>2. 3 * Len(names) \in Nat
  OBVIOUS
<1> DEFINE n == 3 * Len(names)
<1> HIDE DEF J, n
<1>3. J \in [1 .. n -> S]
  BY <1>1, Zenon DEF n
<1>4. J \in Seq(S) /\ Len(J) = n
  <2>1. J \in Seq(S)
    BY <1>2, <1>3, SeqDef, Zenon DEF n
  <2>2. DOMAIN J = 1 .. n
    BY <1>3
  <2> QED BY <1>2, <2>1, <2>2, LenProperties DEF n
<1> QED BY <1>3, <1>4 DEF J, n

\* The names in the path of a recording behind its folder, and their letters.
NamesIn(p, id) == Append(p.below, Folders!FileName(id))
LettersOf(p, id) == Folders!Joined(NamesIn(p, id))
Alphabet(p, id) == STRING \cup {LettersOf(p, id)[i] : i \in 1 .. 3 * Len(NamesIn(p, id))}

\* The path of a recording begins with its folder.
LEMMA PathIs ==
  ASSUME NEW p, NEW id, p.folder \in Seq(STRING), p.below \in Seq(STRING)
  PROVE  /\ Len(NamesIn(p, id)) = Len(p.below) + 1 /\ Len(NamesIn(p, id)) \in Nat
         /\ DOMAIN LettersOf(p, id) = 1 .. 3 * Len(NamesIn(p, id))
         /\ Len(Folders!PathOf(p, id)) = Len(p.folder) + 3 * Len(NamesIn(p, id))
         /\ DOMAIN Folders!PathOf(p, id) = 1 .. Len(Folders!PathOf(p, id))
         /\ \A i \in 1 .. Len(p.folder) : Folders!PathOf(p, id)[i] = p.folder[i]
         /\ \A i \in 1 .. 3 * Len(NamesIn(p, id)) :
              Folders!PathOf(p, id)[Len(p.folder) + i] = LettersOf(p, id)[i]
         /\ Folders!PathOf(p, id) \in Seq(Alphabet(p, id)) /\ p.folder \in Seq(Alphabet(p, id))
<1> DEFINE names == NamesIn(p, id)
           J == LettersOf(p, id)
           path == Folders!PathOf(p, id)
<1>1. Len(names) = Len(p.below) + 1 /\ Len(names) \in Nat
  <2> DEFINE S == STRING \cup {Folders!FileName(id)}
  <2>1. p.below \in Seq(S) /\ Folders!FileName(id) \in S
    OBVIOUS
  <2> HIDE DEF S
  <2>2. Len(Append(p.below, Folders!FileName(id))) = Len(p.below) + 1 /\ Len(p.below) \in Nat
    BY <2>1, AppendProperties, LenProperties
  <2> QED BY <2>2 DEF NamesIn
<1> HIDE DEF names, J, path
<1> DEFINE m == 3 * Len(names)
           T == {J[i] : i \in 1 .. m}
           S == STRING \cup T
<1>2. DOMAIN J = 1 .. m /\ J \in Seq(T) /\ Len(J) = m
  BY <1>1, JoinedIs DEF LettersOf, J, names
<1>3. J \in Seq(S) /\ p.folder \in Seq(S)
  <2>1. T \subseteq S /\ STRING \subseteq S
    OBVIOUS
  <2>2. T \subseteq S => Seq(T) \subseteq Seq(S)
    BY SeqMonotonic
  <2>3. STRING \subseteq S => Seq(STRING) \subseteq Seq(S)
    BY SeqMonotonic
  <2> HIDE DEF S, T
  <2> QED BY <1>2, <2>1, <2>2, <2>3
<1>4. path = p.folder \o J
  BY Zenon DEF Folders!PathOf, LettersOf, NamesIn, J, path
<1>5. Len(p.folder) \in Nat /\ m \in Nat
  BY <1>1, LenProperties
<1> HIDE DEF S, T, m
<1>6. /\ path \in Seq(S) /\ Len(path) = Len(p.folder) + m
      /\ \A i \in 1 .. Len(path) : path[i] = IF i <= Len(p.folder) THEN p.folder[i] ELSE J[i - Len(p.folder)]
  <2> DEFINE f == p.folder
  <2>1. f \in Seq(S) /\ J \in Seq(S) /\ path = f \o J
    BY <1>3, <1>4
  <2> HIDE DEF f
  <2>2. /\ f \o J \in Seq(S) /\ Len(f \o J) = Len(f) + Len(J)
        /\ \A i \in 1 .. Len(f) + Len(J) : (f \o J)[i] = IF i <= Len(f) THEN f[i] ELSE J[i - Len(f)]
    BY <2>1, ConcatProperties
  <2>3. /\ path \in Seq(S) /\ Len(path) = Len(f) + m
        /\ \A i \in 1 .. Len(path) : path[i] = IF i <= Len(f) THEN f[i] ELSE J[i - Len(f)]
    <3>1. Len(J) = m
      BY <1>2
    <3> QED BY <2>1, <2>2, <3>1
  <2> QED BY <2>3 DEF f
<1>7. DOMAIN path = 1 .. Len(path)
  BY <1>6, LenProperties
<1>8. \A i \in 1 .. Len(p.folder) : path[i] = p.folder[i]
  BY <1>5, <1>6
<1>9. \A i \in 1 .. m : path[Len(p.folder) + i] = J[i]
  <2>1. ASSUME NEW i \in 1 .. m PROVE path[Len(p.folder) + i] = J[i]
    <3>1. /\ Len(p.folder) + i \in 1 .. Len(path) /\ ~(Len(p.folder) + i <= Len(p.folder))
          /\ (Len(p.folder) + i) - Len(p.folder) = i
      BY <1>5, <1>6
    <3> QED BY <1>6, <3>1
  <2> QED BY <2>1
<1> QED BY <1>1, <1>2, <1>3, <1>6, <1>7, <1>8, <1>9 DEF Alphabet, S, T, m, names, J, path

\* The letters of joined names: a separator and the two parts of the name, in turn.
LEMMA LettersAre ==
  ASSUME NEW names, NEW n \in Nat, Len(names) = n, NEW i \in 1 .. 3 * n
  PROVE  Folders!Joined(names)[i] =
           IF i % 3 = 1 THEN Folders!Separator
           ELSE IF i % 3 = 2 THEN Folders!NameOf(names[(i + 2) \div 3])[1]
                ELSE Folders!NameOf(names[(i + 2) \div 3])[2]
<1> DEFINE E(j) == LET name == Folders!NameOf(names[(j + 2) \div 3])
                   IN  CASE j % 3 = 1 -> Folders!Separator
                         [] j % 3 = 2 -> name[1]
                         [] OTHER -> name[2]
<1>1. Folders!Joined(names) = [j \in 1 .. 3 * n |-> E(j)]
  BY Zenon DEF Folders!Joined
<1>2. Folders!Joined(names)[i] = E(i)
  <2> HIDE DEF E
  <2> QED BY <1>1
<1>3. (i % 3 = 1 => E(i) = Folders!Separator) /\ (i % 3 = 2 => i % 3 # 1)
  OBVIOUS
<1> QED BY <1>2, <1>3

\* A recording that the server may make.
MayBe(p, id) == p \in InFolders \cup ToPlay /\ id \in 1 .. MaxRecordings

\* Only what stands between the names is a separator.
LEMMA SeparatorsAre ==
  ASSUME NEW p, NEW id, MayBe(p, id), NEW i \in 1 .. 3 * Len(NamesIn(p, id))
  PROVE  LettersOf(p, id)[i] = Folders!Separator <=> i % 3 = 1
<1> DEFINE names == NamesIn(p, id)
           n == Len(names)
           k == (i + 2) \div 3
<1>1. p.folder \in Seq(STRING) /\ p.below \in Seq(STRING)
  BY RecordingsAssumption DEF MayBe
<1>2. n = Len(p.below) + 1 /\ n \in Nat
  BY <1>1, PathIs
<1>3. k \in 1 .. n
  BY <1>2
<1>4. Folders!NameOf(names[k])[1] # Folders!Separator /\ Folders!NameOf(names[k])[2] # Folders!Separator
  <2> HIDE DEF k
  <2> QED BY <1>2, <1>3, RecordingsAssumption, Zenon DEF MayBe, NamesIn
<1>5. Folders!Joined(names)[i] = IF i % 3 = 1 THEN Folders!Separator
                                 ELSE IF i % 3 = 2 THEN Folders!NameOf(names[k])[1]
                                      ELSE Folders!NameOf(names[k])[2]
  BY <1>2, LettersAre
<1> HIDE DEF k
<1> QED BY <1>4, <1>5, Zenon DEF LettersOf

\* What SplitFilePath takes of the path below the folder of the card.
UpToLast(rest) ==
  LET ends == {i \in DOMAIN rest : rest[i] = Folders!Separator}
  IN  IF ends = {} THEN Folders!Empty ELSE SubSeq(rest, 1, Folders!Max(ends) - 1)

\* SplitFilePath finds the folders again: below the card's folder, up to the last separator.
LEMMA FoldersAre ==
  ASSUME NEW p, NEW id, MayBe(p, id)
  PROVE  UpToLast(Folders!Below(Folders!PathOf(p, id), p.folder)) = Folders!FoldersOf(p.below)
<1>a. PICK path : path = Folders!PathOf(p, id)
  OBVIOUS
<1>b. PICK rest : rest = Folders!Below(path, p.folder)
  OBVIOUS
<1>c. PICK ends : ends = {i \in DOMAIN rest : rest[i] = Folders!Separator}
  OBVIOUS
<1>d. PICK names : names = NamesIn(p, id)
  OBVIOUS
<1>e. PICK J : J = LettersOf(p, id)
  OBVIOUS
<1>f. PICK n : n = Len(p.below)
  OBVIOUS
<1>g. PICK f : f = Len(p.folder)
  OBVIOUS
<1>h. PICK m : m = 3 * n
  OBVIOUS
<1> SUFFICES (IF ends = {} THEN Folders!Empty ELSE SubSeq(rest, 1, Folders!Max(ends) - 1))
               = Folders!FoldersOf(p.below)
  <2>1. UpToLast(rest) = IF ends = {} THEN Folders!Empty ELSE SubSeq(rest, 1, Folders!Max(ends) - 1)
    BY ONLY <1>c, Zenon DEF UpToLast
  <2> QED BY <1>a, <1>b, <2>1
<1> USE <1>a, <1>b, <1>c, <1>d, <1>e, <1>f, <1>g, <1>h
<1> DEFINE B == Folders!Joined(p.below)
<1>1. p.folder \in Seq(STRING) /\ p.below \in Seq(STRING) /\ n \in Nat /\ f \in Nat
  BY RecordingsAssumption DEF MayBe
<1>2. /\ Len(names) = n + 1
      /\ Len(path) = f + 3 * (n + 1) /\ DOMAIN path = 1 .. Len(path)
      /\ \A i \in 1 .. 3 * (n + 1) : path[f + i] = J[i]
      /\ \E S : path \in Seq(S)
  <2>1. /\ Len(names) = Len(p.below) + 1 /\ Len(path) = Len(p.folder) + 3 * Len(names)
        /\ DOMAIN path = 1 .. Len(path)
        /\ \A i \in 1 .. 3 * Len(names) : path[Len(p.folder) + i] = J[i]
        /\ \E S : path \in Seq(S)
    <3>1. Len(NamesIn(p, id)) = Len(p.below) + 1
      BY ONLY <1>1, PathIs, ZenonT(60)
    <3>2. Len(Folders!PathOf(p, id)) = Len(p.folder) + 3 * Len(NamesIn(p, id))
      BY ONLY <1>1, PathIs, ZenonT(60)
    <3>3. DOMAIN Folders!PathOf(p, id) = 1 .. Len(Folders!PathOf(p, id))
      BY ONLY <1>1, PathIs, ZenonT(60)
    <3>4. \A i \in 1 .. 3 * Len(NamesIn(p, id)) :
            Folders!PathOf(p, id)[Len(p.folder) + i] = LettersOf(p, id)[i]
      BY ONLY <1>1, PathIs, ZenonT(60)
    <3>5. Folders!PathOf(p, id) \in Seq(Alphabet(p, id))
      BY ONLY <1>1, PathIs, ZenonT(60)
    <3>6. \E S : path \in Seq(S)
      BY <3>5
    <3> QED BY <3>1, <3>2, <3>3, <3>4, <3>6
  <2> QED BY <2>1
<1>3. PICK S : path \in Seq(S)
  BY <1>2
<1>0. m = 3 * n /\ n \in Nat /\ f \in Nat
  BY <1>1
<1>4. m \in Nat /\ Len(path) = f + m + 3 /\ \A i \in 1 .. m + 3 : path[f + i] = J[i]
  BY ONLY <1>0, <1>2
<1>5. /\ rest \in Seq(S) /\ Len(rest) = m + 2 /\ DOMAIN rest = 1 .. m + 2
      /\ \A i \in 1 .. m + 2 : rest[i] = J[i + 1]
  <2>1. rest = SubSeq(path, f + 2, Len(path))
    BY DEF Folders!Below
  <2>2. \A i \in f + 2 .. Len(path) : path[i] \in S
    <3>1. \A i \in f + 2 .. Len(path) : i \in 1 .. Len(path)
      BY ONLY <1>0, <1>4
    <3> QED BY <1>3, <3>1, ElementOfSeq
  <2>3. /\ rest \in Seq(S) /\ Len(rest) = m + 2
        /\ \A i \in 1 .. m + 2 : rest[i] = path[f + 2 + i - 1]
    <3>1. /\ SubSeq(path, f + 2, Len(path)) \in Seq(S)
          /\ Len(SubSeq(path, f + 2, Len(path))) = IF f + 2 <= Len(path) THEN Len(path) - (f + 2) + 1 ELSE 0
          /\ \A i \in 1 .. Len(path) - (f + 2) + 1 : SubSeq(path, f + 2, Len(path))[i] = path[f + 2 + i - 1]
      <4>1. f + 2 \in Int /\ Len(path) \in Int
        BY <1>1, <1>4
      <4> QED BY ONLY <2>2, <4>1, SubSeqProperties
    <3>2. Len(path) - (f + 2) + 1 = m + 2 /\ f + 2 <= Len(path)
      BY ONLY <1>0, <1>4
    <3> QED BY <2>1, <3>1, <3>2
  <2>4. ASSUME NEW i \in 1 .. m + 2 PROVE f + 2 + i - 1 = f + (i + 1) /\ i + 1 \in 1 .. m + 3
    <3>1. m \in Nat /\ f \in Nat
      BY ONLY <1>0, <1>4
    <3>2. i \in Int
      BY ONLY <3>1, <2>4
    <3>3. f + 2 + i - 1 = f + (i + 1)
      BY ONLY <3>1, <3>2
    <3>4. i + 1 \in 1 .. m + 3
      BY ONLY <3>1, <2>4
    <3> QED BY ONLY <3>3, <3>4
  <2>5. \A i \in 1 .. m + 2 : rest[i] = J[i + 1]
    BY ONLY <1>4, <2>3, <2>4
  <2>6. DOMAIN rest = 1 .. m + 2
    BY <2>3, LenProperties
  <2> QED BY <2>3, <2>5, <2>6
<1>6. \A i \in 1 .. m + 3 : J[i] = Folders!Separator <=> i % 3 = 1
  <2>1. \A i \in 1 .. 3 * Len(names) : J[i] = Folders!Separator <=> i % 3 = 1
    BY SeparatorsAre
  <2>2. 3 * Len(names) = m + 3
    BY <1>1, <1>2
  <2> QED BY <2>1, <2>2
<1>7. ends = {i \in 1 .. m + 2 : (i + 1) % 3 = 1}
  <2>1. \A i \in 1 .. m + 2 : i + 1 \in 1 .. m + 3
    BY <1>4
  <2>2. \A i \in 1 .. m + 2 : rest[i] = Folders!Separator <=> (i + 1) % 3 = 1
    BY <1>5, <1>6, <2>1
  <2> QED BY <1>5, <2>2, Zenon
<1>8. CASE n = 0
  <2>1. m = 0
    BY <1>8
  <2>2. ends = {}
    <3>1. \A i \in 1 .. 0 + 2 : ~((i + 1) % 3 = 1)
      OBVIOUS
    <3> QED BY <1>7, <2>1, <3>1
  <2>3. p.below = <<>>
    <3>1. p.below \in Seq(STRING) /\ Len(p.below) = 0
      BY <1>1, <1>8
    <3> QED BY ONLY <3>1, EmptySeq
  <2> QED BY <2>2, <2>3 DEF Folders!FoldersOf
<1>9. CASE n # 0
  <2>1. n >= 1 /\ m >= 3 /\ m - 1 \in Nat
    BY <1>1, <1>9
  <2>2. Folders!Max(ends) = m
    <3>1. m \in ends
      <4>1. m \in 1 .. m + 2 /\ (m + 1) % 3 = 1
        BY ONLY <1>0, <2>1
      <4> QED BY <1>7, <4>1
    <3>2. \A j \in ends : j <= m /\ j \in Nat
      <4>1. (m + 1 + 1) % 3 = 2 /\ (m + 2 + 1) % 3 = 0
        BY ONLY <1>0
      <4>2. ASSUME NEW j \in ends PROVE j <= m /\ j \in Nat
        <5>1. j \in 1 .. m + 2 /\ (j + 1) % 3 = 1
          BY <1>7
        <5>2. j # m + 1 /\ j # m + 2
          BY <4>1, <5>1
        <5> QED BY ONLY <1>4, <5>1, <5>2
      <4> QED BY <4>2
    <3> QED BY <3>1, <3>2, GreatestIs
  <2>3. m \in ends
    <3>1. m \in 1 .. m + 2 /\ (m + 1) % 3 = 1
      BY ONLY <1>0, <2>1
    <3> QED BY <1>7, <3>1
  <2> DEFINE head == SubSeq(rest, 1, m - 1)
  <2>4. /\ head \in Seq(S) /\ Len(head) = m - 1
        /\ \A i \in 1 .. m - 1 : head[i] = J[i + 1]
    <3>1. \A i \in 1 .. m - 1 : i \in 1 .. m + 2 /\ rest[i] \in S
      BY <1>4, <1>5, ElementOfSeq
    <3>2. /\ head \in Seq(S) /\ Len(head) = IF 1 <= m - 1 THEN (m - 1) - 1 + 1 ELSE 0
          /\ \A i \in 1 .. (m - 1) - 1 + 1 : head[i] = rest[1 + i - 1]
      <4>1. 1 \in Int /\ m - 1 \in Int
        BY <1>4
      <4> QED BY <3>1, <4>1, SubSeqProperties
    <3>3. 1 <= m - 1 /\ (m - 1) - 1 + 1 = m - 1 /\ \A i \in 1 .. m - 1 : 1 + i - 1 = i
      BY <2>1, <1>4
    <3> HIDE DEF head
    <3>4. \A i \in 1 .. m - 1 : head[i] = rest[i]
      BY <3>2, <3>3
    <3> QED BY <1>5, <3>1, <3>2, <3>3, <3>4
  <2>5. /\ p.below # <<>> /\ B # <<>>
        /\ \E T : B \in Seq(T) /\ Len(B) = m
    <3>1. B \in Seq({B[i] : i \in 1 .. 3 * Len(p.below)}) /\ Len(B) = 3 * Len(p.below)
      BY <1>1, JoinedIs
    <3> QED BY <1>9, <2>1, <3>1
  <2>6. PICK T : B \in Seq(T) /\ Len(B) = m
    BY <2>5
  <2> HIDE DEF B, head
  <2>7. /\ Tail(B) \in Seq(T) /\ Len(Tail(B)) = m - 1
        /\ \A i \in 1 .. m - 1 : Tail(B)[i] = B[i + 1]
    BY <2>5, <2>6, HeadTailProperties
  <2>8. \A i \in 1 .. m : B[i] = J[i]
    <3>1. ASSUME NEW i \in 1 .. m PROVE B[i] = J[i]
      <4> DEFINE k == (i + 2) \div 3
      <4>1. k \in 1 .. n /\ i \in 1 .. 3 * n /\ i \in 1 .. 3 * (n + 1)
        BY <1>1
      <4>2. names[k] = p.below[k]
        <5> DEFINE U == STRING \cup {Folders!FileName(id)}
        <5>1. p.below \in Seq(U) /\ Folders!FileName(id) \in U
          BY <1>1
        <5> HIDE DEF U, k
        <5> QED BY <4>1, <5>1, AppendProperties DEF NamesIn
      <4>3. B[i] = IF i % 3 = 1 THEN Folders!Separator
                   ELSE IF i % 3 = 2 THEN Folders!NameOf(p.below[k])[1] ELSE Folders!NameOf(p.below[k])[2]
        BY <1>1, <4>1, LettersAre DEF B
      <4>4. J[i] = IF i % 3 = 1 THEN Folders!Separator
                   ELSE IF i % 3 = 2 THEN Folders!NameOf(names[k])[1] ELSE Folders!NameOf(names[k])[2]
        <5>1. n + 1 \in Nat /\ Len(names) = n + 1
          BY <1>1, <1>2
        <5> QED BY <4>1, <5>1, LettersAre DEF LettersOf
      <4> HIDE DEF k
      <4> QED BY <4>2, <4>3, <4>4, Zenon
    <3> QED BY <3>1
  <2>9. head = Tail(B)
    <3> DEFINE X == S \cup T
    <3>1. head \in Seq(X) /\ Tail(B) \in Seq(X)
      <4>1. S \subseteq X => Seq(S) \subseteq Seq(X)
        BY SeqMonotonic
      <4>2. T \subseteq X => Seq(T) \subseteq Seq(X)
        BY SeqMonotonic
      <4>3. S \subseteq X /\ T \subseteq X
        OBVIOUS
      <4> HIDE DEF X
      <4> QED BY <2>4, <2>7, <4>1, <4>2, <4>3
    <3>2. \A i \in 1 .. m - 1 : i + 1 \in 1 .. m
      BY <1>4
    <3>3. Len(head) = Len(Tail(B)) /\ \A i \in 1 .. Len(head) : head[i] = Tail(B)[i]
      BY <2>4, <2>7, <2>8, <3>2
    <3> HIDE DEF X
    <3> QED BY <3>1, <3>3, SeqEqual
  <2>10. Folders!FoldersOf(p.below) = Tail(B)
    BY <2>5, Zenon DEF Folders!FoldersOf, B
  <2>11. ends # {}
    BY <2>3
  <2> QED BY <2>2, <2>9, <2>10, <2>11 DEF head
<1> QED BY <1>8, <1>9

\* A recording's folder is at the front of its path.
LEMMA FolderIsFound ==
  ASSUME NEW p, NEW id, MayBe(p, id), NEW path, path = Folders!PathOf(p, id)
  PROVE  /\ 1 \in DOMAIN path /\ Folders!IsPrefix(p.folder, SubSeq(path, 1, Len(path)))
         /\ Folders!FoundIn(path, p.folder)
<1> DEFINE S == Alphabet(p, id)
           f == p.folder
           n == Len(f)
<1>1. p.folder \in Seq(STRING) /\ p.below \in Seq(STRING) /\ n >= 3 /\ n \in Nat
  BY RecordingsAssumption DEF MayBe
<1>2. Len(NamesIn(p, id)) \in Nat
  BY ONLY <1>1, PathIs, ZenonT(60)
<1>3. Len(path) = n + 3 * Len(NamesIn(p, id))
  <2>1. Len(Folders!PathOf(p, id)) = Len(p.folder) + 3 * Len(NamesIn(p, id))
    BY ONLY <1>1, PathIs, ZenonT(60)
  <2> QED BY <2>1
<1>4. DOMAIN path = 1 .. Len(path)
  <2>1. DOMAIN Folders!PathOf(p, id) = 1 .. Len(Folders!PathOf(p, id))
    BY ONLY <1>1, PathIs, ZenonT(60)
  <2> QED BY <2>1
<1>5. \A i \in 1 .. n : path[i] = f[i]
  <2>1. \A i \in 1 .. Len(p.folder) : Folders!PathOf(p, id)[i] = p.folder[i]
    BY ONLY <1>1, PathIs, ZenonT(60)
  <2> QED BY <2>1
<1>6. path \in Seq(S) /\ f \in Seq(S)
  <2>1. Folders!PathOf(p, id) \in Seq(Alphabet(p, id))
    BY ONLY <1>1, PathIs, ZenonT(60)
  <2>2. p.folder \in Seq(Alphabet(p, id))
    BY ONLY <1>1, PathIs, ZenonT(60)
  <2> QED BY <2>1, <2>2
<1> HIDE DEF S, f
<1>7. Len(path) \in Nat /\ n <= Len(path) /\ Len(path) >= 1 /\ n \in Nat
  BY ONLY <1>1, <1>2, <1>3
<1>8. SubSeq(path, 1, Len(path)) = path /\ SubSeq(f, 1, n) = f
  BY <1>6, SubSeqFull
<1>9. SubSeq(path, 1, n) = f
  <2> DEFINE h == SubSeq(path, 1, n)
  <2>1. \A i \in 1 .. n : path[i] \in S
    <3>1. \A i \in 1 .. n : i \in 1 .. Len(path)
      BY ONLY <1>7
    <3> QED BY <1>6, <3>1, ElementOfSeq
  <2>2. /\ h \in Seq(S) /\ Len(h) = IF 1 <= n THEN n - 1 + 1 ELSE 0
        /\ \A i \in 1 .. n - 1 + 1 : h[i] = path[1 + i - 1]
    <3>1. 1 \in Int /\ n \in Int
      BY <1>7
    <3> QED BY ONLY <2>1, <3>1, SubSeqProperties
  <2>3. n - 1 + 1 = n /\ 1 <= n /\ \A i \in 1 .. n : 1 + i - 1 = i
    BY ONLY <1>1, <1>7
  <2> HIDE DEF h
  <2>4. h \in Seq(S) /\ Len(h) = Len(f) /\ \A i \in 1 .. Len(h) : h[i] = f[i]
    BY <1>5, <2>2, <2>3
  <2>5. h = f
    BY <1>6, <2>4, SeqEqual
  <2> QED BY <2>5 DEF h
<1>10. Folders!IsPrefix(f, SubSeq(path, 1, Len(path)))
  BY <1>7, <1>8, <1>9 DEF Folders!IsPrefix
<1>11. 1 \in DOMAIN path
  BY <1>4, <1>7
<1>12. Folders!FoundIn(path, f)
  BY <1>10, <1>11, Zenon DEF Folders!FoundIn
<1> QED BY <1>10, <1>11, <1>12 DEF f

-----------------------------------------------------------------------------

Card == [folder : Seq(STRING), unc : Seq(STRING)]

\* No card's folder is in the path of a recording in another one.
IsCards(list) ==
  /\ list \in Seq(Card)
  /\ \A i \in DOMAIN list : \A p, id :
       MayBe(p, id) /\ Folders!FoundIn(Folders!PathOf(p, id), list[i].folder) => list[i].folder = p.folder

\* What the server has recorded.
IsMade(r, p, id) ==
  /\ MayBe(p, id)
  /\ r.path = Folders!PathOf(p, id) /\ r.below = p.below /\ r.folder = p.folder
  /\ r.stream \in {<<"rtsp", id>>, <<>>}

StoredOK ==
  /\ \E S : recordings \in Seq(S)
  /\ Len(recordings) <= MaxRecordings
  /\ \A id \in DOMAIN recordings : \E p : IsMade(recordings[id], p, id)
  /\ IsCards(cards) /\ IsCards(settings)

\* SplitFilePath of a recording whose card is known: the folders that the server has put it in.
LEMMA SplitIs ==
  ASSUME IsCards(cards), NEW p, NEW id, MayBe(p, id), \E i \in DOMAIN cards : cards[i].folder = p.folder
  PROVE  Folders!SplitFilePath(Folders!PathOf(p, id)) = Folders!FoldersOf(p.below)
<1> DEFINE path == Folders!PathOf(p, id)
           known == {i \in DOMAIN cards : Len(cards[i].folder) >= 3 /\ Folders!FoundIn(path, cards[i].folder)}
           first == Folders!Min(known)
<1>1. Folders!SplitFilePath(path) =
        IF known = {} THEN Folders!Empty ELSE UpToLast(Folders!Below(path, cards[first].folder))
  BY Zenon DEF Folders!SplitFilePath, UpToLast
<1> HIDE DEF path
<1>2. known # {}
  <2>1. PICK i \in DOMAIN cards : cards[i].folder = p.folder
    OBVIOUS
  <2>2. Len(p.folder) >= 3
    BY RecordingsAssumption DEF MayBe
  <2>3. Folders!FoundIn(path, p.folder)
    BY FolderIsFound DEF path
  <2>4. i \in known
    BY <2>1, <2>2, <2>3
  <2> QED BY <2>4
<1>3. known \subseteq Nat
  <2>1. DOMAIN cards = 1 .. Len(cards) /\ Len(cards) \in Nat
    BY DEF IsCards
  <2> QED BY <2>1
<1>4. first \in known
  <2> HIDE DEF known
  <2> QED BY <1>2, <1>3, SmallestIs
<1>5. cards[first].folder = p.folder
  <2> HIDE DEF first
  <2>1. first \in DOMAIN cards /\ Folders!FoundIn(path, cards[first].folder)
    BY <1>4
  <2> QED BY <2>1, Zenon DEF IsCards, path
<1> HIDE DEF first, known
<1>6. UpToLast(Folders!Below(path, p.folder)) = Folders!FoldersOf(p.below)
  BY FoldersAre DEF path
<1> QED BY <1>1, <1>2, <1>5, <1>6 DEF path

\* The places of the recordings and of the cards are numbers.
LEMMA StoredIs ==
  ASSUME StoredOK
  PROVE  /\ DOMAIN recordings = 1 .. Len(recordings) /\ Len(recordings) \in Nat
         /\ DOMAIN cards = 1 .. Len(cards) /\ Len(cards) \in Nat
<1>1. PICK S : recordings \in Seq(S)
  BY DEF StoredOK
<1>2. cards \in Seq(Card)
  BY DEF StoredOK, IsCards
<1> QED BY <1>1, <1>2, LenProperties

\* The file of a recording is found under one of its names, or not at all.
LEMMA TranslatedIs ==
  ASSUME StoredOK, NEW id \in DOMAIN recordings, NEW path, path = recordings[id].path,
         NEW file \in Folders!TranslatePath(path)
  PROVE  file = <<>> \/ file \in Folders!NamesOf(recordings[id])
<1>1. PICK p : IsMade(recordings[id], p, id)
  BY DEF StoredOK
<1>2. MayBe(p, id) /\ path = Folders!PathOf(p, id) /\ recordings[id].folder = p.folder
  BY <1>1 DEF IsMade
<1> DEFINE shared == {i \in DOMAIN cards : cards[i].unc # Folders!Empty /\ Folders!FoundIn(path, cards[i].folder)}
           k == Folders!Min(shared)
           from == {i \in DOMAIN path : Folders!IsPrefix(p.folder, SubSeq(path, i, Len(path)))}
           rest == SubSeq(path, Len(p.folder) + 1, Len(path))
<1>3. file \in IF shared = {} THEN {Folders!ToKodiPath(path), Folders!Empty}
               ELSE {Folders!ToKodiPath(Folders!Replaced(path, cards[k].folder, cards[k].unc))}
  BY Zenon DEF Folders!TranslatePath
<1>4. CASE shared = {}
  <2>1. file = Folders!ToKodiPath(path) \/ file = <<>>
    <3> HIDE DEF shared
    <3> QED BY <1>3, <1>4, Zenon DEF Folders!Empty
  <2> QED BY <2>1, Zenon DEF Folders!NamesOf
<1>5. CASE shared # {}
  <2>1. shared \subseteq Nat
    BY StoredIs
  <2>2. k \in shared
    <3> HIDE DEF shared
    <3> QED BY <1>5, <2>1, SmallestIs
  <2>3. file = Folders!ToKodiPath(Folders!Replaced(path, cards[k].folder, cards[k].unc))
    <3> HIDE DEF shared, k
    <3> QED BY <1>3, <1>5
  <2> HIDE DEF k
  <2>4. k \in DOMAIN cards /\ Folders!FoundIn(path, cards[k].folder)
    BY <2>2
  <2>5. cards[k].folder = p.folder
    BY <1>2, <2>4, Zenon DEF StoredOK, IsCards
  <2>6. cards[k].unc \in Seq(STRING)
    <3>1. cards \in Seq(Card) /\ k \in 1 .. Len(cards)
      BY <2>4, StoredIs DEF StoredOK, IsCards
    <3>2. cards[k] \in Card
      BY <3>1, ElementOfSeq
    <3> QED BY <3>2 DEF Card
  <2>7. Folders!Min(from) = 1
    <3>1. 1 \in from
      BY <1>2, FolderIsFound
    <3>2. from \subseteq Nat \ {0}
      <4>1. DOMAIN Folders!PathOf(p, id) = 1 .. Len(Folders!PathOf(p, id))
        BY <1>2, RecordingsAssumption, PathIs, Zenon DEF MayBe
      <4> QED BY <1>2, <4>1
    <3> HIDE DEF from
    <3>3. from \subseteq Nat /\ from # {}
      BY <3>1, <3>2
    <3>4. Folders!Min(from) \in from /\ \A j \in from : Folders!Min(from) <= j
      BY <3>3, SmallestIs
    <3>5. Folders!Min(from) \in Nat \ {0} /\ Folders!Min(from) <= 1
      BY <3>1, <3>2, <3>4
    <3> QED BY <3>5
  <2>8. Folders!Replaced(path, p.folder, cards[k].unc) = cards[k].unc \o rest
    <3>1. Folders!Replaced(path, p.folder, cards[k].unc) =
            SubSeq(path, 1, Folders!Min(from) - 1) \o cards[k].unc
              \o SubSeq(path, Folders!Min(from) + Len(p.folder), Len(path))
      BY Zenon DEF Folders!Replaced
    <3> HIDE DEF from
    <3>2. SubSeq(path, 1, Folders!Min(from) - 1) = <<>>
      <4>1. Folders!Min(from) - 1 \in Int /\ Folders!Min(from) - 1 < 1
        BY <2>7
      <4> QED BY <4>1, SubSeqEmpty
    <3>3. <<>> \o cards[k].unc = cards[k].unc
      BY <2>6, ConcatEmptySeq
    <3>4. Folders!Min(from) + Len(p.folder) = Len(p.folder) + 1
      <4>1. Len(p.folder) \in Nat
        BY <1>2, RecordingsAssumption DEF MayBe
      <4> QED BY <2>7, <4>1
    <3> QED BY <3>1, <3>2, <3>3, <3>4
  <2>9. file = Folders!ToKodiPath(cards[k].unc \o SubSeq(path, Len(cards[k].folder) + 1, Len(path)))
    BY <2>3, <2>5, <2>8
  <2>10. k \in {j \in DOMAIN cards : cards[j].folder = recordings[id].folder}
    BY <1>2, <2>4, <2>5
  <2> HIDE DEF from, rest
  <2>11. file \in Folders!NamesOf(recordings[id])
    BY <2>9, <2>10, Zenon DEF Folders!NamesOf
  <2> QED BY <2>11
<1> QED BY <1>4, <1>5

\* Kodi's list, if nothing is on its way to change it; the tags are of the server's recordings.
ShownOK ==
  /\ \A tag \in shown : tag.id \in DOMAIN recordings
  /\ ~triggered /\ ~missed =>
       shown = {Folders!Tag(id, Folders!SplitFilePath(recordings[id].path)) : id \in Folders!Listed}

\* A recording that is kept is one of the server's, with all of its line or what could be parsed.
IsOf(info, id) ==
  /\ id \in DOMAIN recordings /\ info.index = id
  /\ info.stream \in {<<>>, recordings[id].stream} /\ info.filePath \in {<<>>, recordings[id].path}
SelectedOK == selected # Folders!None => IsOf(selected, selected.index)

\* What plays, and where cuts are read, is a file of the recording.
PlaysOne(play) ==
  play # Folders!Nothing /\ play.file # <<>> =>
    \E id \in DOMAIN recordings :
      play.asked = id /\ play.file \in Folders!NamesOf(recordings[id]) \cup {recordings[id].stream}
CutsOne(cuts) ==
  cuts # Folders!NoEdl =>
    /\ \E id \in DOMAIN recordings : cuts.asked = id /\ cuts.file \in Folders!NamesOf(recordings[id])
    /\ \A i \in DOMAIN cuts.entries : 0 <= cuts.entries[i].start /\ cuts.entries[i].start <= cuts.entries[i].stop
PlayingOK == PlaysOne(playing) /\ CutsOne(edl)

RecordingsInv == StoredOK /\ ShownOK /\ SelectedOK /\ PlayingOK

\* The list that Kodi reads is the server's, in its folders.
LEMMA ListIsStored ==
  ASSUME RecordingsInv
  PROVE  Folders!RecordingsAsStored
<1> SUFFICES ASSUME ~triggered, ~missed,
                    \A id \in Folders!Listed : \E i \in DOMAIN cards : cards[i].folder = recordings[id].folder
             PROVE  shown = {Folders!Tag(id, Folders!FoldersOf(recordings[id].below)) : id \in Folders!Listed}
  BY Zenon DEF Folders!RecordingsAsStored
<1>1. \A id \in Folders!Listed : Folders!SplitFilePath(recordings[id].path) = Folders!FoldersOf(recordings[id].below)
  <2>1. ASSUME NEW id \in Folders!Listed
        PROVE  Folders!SplitFilePath(recordings[id].path) = Folders!FoldersOf(recordings[id].below)
    <3>1. id \in DOMAIN recordings
      BY DEF Folders!Listed, Folders!Stored
    <3>2. PICK p : IsMade(recordings[id], p, id)
      BY <3>1 DEF RecordingsInv, StoredOK
    <3>3. \E i \in DOMAIN cards : cards[i].folder = p.folder
      BY <3>2 DEF IsMade
    <3>4. IsCards(cards) /\ MayBe(p, id)
      BY <3>2 DEF RecordingsInv, StoredOK, IsMade
    <3>5. Folders!SplitFilePath(Folders!PathOf(p, id)) = Folders!FoldersOf(p.below)
      BY <3>3, <3>4, SplitIs
    <3> QED BY <3>2, <3>5 DEF IsMade
  <2> QED BY <2>1
<1>2. shown = {Folders!Tag(id, Folders!SplitFilePath(recordings[id].path)) : id \in Folders!Listed}
  BY DEF RecordingsInv, ShownOK
<1> QED BY <1>1, <1>2, Zenon

\* What an action may do to the server's recordings and to the cards that the client knows.
RecordingsKept ==
  /\ DOMAIN recordings \subseteq DOMAIN recordings'
  /\ \A id \in DOMAIN recordings :
       /\ recordings'[id].path = recordings[id].path /\ recordings'[id].stream = recordings[id].stream
       /\ recordings'[id].folder = recordings[id].folder /\ recordings'[id].below = recordings[id].below
  /\ DOMAIN cards \subseteq DOMAIN cards' /\ \A i \in DOMAIN cards : cards'[i] = cards[i]

\* A name that a recording has been found under remains one of its names.
LEMMA NamesStay ==
  ASSUME RecordingsKept, NEW id \in DOMAIN recordings
  PROVE  Folders!NamesOf(recordings[id]) \subseteq Folders!NamesOf(recordings[id])'
<1> DEFINE r == recordings[id]
           K(path) == IF path = <<>> \/ path[1] # "\\\\" THEN path
                      ELSE [i \in DOMAIN path |-> CASE path[i] = "\\\\" -> "smb://"
                                                   [] path[i] = "\\" -> "/"
                                                   [] OTHER -> path[i]]
           Name(c, path) == K(c.unc \o SubSeq(path, Len(c.folder) + 1, Len(path)))
           known == {cards[i] : i \in {j \in DOMAIN cards : cards[j].folder = r.folder}}
<1>1. Folders!NamesOf(r) = {K(r.path)} \cup {Name(c, r.path) : c \in known}
  BY Zenon DEF Folders!NamesOf, Folders!ToKodiPath, Folders!Unc, Folders!Separator, Folders!Empty
<1>2. Folders!NamesOf(r)' = {K(r'.path)} \cup {Name(c, r'.path) : c \in known'}
  BY Zenon DEF Folders!NamesOf, Folders!ToKodiPath, Folders!Unc, Folders!Separator, Folders!Empty
<1>3. r'.path = r.path /\ r'.folder = r.folder
  BY DEF RecordingsKept
<1>4. known \subseteq known'
  <2> DEFINE f == r.folder
             g == r'.folder
             places == {j \in DOMAIN cards : cards[j].folder = f}
             after == {j \in DOMAIN cards' : cards'[j].folder = g}
  <2>1. known = {cards[i] : i \in places} /\ known' = {cards'[i] : i \in after}
    OBVIOUS
  <2>2. f = g
    BY <1>3
  <2> HIDE DEF f, g
  <2>3. places \subseteq after /\ \A i \in places : cards'[i] = cards[i]
    BY <2>2 DEF RecordingsKept
  <2> HIDE DEF known, places, after
  <2> QED BY <2>1, <2>3
<1> HIDE DEF known, Name, K
<1>5. {Name(c, r.path) : c \in known} \subseteq {Name(c, r.path) : c \in known'}
  BY <1>4
<1> QED BY <1>1, <1>2, <1>3, <1>5 DEF r

-----------------------------------------------------------------------------
(* What the actions do to them                                             *)

\* What makes cards and recordings good is the same in the next state.
LEMMA CardsLater ==
  /\ IsCards(cards') => IsCards(cards)'
  /\ IsCards(settings') => IsCards(settings)'
BY Zenon DEF IsCards, Card, MayBe, Folders!FoundIn, Folders!IsPrefix, Folders!PathOf, Folders!Joined,
             Folders!NameOf, Folders!FileName, Folders!Separator

LEMMA MadeLater ==
  ASSUME NEW p, NEW id, IsMade(recordings'[id], p, id)
  PROVE  IsMade(recordings[id], p, id)'
BY Zenon DEF IsMade, MayBe, Folders!PathOf, Folders!Joined, Folders!NameOf, Folders!FileName, Folders!Separator

LEMMA StoredLater ==
  ASSUME NEW S, recordings' \in Seq(S), Len(recordings') <= MaxRecordings,
         \A id \in DOMAIN recordings' : \E p : IsMade(recordings'[id], p, id),
         IsCards(cards'), IsCards(settings')
  PROVE  StoredOK'
<1>1. IsCards(cards)' /\ IsCards(settings)'
  BY CardsLater, Zenon
<1>2. \A id \in DOMAIN recordings' : \E p : IsMade(recordings[id], p, id)'
  BY MadeLater, Zenon
<1> QED BY <1>1, <1>2, Zenon DEF StoredOK

\* The lists of the server.
LEMMA ListsAreCards ==
  ASSUME NEW list \in FolderCards \cup CardLists
  PROVE  IsCards(list)
<1>1. list \in Seq(Card) /\ DOMAIN list = 1 .. Len(list)
  <2>1. list \in Seq(Card)
    BY RecordingsAssumption, Zenon DEF Card
  <2> QED BY <2>1, LenProperties
<1>2. ASSUME NEW i \in DOMAIN list, NEW p, NEW id, MayBe(p, id),
             Folders!FoundIn(Folders!PathOf(p, id), list[i].folder)
      PROVE  list[i].folder = p.folder
  BY <1>1, <1>2, RecordingsAssumption, Zenon DEF MayBe
<1> QED BY <1>1, <1>2, Zenon DEF IsCards

\* ParseLines leaves the cards that it has.
LEMMA CardsGrow ==
  ASSUME IsCards(cards), IsCards(settings)
  PROVE  /\ IsCards(cards \o settings)
         /\ DOMAIN cards \subseteq DOMAIN (cards \o settings) /\ \A i \in DOMAIN cards : (cards \o settings)[i] = cards[i]
<1> DEFINE m == Len(cards)
           n == Len(settings)
           q == cards \o settings
<1>1. /\ cards \in Seq(Card) /\ settings \in Seq(Card) /\ m \in Nat /\ n \in Nat
      /\ DOMAIN cards = 1 .. m /\ DOMAIN settings = 1 .. n
  <2>1. cards \in Seq(Card) /\ settings \in Seq(Card)
    BY Zenon DEF IsCards
  <2> QED BY <2>1, LenProperties
<1>2. q \in Seq(Card) /\ Len(q) = m + n /\ \A i \in 1 .. m + n : q[i] = IF i <= m THEN cards[i] ELSE settings[i - m]
  BY <1>1, ConcatProperties
<1>3. DOMAIN q = 1 .. m + n
  BY <1>2, LenProperties
<1> HIDE DEF q, m, n
<1>4. \A i \in 1 .. m : i \in 1 .. m + n /\ q[i] = cards[i]
  BY <1>1, <1>2
<1>5. \A i \in 1 .. m + n : i \notin 1 .. m => i - m \in 1 .. n /\ q[i] = settings[i - m]
  BY <1>1, <1>2
<1>6. \A i \in 1 .. m + n : (\E j \in DOMAIN cards : q[i] = cards[j]) \/ (\E j \in DOMAIN settings : q[i] = settings[j])
  BY <1>1, <1>4, <1>5, Zenon
<1>7. ASSUME NEW i \in DOMAIN q, NEW p, NEW id, MayBe(p, id), Folders!FoundIn(Folders!PathOf(p, id), q[i].folder)
      PROVE  q[i].folder = p.folder
  <2>1. \A list, j : IsCards(list) /\ j \in DOMAIN list /\ Folders!FoundIn(Folders!PathOf(p, id), list[j].folder)
                      => list[j].folder = p.folder
    BY <1>7, Zenon DEF IsCards
  <2>2. i \in 1 .. m + n
    BY <1>3, <1>7
  <2>3. CASE \E j \in DOMAIN cards : q[i] = cards[j]
    <3>1. PICK j \in DOMAIN cards : q[i] = cards[j]
      BY <2>3
    <3> QED BY <1>7, <2>1, <3>1
  <2>4. CASE \E j \in DOMAIN settings : q[i] = settings[j]
    <3>1. PICK j \in DOMAIN settings : q[i] = settings[j]
      BY <2>4
    <3> QED BY <1>7, <2>1, <3>1
  <2> QED BY <1>6, <2>2, <2>3, <2>4
<1>8. IsCards(q)
  BY <1>2, <1>7, Zenon DEF IsCards
<1>9. DOMAIN cards \subseteq DOMAIN q /\ \A i \in DOMAIN cards : q[i] = cards[i]
  BY <1>1, <1>3, <1>4
<1> QED BY <1>8, <1>9 DEF q

\* What is kept of the recording selected last remains true of it.
LEMMA SelectedStays ==
  ASSUME RecordingsKept, selected' = Folders!None \/ IsOf(selected', selected'.index)
  PROVE  SelectedOK'
<1>1. Folders!None' = Folders!None
  BY DEF Folders!None
<1>2. CASE selected' = Folders!None
  BY <1>1, <1>2 DEF SelectedOK
<1>3. CASE IsOf(selected', selected'.index)
  <2>1. IsOf(selected, selected.index)'
    BY <1>3 DEF IsOf, RecordingsKept
  <2> QED BY <2>1 DEF SelectedOK
<1> QED BY <1>2, <1>3

\* What plays remains a file of its recording.
LEMMA PlayingStays ==
  ASSUME RecordingsKept, PlaysOne(playing'), CutsOne(edl')
  PROVE  PlayingOK'
<1>1. Folders!Nothing' = Folders!Nothing /\ Folders!NoEdl' = Folders!NoEdl
  BY DEF Folders!Nothing, Folders!NoEdl, Folders!Empty
<1>2. ASSUME NEW id \in DOMAIN recordings, NEW file, file \in Folders!NamesOf(recordings[id])
      PROVE  id \in DOMAIN recordings' /\ file \in Folders!NamesOf(recordings[id])'
             /\ recordings'[id].stream = recordings[id].stream
  BY <1>2, NamesStay DEF RecordingsKept
<1>3. \A id \in DOMAIN recordings : id \in DOMAIN recordings' /\ recordings'[id].stream = recordings[id].stream
  BY DEF RecordingsKept
<1>4. playing' # Folders!Nothing /\ playing'.file # <<>> =>
        \E id \in DOMAIN recordings' :
          playing'.asked = id /\ playing'.file \in Folders!NamesOf(recordings[id])' \cup {recordings'[id].stream}
  BY <1>2, <1>3, Zenon DEF PlaysOne
<1>5. edl' # Folders!NoEdl =>
        \E id \in DOMAIN recordings' : edl'.asked = id /\ edl'.file \in Folders!NamesOf(recordings[id])'
  BY <1>2, Zenon DEF CutsOne
<1>6. edl' # Folders!NoEdl =>
        \A i \in DOMAIN edl'.entries : 0 <= edl'.entries[i].start /\ edl'.entries[i].start <= edl'.entries[i].stop
  BY Zenon DEF CutsOne
<1> QED BY <1>1, <1>4, <1>5, <1>6, Zenon DEF PlayingOK, PlaysOne, CutsOne

\* What is read of the recordings, from them and the cards.
SplitBy(list, path) ==
  LET known == {i \in DOMAIN list : Len(list[i].folder) >= 3 /\ Folders!FoundIn(path, list[i].folder)}
      rest == Folders!Below(path, list[Folders!Min(known)].folder)
      ends == {i \in DOMAIN rest : rest[i] = Folders!Separator}
  IN  IF known = {} \/ ends = {} THEN Folders!Empty ELSE SubSeq(rest, 1, Folders!Max(ends) - 1)
TagBy(r, id, directory) ==
  LET ofSeries == directory = Folders!NameOf(r.title) /\ r.episode # Folders!NoEpisode
  IN  [id |-> id,
       directory |-> [i \in DOMAIN directory |-> IF directory[i] = Folders!Separator THEN " - " ELSE directory[i]],
       title |-> IF ofSeries THEN <<r.title, r.episode>> ELSE <<r.title>>,
       watched |-> r.watched, stop |-> r.stop]

\* The list to be read is the same when the recordings and the cards are.
LEMMA ListLater ==
  ASSUME recordings' = recordings, cards' = cards
  PROVE  \A id : Folders!Tag(id, Folders!SplitFilePath(recordings[id].path))'
                   = Folders!Tag(id, Folders!SplitFilePath(recordings[id].path))
<1>1. \A id : Folders!Tag(id, Folders!SplitFilePath(recordings[id].path))
               = TagBy(recordings[id], id, SplitBy(cards, recordings[id].path))
  BY Zenon DEF Folders!Tag, Folders!SplitFilePath, TagBy, SplitBy
<1>2. \A id : Folders!Tag(id, Folders!SplitFilePath(recordings[id].path))'
               = TagBy(recordings'[id], id, SplitBy(cards', recordings'[id].path))
  BY Zenon DEF Folders!Tag, Folders!SplitFilePath, TagBy, SplitBy, Folders!Below, Folders!FoundIn,
               Folders!IsPrefix, Folders!Min, Folders!Max, Folders!Empty, Folders!Separator,
               Folders!NameOf, Folders!NoEpisode
<1> QED BY <1>1, <1>2

\* What is shown is what a step has not changed.
LEMMA ShownStays ==
  ASSUME StoredOK, RecordingsKept, ShownOK, shown' = shown,
         triggered' \/ missed' \/ (recordings' = recordings /\ cards' = cards /\ (triggered' <=> triggered) /\ (missed' <=> missed))
  PROVE  ShownOK'
<1>1. \A tag \in shown' : tag.id \in DOMAIN recordings'
  BY DEF ShownOK, RecordingsKept
<1>2. ASSUME ~triggered', ~missed'
      PROVE  shown' = {Folders!Tag(id, Folders!SplitFilePath(recordings[id].path)) : id \in Folders!Listed}'
  <2>1. recordings' = recordings /\ cards' = cards /\ ~triggered /\ ~missed
    BY <1>2
  <2>2. shown = {Folders!Tag(id, Folders!SplitFilePath(recordings[id].path)) : id \in Folders!Listed}
    BY <2>1 DEF ShownOK
  <2>3. Folders!Listed' = Folders!Listed
    BY <2>1 DEF Folders!Listed, Folders!Stored
  <2>4. \A id : Folders!Tag(id, Folders!SplitFilePath(recordings[id].path))'
                  = Folders!Tag(id, Folders!SplitFilePath(recordings[id].path))
    BY <2>1, ListLater, Zenon
  <2> QED BY <2>2, <2>3, <2>4, Zenon
<1> QED BY <1>1, <1>2, Zenon DEF ShownOK

\* The steps, whichever of the two parts they are of.
Rest == UNCHANGED <<selected, playing, edl>>

CardsMove ==
  /\ cards' = cards \o settings \/ cards' = cards
  /\ triggered' = TRUE /\ recordings' = recordings /\ settings' = settings /\ shown' = shown /\ Rest

SettingsMove ==
  /\ settings' \in FolderCards \cup CardLists
  /\ UNCHANGED <<cards, recordings, shown, triggered, missed>> /\ Rest

ListMove ==
  /\ \/ shown' = {Folders!Tag(id, Folders!SplitFilePath(recordings[id].path)) : id \in Folders!Listed}
     \/ shown' = {} /\ missed' = TRUE
  /\ UNCHANGED <<settings, cards, recordings>> /\ Rest

Altered(id, r) ==
  /\ r.path = recordings[id].path /\ r.stream = recordings[id].stream
  /\ r.folder = recordings[id].folder /\ r.below = recordings[id].below

ServerMove ==
  /\ \/ \E id \in DOMAIN recordings : \E r : Altered(id, r) /\ recordings' = [recordings EXCEPT ![id] = r]
     \/ \E p, r : IsMade(r, p, Len(recordings) + 1) /\ recordings' = Append(recordings, r)
  /\ triggered' = TRUE \/ missed' = TRUE
  /\ UNCHANGED <<settings, cards, shown>> /\ Rest

AskMove ==
  /\ UNCHANGED <<settings, cards, recordings, shown, missed>> /\ (triggered => triggered')
  /\ selected' = Folders!None \/ IsOf(selected', selected'.index)
  /\ PlaysOne(playing') /\ CutsOne(edl')

Move == CardsMove \/ SettingsMove \/ ListMove \/ ServerMove \/ AskMove

\* What is selected and what plays, when a step leaves them.
LEMMA RestStays ==
  ASSUME RecordingsInv, RecordingsKept, Rest
  PROVE  SelectedOK' /\ PlayingOK'
<1>1. selected' = Folders!None \/ IsOf(selected', selected'.index)
  <2>1. selected' = selected
    BY DEF Rest
  <2>2. selected = Folders!None \/ IsOf(selected, selected.index)
    BY DEF RecordingsInv, SelectedOK
  <2> QED BY <2>1, <2>2
<1>2. PlaysOne(playing') /\ CutsOne(edl')
  <2>1. playing' = playing /\ edl' = edl
    BY DEF Rest
  <2>2. PlaysOne(playing) /\ CutsOne(edl)
    BY DEF RecordingsInv, PlayingOK
  <2> QED BY <2>1, <2>2
<1> QED BY <1>1, <1>2, SelectedStays, PlayingStays

\* The recordings stay as they are.
LEMMA SameStored ==
  ASSUME StoredOK, recordings' = recordings, IsCards(cards'), IsCards(settings')
  PROVE  StoredOK'
<1>1. PICK S : recordings \in Seq(S)
  BY DEF StoredOK
<1>2. Len(recordings) <= MaxRecordings /\ \A id \in DOMAIN recordings : \E p : IsMade(recordings[id], p, id)
  BY DEF StoredOK
<1>3. /\ recordings' \in Seq(S) /\ Len(recordings') <= MaxRecordings
      /\ \A id \in DOMAIN recordings' : \E p : IsMade(recordings'[id], p, id)
  BY <1>1, <1>2
<1> QED BY <1>3, StoredLater

\* Connect: more cards are known, and Kodi is told to read its recordings again.
LEMMA CardsStep ==
  ASSUME RecordingsInv, CardsMove
  PROVE  RecordingsInv'
<1>1. StoredOK /\ ShownOK /\ IsCards(cards) /\ IsCards(settings)
  BY DEF RecordingsInv, StoredOK
<1>2. /\ IsCards(cards')
      /\ DOMAIN cards \subseteq DOMAIN cards' /\ \A i \in DOMAIN cards : cards'[i] = cards[i]
  <2>1. CASE cards' = cards
    BY <1>1, <2>1
  <2>2. CASE cards' = cards \o settings
    BY <1>1, <2>2, CardsGrow
  <2> QED BY <2>1, <2>2 DEF CardsMove
<1>3. RecordingsKept
  BY <1>2 DEF RecordingsKept, CardsMove
<1>4. StoredOK'
  <2>1. recordings' = recordings /\ IsCards(settings')
    BY <1>1 DEF CardsMove
  <2> QED BY <1>1, <1>2, <2>1, SameStored
<1>5. ShownOK'
  <2>1. shown' = shown /\ triggered'
    BY DEF CardsMove
  <2> QED BY <1>1, <1>3, <2>1, ShownStays
<1>6. SelectedOK' /\ PlayingOK'
  BY <1>3, RestStays DEF CardsMove
<1> QED BY <1>4, <1>5, <1>6 DEF RecordingsInv

\* The settings at the server become others; the client does not know of them.
LEMMA SettingsStep ==
  ASSUME RecordingsInv, SettingsMove
  PROVE  RecordingsInv'
<1>1. StoredOK /\ ShownOK /\ IsCards(cards)
  BY DEF RecordingsInv, StoredOK
<1>2. IsCards(settings')
  BY ListsAreCards DEF SettingsMove
<1>3. RecordingsKept
  BY DEF RecordingsKept, SettingsMove
<1>4. StoredOK'
  <2>1. recordings' = recordings /\ IsCards(cards')
    BY <1>1 DEF SettingsMove
  <2> QED BY <1>1, <1>2, <2>1, SameStored
<1>5. ShownOK'
  <2>1. shown' = shown /\ recordings' = recordings /\ cards' = cards /\ triggered' = triggered /\ missed' = missed
    BY DEF SettingsMove
  <2> QED BY <1>1, <1>3, <2>1, ShownStays
<1>6. SelectedOK' /\ PlayingOK'
  BY <1>3, RestStays DEF SettingsMove
<1> QED BY <1>4, <1>5, <1>6 DEF RecordingsInv

\* GetRecordings: what is shown is what is stored.
LEMMA ListStep ==
  ASSUME RecordingsInv, ListMove
  PROVE  RecordingsInv'
<1>1. StoredOK /\ IsCards(cards) /\ IsCards(settings)
  BY DEF RecordingsInv, StoredOK
<1>2. recordings' = recordings /\ cards' = cards /\ settings' = settings
  BY DEF ListMove
<1>3. RecordingsKept
  BY <1>2 DEF RecordingsKept
<1>4. StoredOK'
  <2>1. IsCards(cards') /\ IsCards(settings')
    BY <1>1, <1>2
  <2> QED BY <1>1, <1>2, <2>1, SameStored
<1>5. ShownOK'
  <2> DEFINE read == {Folders!Tag(id, Folders!SplitFilePath(recordings[id].path)) : id \in Folders!Listed}
  <2>1. read' = read
    <3>1. Folders!Listed' = Folders!Listed
      BY <1>2 DEF Folders!Listed, Folders!Stored
    <3>2. \A id : Folders!Tag(id, Folders!SplitFilePath(recordings[id].path))'
                    = Folders!Tag(id, Folders!SplitFilePath(recordings[id].path))
      BY <1>2, ListLater, Zenon
    <3> QED BY <3>1, <3>2, Zenon
  <2>2. ~missed' => shown' = read
    BY DEF ListMove
  <2>3. \A tag \in read : tag.id \in DOMAIN recordings
    <3>1. \A id \in Folders!Listed : id \in DOMAIN recordings
      BY DEF Folders!Listed, Folders!Stored
    <3>2. \A id, directory : Folders!Tag(id, directory).id = id
      BY DEF Folders!Tag
    <3> QED BY <3>1, <3>2
  <2>4. \A tag \in shown' : tag.id \in DOMAIN recordings'
    <3>1. shown' = read \/ shown' = {}
      BY DEF ListMove
    <3> HIDE DEF read
    <3> QED BY <1>2, <2>3, <3>1
  <2>5. ~missed' => shown' = read'
    <3> HIDE DEF read
    <3> QED BY <2>1, <2>2
  <2> QED BY <2>4, <2>5, Zenon DEF ShownOK
<1>6. SelectedOK' /\ PlayingOK'
  BY <1>3, RestStays DEF ListMove
<1> QED BY <1>4, <1>5, <1>6 DEF RecordingsInv

\* What the server's recordings are after it.
Changed ==
  /\ DOMAIN recordings \subseteq DOMAIN recordings'
  /\ \A id \in DOMAIN recordings : Altered(id, recordings'[id])
  /\ \E T : recordings' \in Seq(T)
  /\ Len(recordings') <= MaxRecordings
  /\ \A id \in DOMAIN recordings' : \E p : IsMade(recordings'[id], p, id)

\* A recording is altered in what it is called, or deleted: it stays where it is.
LEMMA AlteredIsChanged ==
  ASSUME StoredOK, NEW id \in DOMAIN recordings, NEW r, Altered(id, r), recordings' = [recordings EXCEPT ![id] = r]
  PROVE  Changed
<1>1. PICK S : recordings \in Seq(S)
  BY DEF StoredOK
<1>2. Len(recordings) <= MaxRecordings /\ \A i \in DOMAIN recordings : \E p : IsMade(recordings[i], p, i)
  BY DEF StoredOK
<1>3. DOMAIN recordings = 1 .. Len(recordings)
  BY StoredIs
<1> DEFINE T == S \cup {r}
<1>4. recordings' \in Seq(T) /\ Len(recordings') = Len(recordings) /\ DOMAIN recordings' = DOMAIN recordings
  <2>1. S \subseteq T => Seq(S) \subseteq Seq(T)
    BY SeqMonotonic
  <2>2. S \subseteq T /\ r \in T
    OBVIOUS
  <2> HIDE DEF T
  <2>3. recordings \in Seq(T)
    BY <1>1, <2>1, <2>2
  <2> QED BY <1>3, <2>2, <2>3, ExceptSeq
<1>5. \A i \in DOMAIN recordings : recordings'[i] = IF i = id THEN r ELSE recordings[i]
  OBVIOUS
<1>6. \A i \in DOMAIN recordings : Altered(i, recordings'[i])
  BY <1>5 DEF Altered
<1>7. \A i \in DOMAIN recordings : \E p : IsMade(recordings'[i], p, i)
  BY <1>2, <1>6, Zenon DEF IsMade, Altered
<1> QED BY <1>2, <1>4, <1>6, <1>7 DEF Changed

\* A recording is added at the next place.
LEMMA AddedIsChanged ==
  ASSUME StoredOK, NEW p, NEW r, IsMade(r, p, Len(recordings) + 1), recordings' = Append(recordings, r)
  PROVE  Changed
<1>1. PICK S : recordings \in Seq(S)
  BY DEF StoredOK
<1>2. \A i \in DOMAIN recordings : \E q : IsMade(recordings[i], q, i)
  BY DEF StoredOK
<1> DEFINE T == S \cup {r}
           n == Len(recordings)
<1>3. /\ recordings' \in Seq(T) /\ Len(recordings') = n + 1 /\ recordings'[n + 1] = r
      /\ \A i \in 1 .. n : recordings'[i] = recordings[i]
  <2>1. S \subseteq T => Seq(S) \subseteq Seq(T)
    BY SeqMonotonic
  <2>2. S \subseteq T /\ r \in T
    OBVIOUS
  <2> HIDE DEF T
  <2>3. recordings \in Seq(T)
    BY <1>1, <2>1, <2>2
  <2> QED BY <2>2, <2>3, AppendProperties
<1>4. DOMAIN recordings' = 1 .. n + 1
  BY <1>3, LenProperties
<1>5. n \in Nat /\ DOMAIN recordings = 1 .. n
  BY StoredIs
<1>6. n + 1 <= MaxRecordings
  BY RecordingsAssumption DEF IsMade, MayBe
<1>7. IsMade(recordings'[n + 1], p, n + 1)
  BY <1>3
<1> HIDE DEF n, T
<1>8. \A i \in DOMAIN recordings : i \in DOMAIN recordings' /\ recordings'[i] = recordings[i]
  BY <1>3, <1>4, <1>5
<1>9. \A i \in DOMAIN recordings' : i = n + 1 \/ i \in DOMAIN recordings
  BY <1>4, <1>5
<1>10. \A i \in DOMAIN recordings' : \E q : IsMade(recordings'[i], q, i)
  BY <1>2, <1>7, <1>8, <1>9, Zenon
<1>11. \A i \in DOMAIN recordings : Altered(i, recordings'[i])
  BY <1>8 DEF Altered
<1>12. Len(recordings') <= MaxRecordings
  BY <1>3, <1>6
<1>13. DOMAIN recordings \subseteq DOMAIN recordings'
  BY <1>8
<1> QED BY <1>3, <1>10, <1>11, <1>12, <1>13 DEF Changed

\* Recordings that are added and altered: Kodi is told, or cannot know.
LEMMA ServerStep ==
  ASSUME RecordingsInv, ServerMove
  PROVE  RecordingsInv'
<1>1. StoredOK /\ ShownOK /\ IsCards(cards) /\ IsCards(settings)
  BY DEF RecordingsInv, StoredOK
<1>2. cards' = cards /\ settings' = settings /\ shown' = shown /\ (triggered' \/ missed') /\ Rest
  BY DEF ServerMove
<1>3. Changed
  BY <1>1, AlteredIsChanged, AddedIsChanged DEF ServerMove
<1>4. RecordingsKept
  BY <1>2, <1>3 DEF RecordingsKept, Altered, Changed
<1>5. StoredOK'
  <2>1. PICK T : recordings' \in Seq(T)
    BY <1>3 DEF Changed
  <2>2. IsCards(cards') /\ IsCards(settings')
    BY <1>1, <1>2
  <2> QED BY <1>3, <2>1, <2>2, StoredLater DEF Changed
<1>6. ShownOK'
  BY <1>1, <1>2, <1>4, ShownStays
<1>7. SelectedOK' /\ PlayingOK'
  BY <1>2, <1>4, RestStays
<1> QED BY <1>5, <1>6, <1>7 DEF RecordingsInv

\* The calls that play a recording and read its cuts, and steps that change nothing.
LEMMA AskStep ==
  ASSUME RecordingsInv, AskMove
  PROVE  RecordingsInv'
<1>1. StoredOK /\ ShownOK /\ IsCards(cards) /\ IsCards(settings)
  BY DEF RecordingsInv, StoredOK
<1>2. /\ recordings' = recordings /\ cards' = cards /\ settings' = settings /\ shown' = shown /\ missed' = missed
      /\ (triggered => triggered')
  BY DEF AskMove
<1>3. RecordingsKept
  BY <1>2 DEF RecordingsKept
<1>4. StoredOK'
  <2>1. IsCards(cards') /\ IsCards(settings')
    BY <1>1, <1>2
  <2> QED BY <1>1, <1>2, <2>1, SameStored
<1>5. ShownOK'
  <2>1. triggered' \/ (triggered' <=> triggered)
    BY <1>2
  <2> QED BY <1>1, <1>2, <1>3, <2>1, ShownStays
<1>6. SelectedOK' /\ PlayingOK'
  BY <1>3, SelectedStays, PlayingStays DEF AskMove
<1> QED BY <1>4, <1>5, <1>6 DEF RecordingsInv

-----------------------------------------------------------------------------
(* Every action is one of these steps                                      *)

\* A step that changes nothing of this is one of the last kind.
LEMMA StillIsMove ==
  ASSUME RecordingsInv, UNCHANGED <<settings, cards, recordings, shown, triggered, missed, selected, playing, edl>>
  PROVE  AskMove
<1>1. selected = Folders!None \/ IsOf(selected, selected.index)
  BY DEF RecordingsInv, SelectedOK
<1>2. PlaysOne(playing) /\ CutsOne(edl)
  BY DEF RecordingsInv, PlayingOK
<1> QED BY <1>1, <1>2 DEF AskMove

\* A command changes what a recording is called, not where it is.
LEMMA SentIsMove ==
  ASSUME RecordingsInv, NEW id, NEW r, Folders!Sent(id, r), Altered(id, r)
  PROVE  ServerMove \/ AskMove
<1>1. CASE Folders!Change(id, r) /\ (triggered' = TRUE \/ missed' = TRUE)
  <2>1. id \in DOMAIN recordings /\ recordings' = [recordings EXCEPT ![id] = r]
    BY <1>1 DEF Folders!Change, Folders!Stored
  <2>2. UNCHANGED <<settings, cards, shown>> /\ Rest
    BY DEF Folders!Sent, Rest
  <2> QED BY <1>1, <2>1, <2>2 DEF ServerMove
<1>2. CASE UNCHANGED <<recordings, triggered, missed>>
  BY <1>2, StillIsMove DEF Folders!Sent
<1> QED BY <1>1, <1>2 DEF Folders!Sent, Folders!Commanded

\* The answers to GetRecordingInfo are of the recording that was asked for.
LEMMA InfosAre ==
  ASSUME RecordingsInv, NEW id, NEW info \in Folders!Infos(id)
  PROVE  info = Folders!None \/ IsOf(info, id)
<1>1. CASE Folders!IsSelected(id)
  <2>1. info = selected /\ selected # Folders!None /\ selected.index = id
    BY <1>1 DEF Folders!Infos, Folders!IsSelected
  <2> QED BY <2>1 DEF RecordingsInv, SelectedOK
<1>2. CASE info = Folders!ParseLine(id) /\ id \in Folders!Stored
  <2>1. id \in DOMAIN recordings
    BY <1>2 DEF Folders!Stored
  <2>2. /\ info.index = id
        /\ info.stream = IF recordings[id].dated THEN recordings[id].stream ELSE <<>>
        /\ info.filePath = IF recordings[id].dated THEN recordings[id].path ELSE <<>>
    BY <1>2 DEF Folders!ParseLine, Folders!Empty
  <2> QED BY <2>1, <2>2 DEF IsOf
<1> QED BY <1>1, <1>2, Zenon DEF Folders!Infos

\* What an answer leaves selected is of the recording that was asked for.
LEMMA SelectedIs ==
  ASSUME RecordingsInv, NEW id, NEW info \in Folders!Infos(id), selected' = info
  PROVE  selected' = Folders!None \/ IsOf(selected', selected'.index)
<1>1. info = Folders!None \/ IsOf(info, id)
  BY InfosAre
<1>2. IsOf(info, id) => info.index = id
  BY DEF IsOf
<1> QED BY <1>1, <1>2

\* A url is opened as it is, a path where it can be reached.
LEMMA OpenedIs ==
  ASSUME RecordingsInv, NEW id, NEW info, IsOf(info, id), Folders!FileOf(info) # Folders!Empty,
         NEW file \in Folders!Opened(Folders!FileOf(info))
  PROVE  file = <<>> \/ file \in Folders!NamesOf(recordings[id]) \cup {recordings[id].stream}
<1> DEFINE r == recordings[id]
           wanted == Folders!FileOf(info)
<1>1. id \in DOMAIN recordings /\ info.stream \in {<<>>, r.stream} /\ info.filePath \in {<<>>, r.path}
  BY DEF IsOf
<1>2. wanted = info.stream \/ wanted = info.filePath
  BY Zenon DEF Folders!FileOf
<1>3. wanted # <<>>
  BY DEF Folders!Empty
<1> HIDE DEF wanted
<1>4. wanted = r.stream \/ wanted = r.path
  BY <1>1, <1>2, <1>3
<1>5. file \in IF wanted[1] = "rtsp" THEN {wanted} ELSE Folders!TranslatePath(wanted)
  BY DEF Folders!Opened, wanted
<1>6. r.stream \in {<<"rtsp", id>>, <<>>}
  <2>1. PICK p : IsMade(r, p, id)
    BY <1>1 DEF RecordingsInv, StoredOK
  <2> QED BY <2>1 DEF IsMade
<1>7. CASE wanted = r.stream
  <2>1. wanted = <<"rtsp", id>>
    BY <1>3, <1>6, <1>7
  <2>2. wanted[1] = "rtsp"
    BY <2>1
  <2> QED BY <1>5, <1>7, <2>2
<1>8. CASE wanted = r.path /\ wanted[1] = "rtsp"
  <2>1. file = r.path /\ r.path[1] # "\\\\"
    BY <1>5, <1>8
  <2>2. file = Folders!ToKodiPath(r.path)
    BY <2>1, Zenon DEF Folders!ToKodiPath, Folders!Unc
  <2> QED BY <2>2, Zenon DEF Folders!NamesOf
<1>9. CASE wanted = r.path /\ wanted[1] # "rtsp"
  <2>1. file \in Folders!TranslatePath(r.path)
    BY <1>5, <1>9
  <2>2. StoredOK
    BY DEF RecordingsInv
  <2> QED BY <1>1, <2>1, <2>2, TranslatedIs
<1> QED BY <1>4, <1>7, <1>8, <1>9

\* OpenRecordedStream: with the file or the url of the recording that it asks for.
LEMMA OpenIsMove ==
  ASSUME RecordingsInv, NEW tag, Folders!OpenRecordedStream(tag)
  PROVE  AskMove
<1>1. PICK info \in Folders!Infos(tag.id) :
        /\ selected' = info
        /\ IF Folders!IsInfo(info) /\ Folders!FileOf(info) # Folders!Empty
           THEN \E file \in Folders!Opened(Folders!FileOf(info)) : playing' = [asked |-> tag.id, file |-> file]
           ELSE playing' = playing
        /\ triggered' = (triggered \/ (Folders!IsInfo(info) /\ Folders!FileOf(info) = Folders!Empty))
  BY Zenon DEF Folders!OpenRecordedStream
<1>2. UNCHANGED <<settings, cards, recordings, shown, missed, edl>>
  BY DEF Folders!OpenRecordedStream
<1>3. selected' = Folders!None \/ IsOf(selected', selected'.index)
  BY <1>1, SelectedIs
<1>4. triggered => triggered'
  BY <1>1
<1>5. PlaysOne(playing) /\ CutsOne(edl)
  BY DEF RecordingsInv, PlayingOK
<1>6. PlaysOne(playing')
  <2>1. ASSUME Folders!IsInfo(info), Folders!FileOf(info) # Folders!Empty,
               NEW file \in Folders!Opened(Folders!FileOf(info)), playing' = [asked |-> tag.id, file |-> file]
        PROVE  PlaysOne(playing')
    <3>1. IsOf(info, tag.id)
      BY <2>1, InfosAre DEF Folders!IsInfo
    <3>2. file = <<>> \/ file \in Folders!NamesOf(recordings[tag.id]) \cup {recordings[tag.id].stream}
      BY <2>1, <3>1, OpenedIs
    <3>3. tag.id \in DOMAIN recordings
      BY <3>1 DEF IsOf
    <3>4. playing'.asked = tag.id /\ playing'.file = file
      BY <2>1
    <3> QED BY <3>2, <3>3, <3>4 DEF PlaysOne
  <2>2. CASE playing' = playing
    BY <1>5, <2>2
  <2> QED BY <1>1, <2>1, <2>2
<1>7. CutsOne(edl')
  BY <1>2, <1>5
<1> QED BY <1>2, <1>3, <1>4, <1>6, <1>7 DEF AskMove

\* GetRecordingStreamProperties: with the url of the recording that it asks for.
LEMMA PropertiesIsMove ==
  ASSUME RecordingsInv, NEW tag, Folders!GetRecordingStreamProperties(tag)
  PROVE  AskMove
<1>1. PICK info \in Folders!Infos(tag.id) :
        /\ selected' = info
        /\ playing' = IF Folders!IsInfo(info) /\ mode.ffmpeg
                      THEN [asked |-> tag.id, file |-> info.stream] ELSE playing
  BY Zenon DEF Folders!GetRecordingStreamProperties
<1>2. UNCHANGED <<settings, cards, recordings, shown, triggered, missed, edl>>
  BY DEF Folders!GetRecordingStreamProperties
<1>3. selected' = Folders!None \/ IsOf(selected', selected'.index)
  BY <1>1, SelectedIs
<1>4. PlaysOne(playing) /\ CutsOne(edl)
  BY DEF RecordingsInv, PlayingOK
<1>5. PlaysOne(playing')
  <2>1. ASSUME Folders!IsInfo(info), playing' = [asked |-> tag.id, file |-> info.stream]
        PROVE  PlaysOne(playing')
    <3>1. IsOf(info, tag.id)
      BY <2>1, InfosAre DEF Folders!IsInfo
    <3>2. tag.id \in DOMAIN recordings /\ info.stream \in {<<>>, recordings[tag.id].stream}
      BY <3>1 DEF IsOf
    <3>3. playing'.asked = tag.id /\ playing'.file = info.stream
      BY <2>1
    <3> QED BY <3>2, <3>3 DEF PlaysOne
  <2>2. CASE playing' = playing
    BY <1>4, <2>2
  <2> QED BY <1>1, <2>1, <2>2
<1>6. CutsOne(edl')
  BY <1>2, <1>4
<1> QED BY <1>2, <1>3, <1>5, <1>6 DEF AskMove

\* CloseRecordedStream: nothing plays.
LEMMA CloseIsMove ==
  ASSUME RecordingsInv, Folders!CloseRecordedStream
  PROVE  AskMove
<1>1. /\ playing' = Folders!Nothing
      /\ UNCHANGED <<settings, cards, recordings, shown, triggered, missed, selected, edl>>
  BY DEF Folders!CloseRecordedStream
<1>2. selected = Folders!None \/ IsOf(selected, selected.index)
  BY DEF RecordingsInv, SelectedOK
<1>3. CutsOne(edl)
  BY DEF RecordingsInv, PlayingOK
<1>4. PlaysOne(playing')
  BY <1>1 DEF PlaysOne
<1> QED BY <1>1, <1>2, <1>3, <1>4 DEF AskMove

\* The greater and the smaller one of two numbers.
LEMMA PairIs ==
  ASSUME NEW a \in Int, NEW b \in Int
  PROVE  /\ Folders!Max({a, b}) = IF a >= b THEN a ELSE b
         /\ Folders!Min({a, b}) = IF a <= b THEN a ELSE b
<1>1. \A x \in {a, b} : (\A y \in {a, b} : x >= y) <=> x = IF a >= b THEN a ELSE b
  OBVIOUS
<1>2. \A x \in {a, b} : (\A y \in {a, b} : x <= y) <=> x = IF a <= b THEN a ELSE b
  OBVIOUS
<1>3. (IF a >= b THEN a ELSE b) \in {a, b} /\ (IF a <= b THEN a ELSE b) \in {a, b}
  OBVIOUS
<1>4. Folders!Max({a, b}) = CHOOSE x \in {a, b} : \A y \in {a, b} : x >= y
  BY Zenon DEF Folders!Max
<1>5. Folders!Min({a, b}) = CHOOSE x \in {a, b} : \A y \in {a, b} : x <= y
  BY Zenon DEF Folders!Min
<1> DEFINE M == IF a >= b THEN a ELSE b
           m == IF a <= b THEN a ELSE b
<1> HIDE DEF M, m
<1> QED BY <1>1, <1>2, <1>3, <1>4, <1>5, Zenon DEF M, m

\* A cut ends after its start.
LEMMA EntriesAre ==
  ASSUME NEW lines, \A i \in DOMAIN lines : lines[i].start \in Int /\ lines[i].stop \in Int,
         NEW i \in DOMAIN Folders!EntriesOf(lines)
  PROVE  LET entry == Folders!EntriesOf(lines)[i] IN 0 <= entry.start /\ entry.start <= entry.stop
<1>1. i \in DOMAIN lines /\ Folders!EntriesOf(lines)[i] = Folders!EntryOf(lines[i])
  BY DEF Folders!EntriesOf
<1> DEFINE start == Folders!Max({lines[i].start, 0})
           stop == Folders!Max({lines[i].stop, 0})
           first == Folders!Min({start, stop})
           last == Folders!Max({first, stop})
<1>2. start \in Nat /\ stop \in Nat
  BY <1>1, PairIs
<1> HIDE DEF start, stop
<1>3. first \in Nat
  <2>1. start \in Int /\ stop \in Int
    BY <1>2
  <2>2. first = IF start <= stop THEN start ELSE stop
    BY <2>1, PairIs
  <2> HIDE DEF first
  <2> QED BY <1>2, <2>2
<1> HIDE DEF first
<1>4. last >= first
  BY <1>2, <1>3, PairIs
<1> HIDE DEF last
<1>5. Folders!EntryOf(lines[i]).start = first /\ Folders!EntryOf(lines[i]).stop = last
  BY DEF Folders!EntryOf, start, stop, first, last
<1>6. last \in Int
  BY <1>2, <1>3, PairIs DEF last
<1> QED BY <1>1, <1>3, <1>4, <1>5, <1>6

\* Nothing is found when the path is missing.
LEMMA NothingIsFound ==
  ASSUME NEW file \in Folders!TranslatePath(<<>>)
  PROVE  file = <<>>
<1> DEFINE shared == {i \in DOMAIN cards : cards[i].unc # Folders!Empty /\ Folders!FoundIn(<<>>, cards[i].folder)}
           first == Folders!Min(shared)
<1>1. \A folder : ~Folders!FoundIn(<<>>, folder)
  <2>1. DOMAIN <<>> = {}
    OBVIOUS
  <2> QED BY <2>1, Zenon DEF Folders!FoundIn
<1>2. shared = {}
  BY <1>1, Zenon
<1>3. file \in IF shared = {} THEN {Folders!ToKodiPath(<<>>), Folders!Empty}
               ELSE {Folders!ToKodiPath(Folders!Replaced(<<>>, cards[first].folder, cards[first].unc))}
  BY Zenon DEF Folders!TranslatePath
<1> HIDE DEF shared, first
<1>4. Folders!ToKodiPath(<<>>) = <<>>
  BY Zenon DEF Folders!ToKodiPath, Folders!Empty
<1> QED BY <1>2, <1>3, <1>4 DEF Folders!Empty

\* GetRecordingEdl: cuts are read next to the recording that it asks for.
LEMMA EdlIsMove ==
  ASSUME RecordingsInv, NEW tag, NEW lines \in EdlLines, Folders!GetRecordingEdl(tag, lines)
  PROVE  AskMove
<1>1. PICK info \in Folders!Infos(tag.id) :
        /\ selected' = info
        /\ IF Folders!IsInfo(info)
           THEN \E file \in Folders!TranslatePath(info.filePath) :
                  edl' = IF file = Folders!Empty THEN edl
                         ELSE [asked |-> tag.id, file |-> file, entries |-> Folders!EntriesOf(lines)]
           ELSE edl' = edl
  BY Zenon DEF Folders!GetRecordingEdl
<1>2. UNCHANGED <<settings, cards, recordings, shown, triggered, missed, playing>>
  BY DEF Folders!GetRecordingEdl
<1>3. selected' = Folders!None \/ IsOf(selected', selected'.index)
  BY <1>1, SelectedIs
<1>4. PlaysOne(playing) /\ CutsOne(edl)
  BY DEF RecordingsInv, PlayingOK
<1>5. CutsOne(edl')
  <2>1. ASSUME Folders!IsInfo(info), NEW file \in Folders!TranslatePath(info.filePath), file # Folders!Empty,
               edl' = [asked |-> tag.id, file |-> file, entries |-> Folders!EntriesOf(lines)]
        PROVE  CutsOne(edl')
    <3>1. IsOf(info, tag.id)
      BY <2>1, InfosAre DEF Folders!IsInfo
    <3>2. tag.id \in DOMAIN recordings /\ info.filePath \in {<<>>, recordings[tag.id].path}
      BY <3>1 DEF IsOf
    <3>3. file \in Folders!NamesOf(recordings[tag.id])
      <4>1. file # <<>>
        BY <2>1 DEF Folders!Empty
      <4>2. info.filePath = recordings[tag.id].path
        BY <2>1, <3>2, <4>1, NothingIsFound
      <4>3. StoredOK
        BY DEF RecordingsInv
      <4> QED BY <2>1, <3>2, <4>1, <4>2, <4>3, TranslatedIs
    <3>4. edl'.asked = tag.id /\ edl'.file = file /\ edl'.entries = Folders!EntriesOf(lines)
      BY <2>1
    <3>5. \A i \in DOMAIN lines : lines[i].start \in Int /\ lines[i].stop \in Int
      BY RecordingsAssumption
    <3>6. \A i \in DOMAIN Folders!EntriesOf(lines) :
            /\ 0 <= Folders!EntriesOf(lines)[i].start
            /\ Folders!EntriesOf(lines)[i].start <= Folders!EntriesOf(lines)[i].stop
      BY <3>5, EntriesAre
    <3> QED BY <3>2, <3>3, <3>4, <3>6, Zenon DEF CutsOne
  <2>2. CASE edl' = edl
    BY <1>4, <2>2
  <2> QED BY <1>1, <2>1, <2>2, Zenon
<1>6. PlaysOne(playing')
  BY <1>2, <1>4
<1> QED BY <1>2, <1>3, <1>5, <1>6 DEF AskMove

\* Connect appends to the cards.
LEMMA ConnectIsMove ==
  Folders!Connect \/ Playing!Connect => CardsMove
BY Zenon DEF Folders!Connect, Playing!Connect, Folders!ParseCards, Playing!ParseCards, CardsMove, Rest

\* GetRecordings reads the list of all recordings that are listed.
LEMMA ListIsMove ==
  Folders!GetRecordings => ListMove
BY Zenon DEF Folders!GetRecordings, ListMove, Rest

\* The commands of Kodi alter the recording that they are for, or nothing.
LEMMA CommandIsMove ==
  ASSUME RecordingsInv, NEW tag,
         \/ Folders!DeleteRecording(tag)
         \/ \E title : Folders!RenameRecording(tag, title)
         \/ \E count : Folders!SetRecordingPlayCount(tag, count)
         \/ \E position : Folders!SetRecordingLastPlayedPosition(tag, position)
  PROVE  ServerMove \/ AskMove
<1> DEFINE id == tag.id
           r == recordings[id]
<1>1. \A x : Altered(id, [r EXCEPT !.deleted = x]) /\ Altered(id, [r EXCEPT !.title = x])
             /\ Altered(id, [r EXCEPT !.watched = x]) /\ Altered(id, [r EXCEPT !.stop = x])
  BY DEF Altered
<1>2. CASE Folders!DeleteRecording(tag)
  BY <1>1, <1>2, SentIsMove DEF Folders!DeleteRecording
<1>3. ASSUME NEW title, Folders!RenameRecording(tag, title) PROVE ServerMove \/ AskMove
  BY <1>1, <1>3, SentIsMove DEF Folders!RenameRecording
<1>4. ASSUME NEW count, Folders!SetRecordingPlayCount(tag, count) PROVE ServerMove \/ AskMove
  BY <1>1, <1>4, SentIsMove DEF Folders!SetRecordingPlayCount
<1>5. ASSUME NEW position, Folders!SetRecordingLastPlayedPosition(tag, position) PROVE ServerMove \/ AskMove
  BY <1>1, <1>5, SentIsMove DEF Folders!SetRecordingLastPlayedPosition
<1> QED BY <1>2, <1>3, <1>4, <1>5

\* The server records what it may.
LEMMA RecordIsMove ==
  ASSUME RecordingsInv, NEW program \in InFolders \cup ToPlay, Folders!Record(program), missed' = TRUE,
         UNCHANGED <<settings, cards, shown, selected, playing, edl>>
  PROVE  ServerMove
<1> DEFINE id == Len(recordings) + 1
           r == [path |-> Folders!PathOf(program, id), below |-> program.below, folder |-> program.folder,
                 stream |-> IF program.stream THEN <<"rtsp", id>> ELSE Folders!Empty, title |-> program.title,
                 episode |-> program.episode, dated |-> program.dated,
                 deleted |-> FALSE, watched |-> 0, stop |-> 0]
<1>1. id <= MaxRecordings /\ recordings' = Append(recordings, r)
  BY Zenon DEF Folders!Record
<1>2. Len(recordings) \in Nat
  BY StoredIs DEF RecordingsInv
<1>3. id \in 1 .. MaxRecordings
  BY <1>1, <1>2, RecordingsAssumption
<1>4. /\ r.path = Folders!PathOf(program, id) /\ r.below = program.below /\ r.folder = program.folder
      /\ r.stream \in {<<"rtsp", id>>, <<>>}
  <2> HIDE DEF id
  <2> QED BY DEF Folders!Empty
<1>5. IsMade(r, program, id)
  BY <1>3, <1>4, Zenon DEF IsMade, MayBe
<1> HIDE DEF r
<1> QED BY <1>1, <1>5 DEF ServerMove, Rest

\* What others record and delete at the server.
LEMMA OthersIsMove ==
  ASSUME RecordingsInv, Folders!Others
  PROVE  ServerMove
<1>1. missed' = TRUE /\ UNCHANGED <<settings, cards, shown, selected, playing, edl>>
  BY DEF Folders!Others
<1>2. CASE \E program \in InFolders : Folders!Record(program)
  BY <1>1, <1>2, RecordIsMove
<1>3. ASSUME NEW id \in Folders!Stored, Folders!Change(id, [recordings[id] EXCEPT !.deleted = TRUE])
      PROVE  ServerMove
  <2>1. id \in DOMAIN recordings
    BY DEF Folders!Stored
  <2>2. Altered(id, [recordings[id] EXCEPT !.deleted = TRUE])
    BY DEF Altered
  <2>3. recordings' = [recordings EXCEPT ![id] = [recordings[id] EXCEPT !.deleted = TRUE]]
    BY <1>3 DEF Folders!Change
  <2> QED BY <1>1, <2>1, <2>2, <2>3, Zenon DEF ServerMove, Rest
<1> QED BY <1>2, <1>3, Zenon DEF Folders!Others

\* The server gets other settings for its cards.
LEMMA SettingsIsMove ==
  ASSUME NEW list \in FolderCards \cup CardLists, Folders!NewSettings(list)
  PROVE  SettingsMove
BY DEF Folders!NewSettings, SettingsMove, Rest

\* The actions of the two parts are the same; they differ in the recordings, cards and bounds.
LEMMA SameOperators ==
  /\ Playing!Stored = Folders!Stored /\ Playing!Listed = Folders!Listed
  /\ \A path : Playing!SplitFilePath(path) = Folders!SplitFilePath(path)
  /\ \A path : Playing!TranslatePath(path) = Folders!TranslatePath(path)
  /\ \A id, directory : Playing!Tag(id, directory) = Folders!Tag(id, directory)
  /\ \A id : Playing!Infos(id) = Folders!Infos(id)
  /\ \A lines : Playing!EntriesOf(lines) = Folders!EntriesOf(lines)
  /\ \A program, id : Playing!PathOf(program, id) = Folders!PathOf(program, id)
  /\ \A below : Playing!FoldersOf(below) = Folders!FoldersOf(below)
  /\ \A r : Playing!NamesOf(r) = Folders!NamesOf(r)
<1>1. Playing!Stored = Folders!Stored /\ Playing!Listed = Folders!Listed
  BY DEF Playing!Stored, Folders!Stored, Playing!Listed, Folders!Listed
<1>2. \A path, folder : Playing!FoundIn(path, folder) <=> Folders!FoundIn(path, folder)
  BY Zenon DEF Playing!FoundIn, Folders!FoundIn, Playing!IsPrefix, Folders!IsPrefix
<1>3. \A S : Playing!Max(S) = Folders!Max(S) /\ Playing!Min(S) = Folders!Min(S)
  BY Zenon DEF Playing!Max, Folders!Max, Playing!Min, Folders!Min
<1>4. \A path : Playing!SplitFilePath(path) = Folders!SplitFilePath(path)
  BY Zenon DEF Playing!SplitFilePath, Folders!SplitFilePath, Playing!FoundIn, Folders!FoundIn,
               Playing!IsPrefix, Folders!IsPrefix, Playing!Below, Folders!Below, Playing!Max, Folders!Max,
               Playing!Min, Folders!Min, Playing!Separator, Folders!Separator, Playing!Empty, Folders!Empty
<1>5. \A path : Playing!ToKodiPath(path) = Folders!ToKodiPath(path)
  BY Zenon DEF Playing!ToKodiPath, Folders!ToKodiPath, Playing!Empty, Folders!Empty,
               Playing!Unc, Folders!Unc, Playing!Separator, Folders!Separator
<1>6. \A path : Playing!TranslatePath(path) = Folders!TranslatePath(path)
  BY SMT DEF Playing!TranslatePath, Folders!TranslatePath, Playing!FoundIn, Folders!FoundIn,
               Playing!IsPrefix, Folders!IsPrefix, Playing!Min, Folders!Min, Playing!Replaced, Folders!Replaced,
               Playing!ToKodiPath, Folders!ToKodiPath, Playing!Empty, Folders!Empty,
               Playing!Unc, Folders!Unc, Playing!Separator, Folders!Separator
<1>7. \A id, directory : Playing!Tag(id, directory) = Folders!Tag(id, directory)
  BY Zenon DEF Playing!Tag, Folders!Tag, Playing!NameOf, Folders!NameOf, Playing!NoEpisode, Folders!NoEpisode,
               Playing!Separator, Folders!Separator
<1>8. \A id : Playing!Infos(id) = Folders!Infos(id)
  BY Zenon DEF Playing!Infos, Folders!Infos, Playing!IsSelected, Folders!IsSelected, Playing!None, Folders!None,
               Playing!ParseLine, Folders!ParseLine, Playing!Stored, Folders!Stored, Playing!Empty, Folders!Empty
<1>9. \A lines : Playing!EntriesOf(lines) = Folders!EntriesOf(lines)
  BY Zenon DEF Playing!EntriesOf, Folders!EntriesOf, Playing!EntryOf, Folders!EntryOf,
               Playing!EdlComBreak, Folders!EdlComBreak, Playing!Max, Folders!Max, Playing!Min, Folders!Min
<1>10. \A program, id : Playing!PathOf(program, id) = Folders!PathOf(program, id)
  BY Zenon DEF Playing!PathOf, Folders!PathOf, Playing!Joined, Folders!Joined, Playing!NameOf, Folders!NameOf,
               Playing!Separator, Folders!Separator, Playing!FileName, Folders!FileName
<1>11. \A below : Playing!FoldersOf(below) = Folders!FoldersOf(below)
  BY Zenon DEF Playing!FoldersOf, Folders!FoldersOf, Playing!Joined, Folders!Joined, Playing!NameOf, Folders!NameOf,
               Playing!Separator, Folders!Separator, Playing!Empty, Folders!Empty
<1>12. \A r : Playing!NamesOf(r) = Folders!NamesOf(r)
  BY Zenon DEF Playing!NamesOf, Folders!NamesOf,
               Playing!ToKodiPath, Folders!ToKodiPath, Playing!Empty, Folders!Empty,
               Playing!Unc, Folders!Unc, Playing!Separator, Folders!Separator
<1> QED BY <1>1, <1>4, <1>6, <1>7, <1>8, <1>9, <1>10, <1>11, <1>12

\* A call of the one part is that call of the other.
LEMMA SameActions ==
  /\ Playing!GetRecordings => Folders!GetRecordings
  /\ \A tag : /\ Playing!DeleteRecording(tag) => Folders!DeleteRecording(tag)
              /\ \A title : Playing!RenameRecording(tag, title) => Folders!RenameRecording(tag, title)
              /\ \A count : Playing!SetRecordingPlayCount(tag, count) => Folders!SetRecordingPlayCount(tag, count)
              /\ \A position : Playing!SetRecordingLastPlayedPosition(tag, position)
                                 => Folders!SetRecordingLastPlayedPosition(tag, position)
              /\ Playing!OpenRecordedStream(tag) => Folders!OpenRecordedStream(tag)
              /\ Playing!GetRecordingStreamProperties(tag) => Folders!GetRecordingStreamProperties(tag)
              /\ \A lines : Playing!GetRecordingEdl(tag, lines) => Folders!GetRecordingEdl(tag, lines)
  /\ Playing!CloseRecordedStream => Folders!CloseRecordedStream
  /\ \A program : Playing!Record(program) => Folders!Record(program)
<1>1. Playing!GetRecordings => Folders!GetRecordings
  BY SameOperators DEF Playing!GetRecordings, Folders!GetRecordings
<1>2. \A id, r : Playing!Sent(id, r) => Folders!Sent(id, r)
  BY Zenon DEF Playing!Sent, Folders!Sent, Playing!Commanded, Folders!Commanded, Playing!Change, Folders!Change,
               Playing!Stored, Folders!Stored
<1>3. ASSUME NEW tag
      PROVE  /\ Playing!DeleteRecording(tag) => Folders!DeleteRecording(tag)
             /\ \A title : Playing!RenameRecording(tag, title) => Folders!RenameRecording(tag, title)
             /\ \A count : Playing!SetRecordingPlayCount(tag, count) => Folders!SetRecordingPlayCount(tag, count)
             /\ \A position : Playing!SetRecordingLastPlayedPosition(tag, position)
                                => Folders!SetRecordingLastPlayedPosition(tag, position)
  <2>1. Playing!DeleteRecording(tag) => Folders!DeleteRecording(tag)
    BY <1>2, Zenon DEF Playing!DeleteRecording, Folders!DeleteRecording
  <2>2. \A title : Playing!RenameRecording(tag, title) => Folders!RenameRecording(tag, title)
    BY <1>2, Zenon DEF Playing!RenameRecording, Folders!RenameRecording
  <2>3. \A count : Playing!SetRecordingPlayCount(tag, count) => Folders!SetRecordingPlayCount(tag, count)
    BY <1>2, Zenon DEF Playing!SetRecordingPlayCount, Folders!SetRecordingPlayCount
  <2>4. \A position : Playing!SetRecordingLastPlayedPosition(tag, position)
                        => Folders!SetRecordingLastPlayedPosition(tag, position)
    BY <1>2, Zenon DEF Playing!SetRecordingLastPlayedPosition, Folders!SetRecordingLastPlayedPosition,
                       Playing!Max, Folders!Max
  <2> QED BY <2>1, <2>2, <2>3, <2>4
<1>4. /\ \A info : Playing!IsInfo(info) <=> Folders!IsInfo(info)
      /\ \A info : Playing!FileOf(info) = Folders!FileOf(info)
      /\ Playing!Empty = Folders!Empty /\ Playing!Nothing = Folders!Nothing
  BY Zenon DEF Playing!IsInfo, Folders!IsInfo, Playing!None, Folders!None, Playing!FileOf, Folders!FileOf,
               Playing!Empty, Folders!Empty, Playing!Nothing, Folders!Nothing
<1>5. \A file : Playing!Opened(file) = Folders!Opened(file)
  BY SameOperators DEF Playing!Opened, Folders!Opened
<1>6. ASSUME NEW tag, Playing!OpenRecordedStream(tag) PROVE Folders!OpenRecordedStream(tag)
  BY <1>4, <1>5, <1>6, SameOperators DEF Playing!OpenRecordedStream, Folders!OpenRecordedStream
<1>7. ASSUME NEW tag, Playing!GetRecordingStreamProperties(tag) PROVE Folders!GetRecordingStreamProperties(tag)
  BY <1>4, <1>7, SameOperators DEF Playing!GetRecordingStreamProperties, Folders!GetRecordingStreamProperties
<1>8. ASSUME NEW tag, NEW lines, Playing!GetRecordingEdl(tag, lines) PROVE Folders!GetRecordingEdl(tag, lines)
  BY <1>4, <1>8, SameOperators DEF Playing!GetRecordingEdl, Folders!GetRecordingEdl
<1>9. Playing!CloseRecordedStream => Folders!CloseRecordedStream
  BY <1>4 DEF Playing!CloseRecordedStream, Folders!CloseRecordedStream
<1>10. ASSUME NEW program, Playing!Record(program) PROVE Folders!Record(program)
  BY <1>4, <1>10, SameOperators, Zenon DEF Playing!Record, Folders!Record
<1> QED BY <1>1, <1>3, <1>6, <1>7, <1>8, <1>9, <1>10

\* An action of the part "folders" is one of the kinds of steps.
LEMMA FoldersMove ==
  ASSUME RecordingsInv, Folders!Next
  PROVE  Move
<1>1. CASE Folders!Connect
  BY <1>1, ConnectIsMove DEF Move
<1>2. CASE Folders!GetRecordings
  BY <1>2, ListIsMove DEF Move
<1>3. CASE \E tag \in shown : \/ Folders!DeleteRecording(tag)
                              \/ \E title \in Titles : Folders!RenameRecording(tag, title)
                              \/ Folders!SetRecordingPlayCount(tag, 1)
                              \/ \E position \in Positions : Folders!SetRecordingLastPlayedPosition(tag, position)
  BY <1>3, CommandIsMove, Zenon DEF Move
<1>4. CASE \E tag \in shown : Folders!OpenRecordedStream(tag)
  BY <1>4, OpenIsMove, Zenon DEF Move
<1>5. CASE Folders!CloseRecordedStream
  BY <1>5, CloseIsMove, Zenon DEF Move
<1>6. CASE \E tag \in shown : Folders!GetRecordingStreamProperties(tag)
  BY <1>6, PropertiesIsMove, Zenon DEF Move
<1>7. CASE Folders!Others
  BY <1>7, OthersIsMove, Zenon DEF Move
<1>8. ASSUME NEW list \in FolderCards, Folders!NewSettings(list) PROVE Move
  BY <1>8, SettingsIsMove DEF Move
<1>9. \A tag \in shown, lines \in {} : ~Folders!GetRecordingEdl(tag, lines)
  OBVIOUS
<1> QED BY <1>1, <1>2, <1>3, <1>4, <1>5, <1>6, <1>7, <1>8, <1>9, Zenon DEF Folders!Next

\* An action of the part "playing" is one of the kinds of steps.
LEMMA PlayingMove ==
  ASSUME RecordingsInv, Playing!Next
  PROVE  Move
<1>1. CASE Playing!Connect
  BY <1>1, ConnectIsMove DEF Move
<1>2. CASE Playing!GetRecordings
  BY <1>2, ListIsMove, SameActions, Zenon DEF Move
<1>3. CASE \E tag \in shown : Playing!DeleteRecording(tag) \/ Playing!SetRecordingPlayCount(tag, 1)
  <2>1. PICK tag \in shown : Folders!DeleteRecording(tag) \/ Folders!SetRecordingPlayCount(tag, 1)
    BY <1>3, SameActions, Zenon
  <2> QED BY <2>1, CommandIsMove, Zenon DEF Move
<1>4. CASE \E tag \in shown : Playing!OpenRecordedStream(tag)
  BY <1>4, OpenIsMove, SameActions, Zenon DEF Move
<1>5. CASE Playing!CloseRecordedStream
  BY <1>5, CloseIsMove, SameActions, Zenon DEF Move
<1>6. CASE \E tag \in shown : Playing!GetRecordingStreamProperties(tag)
  BY <1>6, PropertiesIsMove, SameActions, Zenon DEF Move
<1>7. CASE \E tag \in shown, lines \in EdlLines : Playing!GetRecordingEdl(tag, lines)
  BY <1>7, EdlIsMove, SameActions, Zenon DEF Move
<1>8. CASE Playing!Others
  <2>1. missed' = TRUE /\ UNCHANGED <<settings, cards, shown, selected, playing, edl>>
    BY <1>8 DEF Playing!Others
  <2>2. CASE \E program \in ToPlay : Playing!Record(program)
    <3>1. PICK program \in ToPlay : Folders!Record(program)
      BY <2>2, SameActions, Zenon
    <3> QED BY <2>1, <3>1, RecordIsMove DEF Move
  <2>3. ASSUME NEW id \in Playing!Stored, Playing!Change(id, [recordings[id] EXCEPT !.deleted = TRUE])
        PROVE  Move
    <3>1. Folders!Change(id, [recordings[id] EXCEPT !.deleted = TRUE]) /\ id \in Folders!Stored
      BY <2>3, Zenon DEF Playing!Change, Folders!Change, Playing!Stored, Folders!Stored
    <3>2. Folders!Others
      BY <1>8, <3>1, Zenon DEF Playing!Others, Folders!Others
    <3> QED BY <3>2, OthersIsMove, Zenon DEF Move
  <2> QED BY <1>8, <2>2, <2>3, Zenon DEF Playing!Others
<1>9. ASSUME NEW list \in CardLists, Playing!NewSettings(list) PROVE Move
  <2>1. Folders!NewSettings(list)
    BY <1>9, Zenon DEF Playing!NewSettings, Folders!NewSettings
  <2> QED BY <2>1, SettingsIsMove DEF Move
<1>10. \A tag \in shown : /\ \A title \in {} : ~Playing!RenameRecording(tag, title)
                          /\ \A position \in {} : ~Playing!SetRecordingLastPlayedPosition(tag, position)
  OBVIOUS
<1> QED BY <1>1, <1>2, <1>3, <1>4, <1>5, <1>6, <1>7, <1>8, <1>9, <1>10, Zenon DEF Playing!Next

\* Each of them keeps the invariant.
LEMMA MoveStep ==
  ASSUME RecordingsInv, Move
  PROVE  RecordingsInv'
BY CardsStep, SettingsStep, ListStep, ServerStep, AskStep, Zenon DEF Move

\* A step of the parts "folders" and "playing" is one of Recordings.
LEMMA StoredOnly ==
  ASSUME part \in {"folders", "playing"}, [Next]_vars
  PROVE  part' = part /\ (Folders!Next \/ Playing!Next \/ UNCHANGED stored)
BY DEF Next, vars, Others

\* In the beginning nothing is known.
LEMMA RecordingsBegin ==
  ASSUME Init
  PROVE  RecordingsInv
<1>1. /\ settings \in FolderCards \cup CardLists /\ cards = <<>> /\ recordings = <<>> /\ shown = {} /\ missed = TRUE
      /\ selected = Folders!None /\ playing = Folders!Nothing /\ edl = Folders!NoEdl
  <2>1. Folders!Init \/ Playing!Init
    BY Zenon DEF Init
  <2>2. settings \in FolderCards \/ settings \in CardLists
    BY <2>1 DEF Folders!Init, Playing!Init
  <2>3. cards = <<>> /\ recordings = <<>> /\ shown = {} /\ missed = TRUE
    BY <2>1 DEF Folders!Init, Playing!Init
  <2>4. selected = Folders!None /\ playing = Folders!Nothing /\ edl = Folders!NoEdl
    BY <2>1 DEF Folders!Init, Playing!Init, Playing!None, Playing!Nothing, Playing!NoEdl,
                       Folders!None, Folders!Nothing, Folders!NoEdl, Playing!Empty, Folders!Empty
  <2> QED BY <2>2, <2>3, <2>4
<1>2. IsCards(cards) /\ IsCards(settings)
  <2>1. <<>> \in Seq(Card) /\ DOMAIN <<>> = {}
    BY EmptySeq
  <2>2. IsCards(<<>>)
    BY <2>1, Zenon DEF IsCards
  <2> QED BY <1>1, <2>2, ListsAreCards
<1>3. StoredOK
  <2>1. recordings \in Seq({}) /\ Len(recordings) = 0 /\ DOMAIN recordings = {}
    BY <1>1, EmptySeq
  <2>2. Len(recordings) <= MaxRecordings
    BY <2>1, RecordingsAssumption
  <2> QED BY <1>2, <2>1, <2>2 DEF StoredOK
<1>4. ShownOK /\ SelectedOK /\ PlayingOK
  BY <1>1, Zenon DEF ShownOK, SelectedOK, PlayingOK, PlaysOne, CutsOne
<1> QED BY <1>3, <1>4 DEF RecordingsInv

\* The invariant of the recordings.
LEMMA RecordingsInvariant == Spec => [](part \in {"folders", "playing"} => RecordingsInv)
<1> DEFINE Inv == part \in {"folders", "playing"} => RecordingsInv
<1>1. Init => Inv
  BY RecordingsBegin
<1>2. Inv /\ [Next]_vars => Inv'
  <2> SUFFICES ASSUME Inv, [Next]_vars, part' \in {"folders", "playing"} PROVE RecordingsInv'
    OBVIOUS
  <2>1. part \in {"folders", "playing"}
    BY DEF Next, vars, Others
  <2>2. RecordingsInv /\ (Folders!Next \/ Playing!Next \/ UNCHANGED stored)
    BY <2>1, StoredOnly
  <2>3. Move
    <3>1. CASE UNCHANGED stored
      BY <2>2, <3>1, StillIsMove DEF stored, Move
    <3> QED BY <2>2, <3>1, FoldersMove, PlayingMove
  <2> QED BY <2>2, <2>3, MoveStep
<1> QED BY <1>1, <1>2, PTL DEF Spec

\* GetRecordings, SplitFilePath: whatever is recorded, renamed, deleted and set anew, Kodi's recordings
\* are the server's, each in its folders, once it has read them again: of cards that record below
\* a drive, in folders that are found in no other card's paths (RecordingsAssumption).
THEOREM RecordingsAreShown == Spec => []RecordingsAsStored
<1>1. (part \in {"folders", "playing"} => RecordingsInv) => RecordingsAsStored
  <2> SUFFICES ASSUME part \in {"folders", "playing"}, RecordingsInv PROVE RecordingsAsStored
    BY Zenon DEF RecordingsAsStored
  <2>1. Folders!RecordingsAsStored
    BY ListIsStored
  <2>2. Playing!RecordingsAsStored
    BY <2>1, SameOperators DEF Playing!RecordingsAsStored, Folders!RecordingsAsStored
  <2> QED BY <2>1, <2>2 DEF RecordingsAsStored
<1> QED BY <1>1, RecordingsInvariant, PTL

\* GetRecordingInfo, TranslatePath: what plays and where its cuts are read is of the recording asked
\* for, on a share that its card has or has had, if no card's folder is found in another's paths
\* (RecordingsAssumption).
THEOREM AskedIsPlayed == Spec => []OfTheOneAsked
<1>1. (part \in {"folders", "playing"} => RecordingsInv) => OfTheOneAsked
  <2> SUFFICES ASSUME RecordingsInv PROVE Playing!OfTheOneAsked
    BY Zenon DEF OfTheOneAsked
  <2>1. PlaysOne(playing) /\ CutsOne(edl)
    BY DEF RecordingsInv, PlayingOK
  <2>2. Playing!Nothing = Folders!Nothing /\ Playing!NoEdl = Folders!NoEdl /\ Playing!Empty = <<>>
    BY DEF Playing!Nothing, Folders!Nothing, Playing!NoEdl, Folders!NoEdl, Playing!Empty, Folders!Empty
  <2>3. \A r : Playing!NamesOf(r) = Folders!NamesOf(r)
    BY SameOperators
  <2>4. playing # Playing!Nothing /\ playing.file # Playing!Empty
          => playing.file \in Playing!NamesOf(recordings[playing.asked]) \cup {recordings[playing.asked].stream}
    BY <2>1, <2>2, <2>3 DEF PlaysOne
  <2>5. edl # Playing!NoEdl => edl.file \in Playing!NamesOf(recordings[edl.asked])
    BY <2>1, <2>2, <2>3 DEF CutsOne
  <2>6. edl # Playing!NoEdl =>
          \A i \in DOMAIN edl.entries : 0 <= edl.entries[i].start /\ edl.entries[i].start <= edl.entries[i].stop
    BY <2>1, <2>2 DEF CutsOne
  <2> QED BY <2>4, <2>5, <2>6, Zenon DEF Playing!OfTheOneAsked
<1> QED BY <1>1, RecordingsInvariant, PTL
=============================================================================
