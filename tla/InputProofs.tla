------------------------------ MODULE InputProofs ------------------------------
(***************************************************************************)
(* What holds of the RTSP session, of the event loop and of the section     *)
(* decoder, for every number of sockets, members, tasks and sections.       *)
(* DataPathProofs has the other stages that the data goes through.          *)
(***************************************************************************)
EXTENDS Input, TLAPS, WellFoundedInduction, SequenceTheorems, FiniteSetTheorems

-----------------------------------------------------------------------------

\* A set of numbers has a least one.
LEMMA LeastOf ==
  ASSUME NEW T, T \subseteq Nat, T # {}
  PROVE  \E x \in T : \A y \in T : x <= y
<1> DEFINE less == {pair \in Nat \X Nat : pair[1] < pair[2]}
<1>1. IsWellFoundedOn(less, Nat)
  BY NatLessThanWellFounded DEF OpToRel
<1>2. PICK x \in T : \A y \in T : <<y, x>> \notin less
  <2> HIDE DEF less
  <2> QED BY <1>1, WFMin
<1>3. ASSUME NEW y \in T PROVE x <= y
  <2>1. x \in Nat /\ y \in Nat
    OBVIOUS
  <2>2. ~(y < x)
    BY <1>2, <2>1
  <2> QED BY <2>1, <2>2
<1> QED BY <1>3

\* A sequence with an element put in at a place, and without the one at a place (InsertAt and
\* RemoveAt of SequencesExt).
With(q, slot, e) == SubSeq(q, 1, slot - 1) \o <<e>> \o SubSeq(q, slot, Len(q))
Without(q, k) == SubSeq(q, 1, k - 1) \o SubSeq(q, k + 1, Len(q))

LEMMA PutIn ==
  ASSUME NEW S, NEW q \in Seq(S), NEW slot \in 1 .. Len(q) + 1, NEW e \in S, NEW r, r = With(q, slot, e)
  PROVE  /\ r \in Seq(S) /\ Len(r) = Len(q) + 1
         /\ \A i \in 1 .. Len(q) + 1 : r[i] = IF i < slot THEN q[i] ELSE IF i = slot THEN e ELSE q[i - 1]
<1> DEFINE n == Len(q)
           to == slot - 1
           one == <<e>>
           first == SubSeq(q, 1, to)
           rest == SubSeq(q, slot, n)
           two == first \o one
           all == two \o rest
           m == (n - slot) + 1
<1>1. n \in Nat /\ slot \in Nat /\ slot >= 1 /\ slot <= n + 1 /\ to \in Int /\ n \in Int /\ slot \in Int
  OBVIOUS
<1>2. one \in Seq(S) /\ Len(one) = 1 /\ one[1] = e
  OBVIOUS
<1>3. first \in Seq(S) /\ Len(first) = to /\ \A i \in 1 .. to : first[i] = q[i]
  <2>1. \A i \in 1 .. to : q[i] \in S
    OBVIOUS
  <2> HIDE DEF to
  <2>2. /\ first \in Seq(S) /\ Len(first) = IF 1 <= to THEN to - 1 + 1 ELSE 0
        /\ \A i \in 1 .. to - 1 + 1 : first[i] = q[1 + i - 1]
    BY <1>1, <2>1, SubSeqProperties
  <2>3. to \in Nat /\ to - 1 + 1 = to /\ \A i \in 1 .. to : 1 + i - 1 = i
    BY <1>1 DEF to
  <2> HIDE DEF first
  <2>4. Len(first) = to
    BY <2>2, <2>3
  <2>5. \A i \in 1 .. to : first[i] = q[i]
    BY <2>2, <2>3
  <2> QED BY <2>2, <2>4, <2>5
<1>4. rest \in Seq(S) /\ Len(rest) = m /\ \A i \in 1 .. m : rest[i] = q[(slot + i) - 1]
  <2>1. \A i \in slot .. n : q[i] \in S
    OBVIOUS
  <2> HIDE DEF n
  <2>2. /\ rest \in Seq(S) /\ Len(rest) = IF slot <= n THEN n - slot + 1 ELSE 0
        /\ \A i \in 1 .. n - slot + 1 : rest[i] = q[slot + i - 1]
    BY <1>1, <2>1, SubSeqProperties
  <2>3. n - slot + 1 = m /\ (~(slot <= n) => m = 0) /\ \A i \in 1 .. m : slot + i - 1 = (slot + i) - 1
    BY <1>1
  <2> HIDE DEF rest, m
  <2>4. Len(rest) = m
    BY <2>2, <2>3
  <2>5. \A i \in 1 .. m : rest[i] = q[(slot + i) - 1]
    BY <2>2, <2>3
  <2> QED BY <2>2, <2>4, <2>5
<1> HIDE DEF one, first, rest
<1>5. two \in Seq(S) /\ Len(two) = slot /\ \A i \in 1 .. slot : two[i] = IF i < slot THEN q[i] ELSE e
  <2>1. /\ two \in Seq(S) /\ Len(two) = Len(first) + Len(one)
        /\ \A i \in 1 .. Len(first) + Len(one) : two[i] = IF i <= Len(first) THEN first[i] ELSE one[i - Len(first)]
    BY <1>2, <1>3, ConcatProperties
  <2>2. Len(first) + Len(one) = slot
    BY <1>1, <1>2, <1>3
  <2> HIDE DEF two
  <2>3. ASSUME NEW i \in 1 .. slot PROVE two[i] = IF i < slot THEN q[i] ELSE e
    <3>1. CASE i < slot
      <4>1. i \in 1 .. to /\ i <= Len(first)
        BY <1>1, <1>3, <3>1
      <4> QED BY <1>3, <2>1, <2>2, <3>1, <4>1
    <3>2. CASE ~(i < slot)
      <4>1. ~(i <= Len(first)) /\ i - Len(first) = 1
        BY <1>1, <1>3, <3>2
      <4> QED BY <1>2, <2>1, <2>2, <3>2, <4>1
    <3> QED BY <3>1, <3>2
  <2> QED BY <2>1, <2>2, <2>3
<1> HIDE DEF two
<1>6. /\ all \in Seq(S) /\ Len(all) = n + 1
      /\ \A i \in 1 .. n + 1 : all[i] = IF i < slot THEN q[i] ELSE IF i = slot THEN e ELSE q[i - 1]
  <2>1. /\ all \in Seq(S) /\ Len(all) = Len(two) + Len(rest)
        /\ \A i \in 1 .. Len(two) + Len(rest) : all[i] = IF i <= Len(two) THEN two[i] ELSE rest[i - Len(two)]
    BY <1>4, <1>5, ConcatProperties
  <2>2. Len(two) + Len(rest) = n + 1
    BY <1>1, <1>4, <1>5
  <2> HIDE DEF all, n
  <2>3. ASSUME NEW i \in 1 .. n + 1
        PROVE  all[i] = IF i < slot THEN q[i] ELSE IF i = slot THEN e ELSE q[i - 1]
    <3>1. CASE i <= slot
      <4>1. i \in 1 .. slot /\ i <= Len(two)
        BY <1>1, <1>5, <3>1
      <4>2. all[i] = two[i]
        BY <2>1, <2>2, <4>1
      <4> QED BY <1>1, <1>5, <3>1, <4>1, <4>2
    <3>2. CASE ~(i <= slot)
      <4> DEFINE k == i - slot
      <4>1. ~(i <= Len(two)) /\ i - Len(two) = k /\ k \in 1 .. m /\ (slot + k) - 1 = i - 1 /\ ~(i < slot) /\ i # slot
        BY <1>1, <1>5, <3>2
      <4> HIDE DEF k, m
      <4>2. all[i] = rest[k]
        BY <2>1, <2>2, <4>1
      <4> QED BY <1>4, <4>1, <4>2
    <3> QED BY <3>1, <3>2
  <2> QED BY <2>1, <2>2, <2>3
<1>7. r = all
  BY DEF all, two, first, rest, one, n, to, With
<1> QED BY <1>6, <1>7

LEMMA TakenOut ==
  ASSUME NEW S, NEW q \in Seq(S), NEW k \in 1 .. Len(q), NEW r, r = Without(q, k)
  PROVE  /\ r \in Seq(S) /\ Len(r) = Len(q) - 1
         /\ \A i \in 1 .. Len(q) - 1 : r[i] = IF i <= k - 1 THEN q[i] ELSE q[i + 1]
<1> DEFINE n == Len(q)
           s == SubSeq(q, 1, k - 1)
           t == SubSeq(q, k + 1, n)
           all == s \o t
<1>1. n \in Nat /\ k \in 1 .. n
  OBVIOUS
<1>2. /\ s \in Seq(S) /\ Len(s) = k - 1 /\ \A i \in 1 .. k - 1 : s[i] = q[i]
  <2>1. \A i \in 1 .. k - 1 : q[i] \in S
    BY <1>1
  <2>2. /\ s \in Seq(S) /\ Len(s) = (IF 1 <= k - 1 THEN (k - 1) - 1 + 1 ELSE 0)
        /\ \A i \in 1 .. (k - 1) - 1 + 1 : s[i] = q[1 + i - 1]
    BY <1>1, <2>1, SubSeqProperties
  <2>3. \A i \in 1 .. k - 1 : 1 + i - 1 = i /\ i \in 1 .. (k - 1) - 1 + 1
    BY <1>1
  <2>4. Len(s) = k - 1
    BY <1>1, <2>2
  <2>5. \A i \in 1 .. k - 1 : s[i] = q[i]
    BY <2>2, <2>3
  <2> QED BY <2>2, <2>4, <2>5
<1>3. /\ t \in Seq(S) /\ Len(t) = n - k /\ \A i \in 1 .. n - k : t[i] = q[k + i]
  <2>1. \A i \in k + 1 .. n : q[i] \in S
    BY <1>1
  <2>2. /\ t \in Seq(S) /\ Len(t) = (IF k + 1 <= n THEN n - (k + 1) + 1 ELSE 0)
        /\ \A i \in 1 .. n - (k + 1) + 1 : t[i] = q[(k + 1) + i - 1]
    BY <1>1, <2>1, SubSeqProperties
  <2>3. \A i \in 1 .. n - k : (k + 1) + i - 1 = k + i /\ i \in 1 .. n - (k + 1) + 1
    BY <1>1
  <2> HIDE DEF t, n
  <2> QED BY <1>1, <2>2, <2>3
<1>4. r = all
  BY DEF Without
<1> HIDE DEF s, t, n
<1>5. /\ all \in Seq(S) /\ Len(all) = Len(s) + Len(t)
      /\ \A i \in 1 .. Len(s) + Len(t) : all[i] = IF i <= Len(s) THEN s[i] ELSE t[i - Len(s)]
  BY <1>2, <1>3, ConcatProperties
<1> HIDE DEF all
<1>6. Len(s) = k - 1 /\ Len(t) = n - k /\ Len(s) + Len(t) = n - 1
  BY <1>1, <1>2, <1>3
<1>7. ASSUME NEW i \in 1 .. n - 1 PROVE all[i] = IF i <= k - 1 THEN q[i] ELSE q[i + 1]
  <2>1. CASE i <= k - 1
    BY <1>1, <1>2, <1>5, <1>6, <2>1
  <2>2. CASE ~(i <= k - 1)
    <3>1. i - (k - 1) \in 1 .. n - k /\ k + (i - (k - 1)) = i + 1
      BY <1>1, <2>2
    <3> QED BY <1>3, <1>5, <1>6, <2>2, <3>1
  <2> QED BY <2>1, <2>2
<1> QED BY <1>4, <1>5, <1>6, <1>7 DEF n

\* What FoldLeft computes over a sequence of n elements: for every set S of places, F of what there
\* is without the greatest one, and that one.  Of F it takes what stays in A.
Greatest(S) == CHOOSE x \in S : \A y \in S : x >= y

LEMMA GreatestIs ==
  ASSUME NEW k \in Int, NEW S, S \subseteq Int, k \in S, \A y \in S : y <= k
  PROVE  Greatest(S) = k
<1>1. \E z \in S : \A y \in S : z >= y
  OBVIOUS
<1>2. Greatest(S) \in S /\ \A y \in S : Greatest(S) >= y
  BY <1>1 DEF Greatest
<1>3. Greatest(S) <= k /\ Greatest(S) >= k /\ Greatest(S) \in Int
  BY <1>2
<1> QED BY <1>3

FoldOf(n, A, base, F, h) ==
  /\ h \in [SUBSET (1 .. n) -> A]
  /\ \A S \in SUBSET (1 .. n) :
       /\ S # {} => Greatest(S) \in 1 .. n
       /\ h[S] = IF S = {} THEN base ELSE F[<<h[S \ {Greatest(S)}], Greatest(S)>>]

LEMMA FoldExists ==
  ASSUME NEW n \in Nat, NEW A, NEW base \in A, NEW F \in [A \X (1 .. n) -> A]
  PROVE  \E h : FoldOf(n, A, base, F, h)
<1> DEFINE Bad == {k \in 0 .. n : ~\E h : FoldOf(k, A, base, F, h)}
<1> SUFFICES ASSUME n \in Bad PROVE FALSE
  OBVIOUS
<1>1. PICK k \in Bad : \A j \in Bad : k <= j
  <2>1. Bad \subseteq Nat /\ Bad # {}
    OBVIOUS
  <2> HIDE DEF Bad
  <2> QED BY <2>1, LeastOf
<1>2. k \in Nat /\ k <= n /\ ~\E h : FoldOf(k, A, base, F, h)
  OBVIOUS
<1>3. CASE k = 0
  <2> DEFINE g == [S \in SUBSET (1 .. k) |-> base]
  <2>1. \A S \in SUBSET (1 .. k) : S = {}
    <3>1. 1 .. k = {}
      BY <1>3
    <3> QED BY <3>1
  <2>2. FoldOf(k, A, base, F, g)
    BY <2>1 DEF FoldOf
  <2> QED BY <1>2, <2>2
<1>4. CASE k # 0
  <2>1. k - 1 \in Nat /\ k - 1 \notin Bad /\ k - 1 \in 0 .. n
    <3>1. k - 1 \in Nat /\ ~(k <= k - 1) /\ k - 1 \in 0 .. n
      BY <1>2, <1>4
    <3> HIDE DEF Bad
    <3> QED BY <1>1, <3>1
  <2>2. PICK h : FoldOf(k - 1, A, base, F, h)
    BY <2>1
  <2> DEFINE Below == SUBSET (1 .. k - 1)
             All == SUBSET (1 .. k)
             g == [S \in All |-> IF k \in S THEN F[<<h[S \ {k}], k>>] ELSE h[S]]
  <2>3. /\ h \in [Below -> A]
        /\ \A S \in Below : /\ S # {} => Greatest(S) \in 1 .. k - 1
                            /\ h[S] = IF S = {} THEN base ELSE F[<<h[S \ {Greatest(S)}], Greatest(S)>>]
    BY <2>2 DEF FoldOf
  <2>4. ASSUME NEW S \in All, k \in S PROVE Greatest(S) = k
    <3>1. S \subseteq Int /\ \A y \in S : y <= k
      BY <1>2, <2>4
    <3>2. k \in Int
      BY <1>2
    <3> QED BY <2>4, <3>1, <3>2, GreatestIs
  <2>5. ASSUME NEW S \in All PROVE S \ {k} \in Below /\ (k \notin S => S \in Below)
    BY <1>2, <1>4
  <2>6. \A S \in Below : S \in All /\ k \notin S
    BY <1>2, <1>4
  <2>7. k \in 1 .. n /\ \A i \in 1 .. k - 1 : i \in 1 .. k
    BY <1>2, <1>4
  <2>8. \A S \in All : g[S] = IF k \in S THEN F[<<h[S \ {k}], k>>] ELSE h[S]
    <3> HIDE DEF All
    <3> QED OBVIOUS
  <2>9. g \in [All -> A]
    <3>1. ASSUME NEW S \in All PROVE (IF k \in S THEN F[<<h[S \ {k}], k>>] ELSE h[S]) \in A
      <4> HIDE DEF All, Below, g
      <4>1. ASSUME k \in S PROVE F[<<h[S \ {k}], k>>] \in A
        <5>1. h[S \ {k}] \in A
          BY <2>3, <2>5
        <5> QED BY <2>7, <5>1
      <4>2. ASSUME k \notin S PROVE h[S] \in A
        BY <2>3, <2>5, <4>2
      <4> QED BY <4>1, <4>2
    <3> HIDE DEF All
    <3> QED BY <3>1
  <2> HIDE DEF Below, g, All
  <2>10. ASSUME NEW S \in All
         PROVE  /\ S # {} => Greatest(S) \in 1 .. k
                /\ g[S] = IF S = {} THEN base ELSE F[<<g[S \ {Greatest(S)}], Greatest(S)>>]
    <3>1. CASE k \in S
      <4>1. S \ {k} \in Below /\ S # {} /\ Greatest(S) = k
        BY <2>4, <2>5, <3>1
      <4>2. g[S \ {k}] = h[S \ {k}]
        BY <2>6, <2>8, <4>1
      <4>3. k \in 1 .. k
        BY <2>7
      <4> QED BY <2>8, <3>1, <4>1, <4>2, <4>3
    <3>2. CASE k \notin S
      <4>1. S \in Below
        BY <2>5, <3>2
      <4>2. g[S] = h[S]
        BY <2>8, <3>2
      <4>3. S \ {Greatest(S)} \in Below
        BY <4>1 DEF Below
      <4>4. g[S \ {Greatest(S)}] = h[S \ {Greatest(S)}]
        BY <2>6, <2>8, <4>3
      <4> QED BY <2>3, <2>7, <4>1, <4>2, <4>4
    <3> QED BY <3>1, <3>2
  <2>11. FoldOf(k, A, base, F, g)
    BY <2>9, <2>10 DEF FoldOf, All
  <2> QED BY <1>2, <2>11
<1> QED BY <1>3, <1>4

\* What of the sets 1 .. k is in A stays there to the end.
LEMMA FoldEnds ==
  ASSUME NEW n \in Nat, NEW A, NEW F \in [A \X (1 .. n) -> A], NEW g, g[{}] \in A,
         \A S \in SUBSET (1 .. n) :
           S # {} /\ g[S \ {Greatest(S)}] \in A => g[S] = F[<<g[S \ {Greatest(S)}], Greatest(S)>>]
  PROVE  g[1 .. n] \in A
<1> DEFINE Bad == {k \in 0 .. n : g[1 .. k] \notin A}
<1> SUFFICES ASSUME n \in Bad PROVE FALSE
  OBVIOUS
<1>1. PICK k \in Bad : \A j \in Bad : k <= j
  <2>1. Bad \subseteq Nat /\ Bad # {}
    OBVIOUS
  <2> HIDE DEF Bad
  <2> QED BY <2>1, LeastOf
<1>2. k \in Nat /\ k <= n /\ g[1 .. k] \notin A
  OBVIOUS
<1>3. CASE k = 0
  <2>1. 1 .. k = {}
    BY <1>3
  <2> QED BY <1>2, <2>1
<1>4. CASE k # 0
  <2> DEFINE to == 1 .. k
             before == 1 .. k - 1
  <2>1. k - 1 \in 0 .. n /\ k - 1 \notin Bad
    <3>1. k - 1 \in 0 .. n /\ ~(k <= k - 1)
      BY <1>2, <1>4
    <3> HIDE DEF Bad
    <3> QED BY <1>1, <3>1
  <2>2. g[before] \in A
    BY <2>1
  <2>3. Greatest(to) = k
    <3>1. to \subseteq Int /\ k \in to /\ \A y \in to : y <= k
      BY <1>2, <1>4
    <3>2. k \in Int
      BY <1>2
    <3> HIDE DEF to
    <3> QED BY <3>1, <3>2, GreatestIs
  <2>4. to \in SUBSET (1 .. n) /\ to # {}
    <3>1. (\A x : x \in to => x \in 1 .. n) /\ k \in to
      BY <1>2, <1>4
    <3> HIDE DEF to
    <3> QED BY <3>1
  <2>5. to \ {k} = before
    <3>1. \A x : x \in (1 .. k) \ {k} <=> x \in 1 .. k - 1
      BY <1>2
    <3> QED BY <3>1, Zenon
  <2>6. k \in 1 .. n
    BY <1>2, <1>4
  <2> HIDE DEF to, before
  <2>7. g[to] = F[<<g[before], k>>]
    BY <2>2, <2>3, <2>4, <2>5
  <2>8. g[to] \in A
    BY <2>2, <2>6, <2>7
  <2> QED BY <1>2, <2>8 DEF to
<1> QED BY <1>3, <1>4

-----------------------------------------------------------------------------
(* Rtcp                                                                    *)

Longest == Reports!Max(Intervals \cup FirstIntervals)

\* As long as nobody has left, the time of the next report is within the longest interval from the
\* last one that was really sent.
TimerInv ==
  /\ byes \in Nat
  /\ byes = 0 =>
       elapsed \in Nat /\ toGo \in Nat /\ silence = elapsed /\ elapsed + toGo <= Longest

\* One who has reported within the period was last heard with that report.
MemberInv ==
  /\ fOutgoingReportCount \in Nat \ {0}
  /\ members \in [SSRC -> Nat] /\ spoke \in [SSRC -> Nat]
  /\ \A s \in SSRC :
       spoke[s] # 0 /\ fOutgoingReportCount - spoke[s] <= membershipReapPeriod
         => members[s] = spoke[s] /\ s \in sources

LEMMA LongestIsBound ==
  /\ Longest \in Nat
  /\ \A interval \in Intervals \cup FirstIntervals : interval <= Longest
<1>1. \E longest \in Intervals \cup FirstIntervals :
        \A interval \in Intervals \cup FirstIntervals : longest >= interval
  BY RtcpAssumption
<1>2. Longest \in Intervals \cup FirstIntervals
       /\ \A interval \in Intervals \cup FirstIntervals : Longest >= interval
  BY <1>1 DEF Longest, Reports!Max
<1> QED BY <1>2, RtcpAssumption

\* A step of the part "reports" is one of Rtcp.
LEMMA ReportsOnly ==
  ASSUME part = "reports", [InputNext]_inputVars
  PROVE  part' = "reports" /\ (Reports!Next \/ UNCHANGED reports)
BY DEF InputNext, inputVars, Others

LEMMA TimerStep ==
  ASSUME TimerInv, Reports!Next \/ UNCHANGED reports
  PROVE  TimerInv'
<1> USE DEF TimerInv, Reports!timer
<1>1. CASE Reports!OnExpire
  <2>1. PICK t \in Reports!rtcp_interval, next \in Reports!rtcp_interval :
          IF Reports!Wait(t) <= 0
          THEN elapsed' = 0 /\ toGo' = next /\ silence' = 0
          ELSE toGo' = Reports!Wait(t) /\ UNCHANGED <<elapsed, silence>>
    BY <1>1, Zenon DEF Reports!OnExpire, Reports!SendReport
  <2>2. t \in Nat /\ next \in Nat /\ t <= Longest /\ next <= Longest
    BY LongestIsBound, RtcpAssumption DEF Reports!rtcp_interval
  <2>3. byes' = byes
    BY <1>1 DEF Reports!OnExpire
  <2> QED BY <2>1, <2>2, <2>3, LongestIsBound DEF Reports!Wait
<1>2. CASE Reports!Tick
  BY <1>2, LongestIsBound DEF Reports!Tick
<1>3. ASSUME NEW s \in SSRC, Reports!OnReport(s) PROVE TimerInv'
  BY <1>3 DEF Reports!OnReport
<1>4. ASSUME NEW s \in SSRC, Reports!OnBye(s) PROVE TimerInv'
  BY <1>4 DEF Reports!OnBye
<1>5. ASSUME NEW s \in SSRC, Reports!OnRtp(s) PROVE TimerInv'
  BY <1>5 DEF Reports!OnRtp
<1>6. CASE UNCHANGED reports
  BY <1>6 DEF reports
<1> QED BY <1>1, <1>2, <1>3, <1>4, <1>5, <1>6 DEF Reports!Next

LEMMA MemberStep ==
  ASSUME MemberInv, Reports!Next \/ UNCHANGED reports
  PROVE  MemberInv'
<1> USE DEF MemberInv, Reports!timer
<1>1. CASE Reports!OnExpire
  <2>1. CASE Reports!SendReport
    BY <1>1, <2>1, RtcpAssumption
       DEF Reports!OnExpire, Reports!SendReport, Reports!Old, Reports!Members, Reports!NotMember
  <2>2. CASE UNCHANGED <<fOutgoingReportCount, members, sources>>
    BY <1>1, <2>2 DEF Reports!OnExpire
  <2> QED BY <1>1, <2>1, <2>2 DEF Reports!OnExpire
<1>2. CASE Reports!Tick
  BY <1>2 DEF Reports!Tick
<1>3. ASSUME NEW s \in SSRC, Reports!OnReport(s) PROVE MemberInv'
  BY <1>3 DEF Reports!OnReport
<1>4. ASSUME NEW s \in SSRC, Reports!OnBye(s) PROVE MemberInv'
  BY <1>4 DEF Reports!OnBye, Reports!NotMember
<1>5. ASSUME NEW s \in SSRC, Reports!OnRtp(s) PROVE MemberInv'
  BY <1>5 DEF Reports!OnRtp
<1>6. CASE UNCHANGED reports
  BY <1>6 DEF reports
<1> QED BY <1>1, <1>2, <1>3, <1>4, <1>5, <1>6 DEF Reports!Next

\* The server hears of the client within every longest interval, however often the timer is
\* considered again, and no member that reports is forgotten with its statistics.
THEOREM ReportersStay == InputSpec => []NobodyIsForgotten
<1> DEFINE Inv == part = "reports" => TimerInv /\ MemberInv
<1>1. InputInit => Inv
  <2> SUFFICES ASSUME InputInit, part = "reports" PROVE TimerInv /\ MemberInv
    OBVIOUS
  <2>1. Reports!Init
    BY DEF InputInit
  <2>2. toGo \in Nat /\ toGo <= Longest
    BY <2>1, LongestIsBound, RtcpAssumption DEF Reports!Init
  <2> QED BY <2>1, <2>2, LongestIsBound DEF Reports!Init, Reports!NotMember, TimerInv, MemberInv
<1>2. Inv /\ [InputNext]_inputVars => Inv'
  <2> SUFFICES ASSUME Inv, [InputNext]_inputVars, part' = "reports" PROVE (TimerInv /\ MemberInv)'
    OBVIOUS
  <2>1. part = "reports"
    BY DEF InputNext, inputVars, Others
  <2> QED BY <2>1, ReportsOnly, TimerStep, MemberStep
<1>3. Inv => NobodyIsForgotten
  <2> SUFFICES ASSUME TimerInv, MemberInv PROVE Reports!ReportsInTime /\ Reports!ReportersAreKept
    BY DEF NobodyIsForgotten, Reports!NobodyIsForgotten
  <2>1. Reports!ReportsInTime
    BY LongestIsBound DEF TimerInv, Reports!ReportsInTime, Longest
  <2>2. Reports!ReportersAreKept
    BY RtcpAssumption DEF MemberInv, Reports!ReportersAreKept, Reports!Members, Reports!NotMember
  <2> QED BY <2>1, <2>2
<1> QED BY <1>1, <1>2, <1>3, PTL DEF InputSpec

-----------------------------------------------------------------------------
(* RtspRequests                                                            *)

Asked == [tag : {"DESCRIBE", "SETUP", "PLAY", "PAUSE", "TEARDOWN"}, cseq : 1 .. MaxRequests]
Item == {Requests!Body} \cup
        [cseq : 1 .. MaxRequests, code : {200, 301, 404}, session : {Requests!None, "a", "b"}]

\* The last that comes on the connection has no body.
NoBodyLast ==
  /\ unanswered # <<>> => unanswered[Len(unanswered)].tag \notin WithBody
  /\ unanswered = <<>> /\ wire # <<>> => wire[Len(wire)] # Requests!Body

\* A body is behind its answer: where nothing is outstanding any more it does not stay alone,
\* but for that of a SETUP that has been refused.
NoBodyAlone ==
  unanswered = <<>> /\ wire # <<>> =>
    wire[Len(wire)].cseq > 0 \/ (Len(wire) > 1 /\ wire[Len(wire) - 1].cseq > 0)

\* What the result of an undisturbed request will be.
Says(answer) ==
  (answer.code = 200 /\ (call.tag = "SETUP" => answer.session # Requests!None)) <=> codes[call.cseq] = 200

\* Nothing but the answer to an undisturbed request is to come.
OwnAnswer ==
  \/ wire = <<>> /\ unanswered = <<[tag |-> call.tag, cseq |-> call.cseq]>>
  \/ /\ unanswered = <<>>
     /\ wire = <<wire[1]>> \/ (wire = <<wire[1], Requests!Body>> /\ call.tag \in WithBody)
     /\ wire[1].cseq = call.cseq /\ Says(wire[1])

RequestsType ==
  /\ fCSeq \in 0 .. MaxRequests
  /\ unanswered \in Seq(Asked) /\ wire \in Seq(Item)
  /\ \A i \in DOMAIN unanswered : unanswered[i].cseq <= fCSeq
  /\ codes \in [1 .. MaxRequests -> {0, 200, 301, 404}]
  /\ ~Requests!Idle =>
       /\ call.tag \in {"DESCRIBE", "SETUP", "PLAY", "PAUSE", "TEARDOWN"}
       /\ call.cseq \in 1 .. fCSeq /\ call.undisturbed \in BOOLEAN

\* Which requests there are at which stage; before the first one the connection is silent.
StageInv ==
  /\ stage \in {Requests!None, "described", "ready", "playing", "paused"}
  /\ ~Requests!Idle =>
       /\ call.tag = "DESCRIBE" <=> stage = Requests!None
       /\ call.tag = "SETUP" <=> stage = "described"
  /\ Requests!Idle /\ stage = Requests!None => wire = <<>> /\ unanswered = <<>>

WireInv ==
  /\ stage = "playing" \/ (~Requests!Idle /\ call.tag \notin {"DESCRIBE", "SETUP"}) => NoBodyLast
  /\ ~(Requests!Idle /\ Requests!BodyMayBeLeft) => NoBodyAlone

ResultInv ==
  /\ ~Requests!Idle /\ call.undisturbed => OwnAnswer
  /\ result.undisturbed /\ result.outcome \in {"done", "refused"} =>
       /\ result.cseq \in 1 .. fCSeq
       /\ \A i \in DOMAIN unanswered : unanswered[i].cseq # result.cseq
       /\ result.outcome = "done" <=> codes[result.cseq] = 200

RequestsInv == RequestsType /\ StageInv /\ WireInv /\ ResultInv

LEMMA RequestsOnly ==
  ASSUME part = "requests", [InputNext]_inputVars
  PROVE  part' = "requests" /\ (Requests!Next \/ UNCHANGED requests)
BY DEF InputNext, inputVars, Others

\* What getResponse1 finds is an answer, and none comes before it.
LEMMA FirstAnswerIs ==
  ASSUME wire \in Seq(Item), Requests!AnswersIn(wire) # {}
  PROVE  /\ Requests!FirstAnswer \in 1 .. Len(wire) /\ wire[Requests!FirstAnswer].cseq > 0
         /\ \A j \in 1 .. Len(wire) : wire[j].cseq > 0 => Requests!FirstAnswer <= j
<1>1. /\ Requests!AnswersIn(wire) = {i \in 1 .. Len(wire) : wire[i].cseq > 0}
      /\ Requests!AnswersIn(wire) \subseteq Nat
  BY DEF Requests!AnswersIn
<1>2. \E i \in Requests!AnswersIn(wire) : \A j \in Requests!AnswersIn(wire) : i <= j
  BY <1>1, LeastOf
<1>3. /\ Requests!FirstAnswer \in Requests!AnswersIn(wire)
      /\ \A j \in Requests!AnswersIn(wire) : Requests!FirstAnswer <= j
  BY <1>2 DEF Requests!FirstAnswer
<1> QED BY <1>1, <1>3

\* What is on the wire is an answer or a body.
LEMMA AnswerOrBody ==
  ASSUME wire \in Seq(Item), NEW i \in 1 .. Len(wire)
  PROVE  /\ wire[i] \in Item
         /\ wire[i] = Requests!Body <=> ~(wire[i].cseq > 0)
         /\ wire[i].cseq > 0 => wire[i].cseq \in 1 .. MaxRequests /\ wire[i].code \in {200, 301, 404}
<1>1. wire[i] \in Item
  OBVIOUS
<1> QED BY <1>1, RequestsAssumption DEF Item, Requests!Body

\* What remains after the first bytes.
LEMMA Remains ==
  ASSUME wire \in Seq(Item), NEW n \in 1 .. Len(wire) + 2
  PROVE  /\ Requests!From(n) \in Seq(Item)
         /\ n > Len(wire) => Requests!From(n) = <<>>
         /\ n <= Len(wire) =>
              /\ Requests!From(n) # <<>> /\ Len(Requests!From(n)) = Len(wire) - n + 1
              /\ \A i \in 1 .. Len(wire) - n + 1 : Requests!From(n)[i] = wire[n + i - 1]
<1>1. \A i \in n .. Len(wire) : wire[i] \in Item
  OBVIOUS
<1>2. n \in Int /\ Len(wire) \in Int
  OBVIOUS
<1>3. /\ SubSeq(wire, n, Len(wire)) \in Seq(Item)
      /\ Len(SubSeq(wire, n, Len(wire))) = IF n <= Len(wire) THEN Len(wire) - n + 1 ELSE 0
      /\ \A i \in 1 .. Len(wire) - n + 1 : SubSeq(wire, n, Len(wire))[i] = wire[n + i - 1]
  BY <1>1, <1>2, SubSeqProperties
<1> DEFINE rest == SubSeq(wire, n, Len(wire))
<1> HIDE DEF rest
<1>4. rest \in Seq(Item)
  BY <1>3 DEF rest
<1>5. Len(rest) = 0 <=> rest = <<>>
  BY <1>4, EmptySeq
<1>6. Len(rest) = IF n <= Len(wire) THEN Len(wire) - n + 1 ELSE 0
  BY <1>3 DEF rest
<1>7. \A i \in 1 .. Len(wire) - n + 1 : rest[i] = wire[n + i - 1]
  BY <1>3 DEF rest
<1>8. Requests!From(n) = rest
  BY DEF Requests!From, rest
<1> QED BY <1>2, <1>4, <1>5, <1>6, <1>7, <1>8

\* An undisturbed request has nothing but its own answer to come.
LEMMA NothingToCome ==
  ASSUME RequestsType, NoBodyAlone, unanswered = <<>>, Requests!AnswersIn(wire) = {}
  PROVE  wire = <<>>
<1> SUFFICES ASSUME wire # <<>> PROVE FALSE
  OBVIOUS
<1>1. wire \in Seq(Item) /\ Len(wire) \in Nat \ {0}
  BY DEF RequestsType
<1>2. \A i \in 1 .. Len(wire) : ~(wire[i].cseq > 0)
  BY <1>1 DEF Requests!AnswersIn
<1> QED BY <1>1, <1>2 DEF NoBodyAlone

-----------------------------------------------------------------------------

LEMMA SentStep ==
  ASSUME RequestsInv, NEW tag \in {"DESCRIBE", "SETUP", "PLAY", "PAUSE", "TEARDOWN"},
         NEW before, NEW undisturbed \in BOOLEAN, Requests!Sent(tag, before, undisturbed),
         \/ /\ before = unanswered /\ wire' = wire
            /\ undisturbed => before = <<>> /\ Requests!AnswersIn(wire) = {} /\ ~Requests!BodyMayBeLeft
         \/ before = <<>> /\ wire' = <<>>,
         UNCHANGED <<stage, left, codes, result>>,
         tag = "DESCRIBE" <=> stage = Requests!None, tag = "SETUP" <=> stage = "described"
  PROVE  RequestsInv'
<1> DEFINE new == [tag |-> tag, cseq |-> fCSeq + 1]
<1>1. RequestsType /\ StageInv /\ WireInv /\ ResultInv
  BY DEF RequestsInv
<1>2. fCSeq \in Nat /\ fCSeq < MaxRequests /\ fCSeq' = fCSeq + 1 /\ MaxRequests \in Nat
  BY <1>1, RequestsAssumption DEF Requests!Sent, RequestsType
<1>3. new \in Asked /\ new.tag = tag /\ new.cseq = fCSeq + 1
  BY <1>2 DEF Asked
<1>4. before \in Seq(Asked) /\ \A i \in DOMAIN before : before[i].cseq <= fCSeq /\ before[i] = unanswered[i]
  <2>1. CASE before = unanswered
    BY <1>1, <2>1 DEF RequestsType
  <2>2. CASE before = <<>>
    <3>1. before \in Seq(Asked) /\ DOMAIN before = {}
      BY <2>2, EmptySeq
    <3> QED BY <3>1
  <2> QED BY <2>1, <2>2
<1>5. /\ call'.tag = tag /\ call'.cseq = fCSeq + 1
      /\ call'.undisturbed = undisturbed /\ ~Requests!Idle'
  BY DEF Requests!Sent, Requests!Idle, Requests!NoCall, Requests!None
<1>6. unanswered' = Append(before, new)
  BY DEF Requests!Sent
<1> HIDE DEF new
<1>7. /\ unanswered' \in Seq(Asked) /\ unanswered' # <<>>
      /\ Len(unanswered') = Len(before) + 1 /\ unanswered'[Len(unanswered')] = new
      /\ \A i \in 1 .. Len(before) : unanswered'[i] = before[i]
  BY <1>3, <1>4, <1>6
<1>8. RequestsType'
  <2>1. wire' \in Seq(Item)
    <3>1. wire \in Seq(Item) /\ <<>> \in Seq(Item)
      BY <1>1, EmptySeq DEF RequestsType
    <3>2. wire' = wire \/ wire' = <<>>
      OBVIOUS
    <3> QED BY <3>1, <3>2
  <2>2. ASSUME NEW i \in DOMAIN unanswered' PROVE unanswered'[i].cseq <= fCSeq'
    <3>1. CASE i = Len(unanswered')
      BY <1>2, <1>3, <1>7, <3>1
    <3>2. CASE i # Len(unanswered')
      <4>1. i \in 1 .. Len(before) /\ i \in DOMAIN before
        BY <1>4, <1>7, <3>2
      <4>2. unanswered'[i] = before[i] /\ before[i].cseq <= fCSeq /\ before[i] \in Asked
        BY <1>4, <1>7, <4>1
      <4> QED BY <1>2, <4>2 DEF Asked
    <3> QED BY <3>1, <3>2
  <2> QED BY <1>1, <1>2, <1>5, <1>7, <2>1, <2>2 DEF RequestsType
<1>9. StageInv'
  BY <1>1, <1>5 DEF StageInv
<1>10. WireInv'
  <2>1. NoBodyAlone'
    BY <1>7 DEF NoBodyAlone
  <2>2. ASSUME stage' = "playing" \/ tag \notin {"DESCRIBE", "SETUP"} PROVE NoBodyLast'
    <3>1. tag \notin WithBody
      BY <2>2, RequestsAssumption DEF Requests!None
    <3> QED BY <1>3, <1>7, <3>1 DEF NoBodyLast
  <2> QED BY <1>5, <2>1, <2>2 DEF WireInv
<1>11. ResultInv'
  <2>1. ASSUME call'.undisturbed PROVE OwnAnswer'
    <3>1. before = <<>> /\ wire' = <<>>
      <4>1. CASE before = <<>> /\ wire' = <<>>
        BY <4>1
      <4>2. CASE /\ before = unanswered /\ wire' = wire
                 /\ before = <<>> /\ Requests!AnswersIn(wire) = {} /\ ~Requests!BodyMayBeLeft
        BY <1>1, <4>2, NothingToCome DEF WireInv
      <4>3. undisturbed
        BY <1>5, <2>1
      <4> QED BY <4>1, <4>2, <4>3
    <3>2. unanswered' = <<new>>
      BY <1>3, <1>6, <3>1
    <3> QED BY <1>5, <3>1, <3>2 DEF OwnAnswer, new
  <2>2. ASSUME result'.undisturbed, result'.outcome \in {"done", "refused"}
        PROVE  /\ result'.cseq \in 1 .. fCSeq'
               /\ \A i \in DOMAIN unanswered' : unanswered'[i].cseq # result'.cseq
               /\ result'.outcome = "done" <=> codes'[result'.cseq] = 200
    <3>1. /\ result.cseq \in 1 .. fCSeq
          /\ \A i \in DOMAIN unanswered : unanswered[i].cseq # result.cseq
          /\ result.outcome = "done" <=> codes[result.cseq] = 200
      BY <1>1, <2>2 DEF ResultInv
    <3>2. ASSUME NEW i \in DOMAIN unanswered' PROVE unanswered'[i].cseq # result.cseq
      <4>1. CASE i = Len(unanswered')
        BY <1>2, <1>3, <1>7, <3>1, <4>1
      <4>2. CASE i # Len(unanswered')
        <5>1. i \in 1 .. Len(before)
          BY <1>4, <1>7, <4>2
        <5>2. before = unanswered
          BY <5>1
        <5> QED BY <1>7, <3>1, <5>1, <5>2, <1>4
      <4> QED BY <4>1, <4>2
    <3> QED BY <1>2, <3>1, <3>2
  <2> QED BY <1>5, <2>1, <2>2 DEF ResultInv
<1> QED BY <1>8, <1>9, <1>10, <1>11 DEF RequestsInv

LEMMA ServerAnswersStep ==
  ASSUME RequestsInv, NEW code \in {200, 301, 404}, NEW id \in {Requests!None, "a", "b"},
         Requests!ServerAnswers(code, id)
  PROVE  RequestsInv'
<1> DEFINE request == Head(unanswered)
           answer == [cseq |-> request.cseq, code |-> code, session |-> id]
           said == IF request.tag = "SETUP" /\ id = Requests!None THEN 404 ELSE code
<1>1. RequestsType /\ StageInv /\ WireInv /\ ResultInv
  BY DEF RequestsInv
<1>2. /\ unanswered # <<>> /\ unanswered \in Seq(Asked) /\ wire \in Seq(Item) /\ unanswered' = Tail(unanswered)
      /\ codes' = [codes EXCEPT ![request.cseq] = said]
      /\ wire' = Append(wire, answer) \/ (request.tag \in WithBody /\ wire' = wire \o <<answer, Requests!Body>>)
      /\ id # Requests!None => request.tag = "SETUP" /\ code = 200
      /\ UNCHANGED <<stage, left, call, fCSeq, result>>
  BY <1>1 DEF RequestsType, Requests!ServerAnswers
<1>3. request \in Asked /\ request = unanswered[1] /\ 1 \in DOMAIN unanswered
  BY <1>2
<1>4. request.cseq \in 1 .. MaxRequests /\ request.cseq <= fCSeq
  BY <1>1, <1>3 DEF Asked, RequestsType
<1>5. answer \in Item /\ answer.cseq = request.cseq /\ answer.code = code /\ answer.session = id
  BY <1>4 DEF Item
<1>6. said \in {200, 404, 301} /\ codes \in [1 .. MaxRequests -> {0, 200, 301, 404}]
  BY <1>1 DEF RequestsType
<1>7. /\ unanswered' \in Seq(Asked) /\ Len(unanswered') = Len(unanswered) - 1
      /\ \A i \in 1 .. Len(unanswered'): unanswered'[i] = unanswered[i + 1]
  BY <1>2
<1>8. Requests!Body \in Item /\ Requests!Body.cseq = 0
  BY DEF Item, Requests!Body
<1> HIDE DEF request, answer, said
<1>9. \/ /\ wire' \in Seq(Item) /\ Len(wire') = Len(wire) + 1 /\ wire'[Len(wire')] = answer
      \/ /\ request.tag \in WithBody
         /\ wire' \in Seq(Item) /\ Len(wire') = Len(wire) + 2
         /\ wire'[Len(wire')] = Requests!Body /\ wire'[Len(wire') - 1] = answer
  <2>1. CASE wire' = Append(wire, answer)
    BY <1>2, <1>5, <2>1
  <2>2. CASE request.tag \in WithBody /\ wire' = wire \o <<answer, Requests!Body>>
    <3> DEFINE two == <<answer, Requests!Body>>
    <3>1. two \in Seq(Item) /\ Len(two) = 2 /\ two[1] = answer /\ two[2] = Requests!Body
      BY <1>5, <1>8
    <3> HIDE DEF two
    <3>2. /\ wire \o two \in Seq(Item) /\ Len(wire \o two) = Len(wire) + 2
          /\ \A i \in 1 .. Len(wire) + 2 :
               (wire \o two)[i] = IF i <= Len(wire) THEN wire[i] ELSE two[i - Len(wire)]
      <4>1. wire \in Seq(Item) /\ two \in Seq(Item)
        BY <1>2, <3>1
      <4>2. Len(two) = 2
        BY <3>1
      <4>3. /\ wire \o two \in Seq(Item)
            /\ Len(wire \o two) = Len(wire) + Len(two)
            /\ \A i \in 1 .. Len(wire) + Len(two) :
                 (wire \o two)[i] = IF i <= Len(wire) THEN wire[i] ELSE two[i - Len(wire)]
        BY <4>1, ConcatProperties
      <4> QED BY <4>2, <4>3
    <3>3. Len(wire) \in Nat
      BY <1>2
    <3>4. wire' = wire \o two
      BY <2>2 DEF two
    <3> QED BY <2>2, <3>1, <3>2, <3>3, <3>4
  <2> QED BY <1>2, <2>1, <2>2
<1>10. Len(wire) \in Nat /\ wire' # <<>>
  BY <1>2, <1>9
<1>11. RequestsType'
  <2>1. \A i \in DOMAIN unanswered' : unanswered'[i].cseq <= fCSeq
    BY <1>1, <1>2, <1>7 DEF RequestsType
  <2>2. codes' \in [1 .. MaxRequests -> {0, 200, 301, 404}]
    BY <1>2, <1>4, <1>6
  <2> QED BY <1>1, <1>2, <1>7, <1>9, <2>1, <2>2 DEF RequestsType, Requests!Idle
<1>12. StageInv'
  BY <1>1, <1>2 DEF StageInv, Requests!Idle
<1>13. WireInv'
  <2>1. NoBodyAlone'
    BY <1>4, <1>5, <1>9, <1>10 DEF NoBodyAlone
  <2>2. ASSUME NoBodyLast PROVE NoBodyLast'
    <3>1. CASE unanswered' # <<>>
      <4>1. unanswered'[Len(unanswered')] = unanswered[Len(unanswered)]
        BY <1>2, <1>7, <3>1
      <4> QED BY <1>2, <2>2, <3>1, <4>1 DEF NoBodyLast
    <3>2. CASE unanswered' = <<>>
      <4>1. Len(unanswered) = 1
        <5>1. Len(unanswered') = 0
          BY <3>2
        <5>2. Len(unanswered) \in Nat
          BY <1>2
        <5> QED BY <1>7, <5>1, <5>2
      <4>2. request.tag \notin WithBody
        BY <1>2, <1>3, <2>2, <4>1 DEF NoBodyLast
      <4>3. wire'[Len(wire')] = answer
        BY <1>9, <4>2
      <4> QED BY <1>4, <1>5, <1>8, <3>2, <4>3 DEF NoBodyLast
    <3> QED BY <3>1, <3>2
  <2> QED BY <1>1, <1>2, <2>1, <2>2 DEF WireInv, Requests!Idle
<1>14. ResultInv'
  <2>1. ASSUME ~Requests!Idle, call.undisturbed PROVE OwnAnswer'
    <3>1. wire = <<>> /\ unanswered = <<[tag |-> call.tag, cseq |-> call.cseq]>>
      BY <1>1, <1>2, <2>1 DEF ResultInv, OwnAnswer
    <3>2. request.tag = call.tag /\ request.cseq = call.cseq
      BY <1>3, <3>1
    <3>3. unanswered' = <<>>
      BY <1>2, <3>1
    <3>4. wire' = <<answer>> \/ (call.tag \in WithBody /\ wire' = <<answer, Requests!Body>>)
      <4>1. CASE wire' = Append(wire, answer)
        BY <3>1, <4>1
      <4>2. CASE request.tag \in WithBody /\ wire' = wire \o <<answer, Requests!Body>>
        BY <3>1, <3>2, <4>2, <1>5, <1>8, ConcatEmptySeq
      <4> QED BY <1>2, <4>1, <4>2
    <3>5. codes'[call.cseq] = said
      BY <1>2, <1>4, <1>6, <3>2
    <3>6. wire'[1] = answer
      BY <3>4
    <3>7. wire'[1].code = code /\ wire'[1].session = id
      BY <1>5, <3>6
    <3>8. wire'[1].cseq = call.cseq
      BY <1>5, <3>2, <3>6
    <3>9. Says(wire[1])'
      BY <1>2, <3>2, <3>5, <3>7 DEF Says, said, Requests!None
    <3> QED BY <1>2, <3>3, <3>4, <3>6, <3>8, <3>9 DEF OwnAnswer
  <2>2. ASSUME result.undisturbed, result.outcome \in {"done", "refused"}
        PROVE  /\ result.cseq \in 1 .. fCSeq
               /\ \A i \in DOMAIN unanswered' : unanswered'[i].cseq # result.cseq
               /\ result.outcome = "done" <=> codes'[result.cseq] = 200
    <3>1. /\ result.cseq \in 1 .. fCSeq
          /\ \A i \in DOMAIN unanswered : unanswered[i].cseq # result.cseq
          /\ result.outcome = "done" <=> codes[result.cseq] = 200
      BY <1>1, <2>2 DEF ResultInv
    <3>2. request.cseq # result.cseq
      BY <1>3, <3>1
    <3>3. codes'[result.cseq] = codes[result.cseq]
      BY <1>2, <1>6, <3>2
    <3>4. \A i \in DOMAIN unanswered' : unanswered'[i].cseq # result.cseq
      BY <1>2, <1>7, <3>1
    <3> QED BY <3>1, <3>3, <3>4
  <2> QED BY <1>2, <2>1, <2>2 DEF ResultInv, Requests!Idle
<1> QED BY <1>11, <1>12, <1>13, <1>14 DEF RequestsInv

\* What is left of the wire is an end of it, no body alone unless its response is refused.
EndOfWire(rest, outcome) ==
  /\ rest \in Seq(Item)
  /\ rest # <<>> => wire # <<>> /\ rest[Len(rest)] = wire[Len(wire)]
  /\ unanswered = <<>> /\ rest # <<>> /\ ~(call.tag \in {"DESCRIBE", "SETUP"} /\ outcome = "refused") =>
       rest[Len(rest)].cseq > 0 \/ (Len(rest) > 1 /\ rest[Len(rest) - 1].cseq > 0)

LEMMA DoneStep ==
  ASSUME RequestsInv, ~Requests!Idle, NEW outcome, NEW rest, EndOfWire(rest, outcome),
         Requests!Done(outcome), Requests!Closing(rest),
         call.undisturbed /\ outcome \in {"done", "refused"} =>
           /\ \A i \in DOMAIN unanswered : unanswered[i].cseq # call.cseq
           /\ outcome = "done" <=> codes[call.cseq] = 200
  PROVE  RequestsInv'
<1>1. RequestsType /\ StageInv /\ WireInv /\ ResultInv
  BY DEF RequestsInv
<1>2. /\ call.tag \in {"DESCRIBE", "SETUP", "PLAY", "PAUSE", "TEARDOWN"}
      /\ call.cseq \in 1 .. fCSeq /\ call.undisturbed \in BOOLEAN
  BY <1>1 DEF RequestsType
<1>3. /\ result' = [tag |-> call.tag, cseq |-> call.cseq, undisturbed |-> call.undisturbed,
                    outcome |-> outcome]
      /\ Requests!Idle' /\ UNCHANGED <<fCSeq, codes>>
  BY DEF Requests!Done, Requests!Closing, Requests!Idle
<1>4. wire' \in {<<>>, rest} /\ unanswered' \in {<<>>, unanswered}
      /\ (wire' = <<>> \/ unanswered' = unanswered)
  BY DEF Requests!Closing
<1>5. RequestsType'
  <2>1. wire' \in Seq(Item) /\ unanswered' \in Seq(Asked)
        /\ \A i \in DOMAIN unanswered' : unanswered'[i].cseq <= fCSeq
    <3>1. <<>> \in Seq(Item) /\ <<>> \in Seq(Asked)
      BY EmptySeq
    <3>2. rest \in Seq(Item)
      BY DEF EndOfWire
    <3>3. unanswered' = <<>> => DOMAIN unanswered' = {}
      OBVIOUS
    <3> QED BY <1>1, <1>4, <3>1, <3>2, <3>3 DEF RequestsType
  <2> QED BY <1>1, <1>3, <2>1 DEF RequestsType
<1>6. StageInv'
  <2>1. stage' \in {Requests!None, "described", "ready", "playing", "paused"}
    BY <1>1, <1>2 DEF Requests!Done, StageInv
  <2>2. ASSUME stage' = Requests!None PROVE connected' = Requests!None
    BY <1>1, <1>2, <2>2 DEF Requests!Done, StageInv, Requests!None
  <2> QED BY <1>3, <2>1, <2>2 DEF StageInv, Requests!Closing
<1>7. WireInv'
  <2>1. ASSUME ~Requests!BodyMayBeLeft' PROVE NoBodyAlone'
    <3>1. CASE call.tag \in {"DESCRIBE", "SETUP"} /\ outcome = "refused"
      <4>1. call.tag = "DESCRIBE"
        BY <1>3, <2>1, <3>1 DEF Requests!BodyMayBeLeft
      <4>2. connected' = Requests!None
        BY <3>1, <4>1 DEF Requests!Done
      <4> QED BY <4>2 DEF Requests!Closing, NoBodyAlone
    <3>2. CASE ~(call.tag \in {"DESCRIBE", "SETUP"} /\ outcome = "refused")
      BY <1>4, <3>2 DEF NoBodyAlone, EndOfWire
    <3> QED BY <3>1, <3>2
  <2>2. ASSUME stage' = "playing" PROVE NoBodyLast'
    <3>1. stage = "playing" \/ call.tag = "PLAY"
      BY <1>1, <1>2, <2>2 DEF Requests!Done, StageInv, Requests!None
    <3>2. NoBodyLast
      BY <1>1, <3>1 DEF WireInv
    <3> QED BY <1>4, <3>2 DEF NoBodyLast, EndOfWire
  <2> QED BY <1>3, <2>1, <2>2 DEF WireInv
<1>8. ResultInv'
  BY <1>2, <1>3, <1>4 DEF ResultInv
<1> QED BY <1>5, <1>6, <1>7, <1>8 DEF RequestsInv

LEMMA GetResponseStep ==
  ASSUME RequestsInv, Requests!GetResponse
  PROVE  RequestsInv'
<1> DEFINE first == Requests!FirstAnswer
           after == Requests!AfterResponse(first)
           rest == Requests!From(after)
           answer == wire[first]
           outcome == IF Requests!Accepted(answer) THEN "done" ELSE "refused"
<1>1. RequestsType /\ StageInv /\ WireInv /\ ResultInv
  BY DEF RequestsInv
<1>2. /\ ~Requests!Idle /\ Requests!AnswersIn(wire) # {}
      /\ Requests!Done(outcome) /\ Requests!Closing(rest)
  BY DEF Requests!GetResponse
<1>3. wire \in Seq(Item) /\ Len(wire) \in Nat
  BY <1>1 DEF RequestsType
<1>4. /\ first \in 1 .. Len(wire) /\ wire[first].cseq > 0
      /\ \A j \in 1 .. Len(wire) : wire[j].cseq > 0 => first <= j
  BY <1>2, <1>3, FirstAnswerIs
<1>5. after \in {first + 1, first + 2} /\ after \in 1 .. Len(wire) + 2
  BY <1>3, <1>4 DEF Requests!AfterResponse
<1>6. after = first + 2 => first < Len(wire) /\ wire[first + 1] = Requests!Body
  BY <1>4 DEF Requests!AfterResponse
<1>a. after = first + 1 /\ first < Len(wire) /\ wire[first + 1] = Requests!Body =>
        call.tag \notin {"DESCRIBE", "SETUP"} \/ outcome = "refused"
  <2> SUFFICES ASSUME after = first + 1, first < Len(wire), wire[first + 1] = Requests!Body
               PROVE  call.tag \notin {"DESCRIBE", "SETUP"} \/ outcome = "refused"
    OBVIOUS
  <2>1. first + 1 # first + 2
    BY <1>3, <1>4
  <2>2. ~Requests!ReadsBody(first)
    BY <2>1 DEF Requests!AfterResponse
  <2> QED BY <2>2 DEF Requests!ReadsBody
<1> HIDE DEF first
<1>7. /\ rest \in Seq(Item) /\ (after > Len(wire) => rest = <<>>)
      /\ after <= Len(wire) =>
           /\ rest # <<>> /\ Len(rest) = Len(wire) - after + 1
           /\ \A i \in 1 .. Len(wire) - after + 1 : rest[i] = wire[after + i - 1]
  BY <1>3, <1>5, Remains
<1>8. EndOfWire(rest, outcome)
  <2>1. ASSUME rest # <<>> PROVE wire # <<>> /\ rest[Len(rest)] = wire[Len(wire)]
    <3> HIDE DEF after, rest
    <3>1. after \in Nat /\ after <= Len(wire) /\ after >= 1
      BY <1>3, <1>4, <1>5, <1>7, <2>1
    <3>2. Len(rest) = Len(wire) - after + 1 /\ Len(rest) \in 1 .. Len(wire) - after + 1
      BY <1>3, <1>7, <3>1
    <3>3. rest[Len(rest)] = wire[after + Len(rest) - 1] /\ after + Len(rest) - 1 = Len(wire)
      BY <1>3, <1>7, <3>1, <3>2
    <3>4. wire # <<>>
      BY <1>3, <3>1, EmptySeq
    <3> QED BY <3>3, <3>4
  <2>2. ASSUME unanswered = <<>>, rest # <<>>, ~(rest[Len(rest)].cseq > 0),
               ~(call.tag \in {"DESCRIBE", "SETUP"} /\ outcome = "refused")
        PROVE  Len(rest) > 1 /\ rest[Len(rest) - 1].cseq > 0
    <3>1. wire # <<>> /\ ~(wire[Len(wire)].cseq > 0)
      BY <2>1, <2>2
    <3>2. Len(wire) > 1 /\ wire[Len(wire) - 1].cseq > 0
      BY <1>1, <1>2, <2>2, <3>1 DEF WireInv, NoBodyAlone
    <3>3. after <= Len(wire)
      BY <1>3, <1>5, <1>7, <2>2
    <3>4. wire[Len(wire)] = Requests!Body
      BY <1>3, <3>1, <3>2, AnswerOrBody
    <3>5. after # Len(wire)
      <4>1. SUFFICES ASSUME after = Len(wire) PROVE FALSE
        OBVIOUS
      <4>2. CASE after = first + 1
        <5>1. first = Len(wire) - 1 /\ first + 1 = Len(wire) /\ first < Len(wire)
          BY <1>3, <1>4, <4>1, <4>2
        <5>2. call.tag \notin {"DESCRIBE", "SETUP"}
          BY <1>a, <2>2, <3>4, <4>2, <5>1
        <5>3. NoBodyLast
          BY <1>1, <1>2, <5>2 DEF WireInv
        <5> QED BY <2>2, <3>1, <3>4, <5>3 DEF NoBodyLast
      <4>3. CASE after = first + 2
        <5>1. first + 1 = Len(wire) - 1
          BY <1>3, <1>4, <4>1, <4>3
        <5>2. wire[Len(wire) - 1] = Requests!Body
          BY <1>6, <4>3, <5>1
        <5> QED BY <3>2, <5>2 DEF Requests!Body
      <4> QED BY <1>5, <4>2, <4>3
    <3>6. after < Len(wire)
      BY <1>3, <1>5, <3>3, <3>5
    <3>7. Len(rest) > 1 /\ rest[Len(rest) - 1] = wire[Len(wire) - 1]
      <4>1. Len(rest) = Len(wire) - after + 1 /\ Len(rest) - 1 \in 1 .. Len(wire) - after + 1
        BY <1>3, <1>5, <1>7, <3>6
      <4>2. after + (Len(rest) - 1) - 1 = Len(wire) - 1
        BY <1>3, <1>5, <4>1
      <4>3. rest[Len(rest) - 1] = wire[after + (Len(rest) - 1) - 1]
        BY <1>7, <3>3, <4>1
      <4> QED BY <1>3, <1>5, <3>6, <4>1, <4>2, <4>3
    <3> QED BY <3>2, <3>7
  <2> QED BY <1>7, <2>1, <2>2 DEF EndOfWire
<1>9. ASSUME call.undisturbed
      PROVE  /\ \A i \in DOMAIN unanswered : unanswered[i].cseq # call.cseq
             /\ outcome = "done" <=> codes[call.cseq] = 200
  <2>1. OwnAnswer /\ wire # <<>>
    BY <1>1, <1>2, <1>3, <1>4, <1>9 DEF ResultInv
  <2>2. /\ unanswered = <<>>
        /\ wire = <<wire[1]>> \/ wire = <<wire[1], Requests!Body>>
        /\ Says(wire[1])
    BY <2>1 DEF OwnAnswer
  <2>3. first = 1
    <3>1. wire # <<>> /\ wire[1].cseq = call.cseq /\ call.cseq \in 1 .. fCSeq
      BY <1>1, <1>2, <2>1 DEF OwnAnswer, RequestsType
    <3>2. wire[1].cseq > 0 /\ 1 \in 1 .. Len(wire)
      BY <1>1, <1>3, <1>4, <3>1 DEF RequestsType
    <3> QED BY <1>3, <1>4, <3>2
  <2>4. Requests!Accepted(wire[1]) <=>
          wire[1].code = 200 /\ (call.tag = "SETUP" => wire[1].session # Requests!None)
    BY <2>3 DEF Requests!Accepted, first
  <2> QED BY <2>2, <2>3, <2>4 DEF Says
<1> HIDE DEF rest, outcome
<1> QED BY <1>2, <1>8, <1>9, DoneStep

LEMMA TimeoutStep ==
  ASSUME RequestsInv, Requests!Timeout
  PROVE  RequestsInv'
<1>1. RequestsType /\ WireInv
  BY DEF RequestsInv
<1>2. ~Requests!Idle /\ Requests!Done("silent") /\ Requests!Closing(wire) /\ wire = <<>>
  BY DEF Requests!Timeout
<1>3. EndOfWire(wire, "silent")
  BY <1>1, <1>2 DEF RequestsType, EndOfWire
<1> QED BY <1>2, <1>3, DoneStep

LEMMA IncomingStep ==
  ASSUME RequestsInv, Requests!IncomingRequest
  PROVE  RequestsInv'
<1> DEFINE first == Requests!FirstAnswer
<1>1. RequestsType /\ StageInv /\ WireInv /\ ResultInv
  BY DEF RequestsInv
<1>2. /\ Requests!Idle /\ stage = "playing" /\ Requests!AnswersIn(wire) # {} /\ wire' = Requests!From(first + 1)
      /\ UNCHANGED <<stage, left, call, fCSeq, fLastSessionId, connected, watched, unanswered, codes, result>>
  BY DEF Requests!IncomingRequest
<1>3. wire \in Seq(Item) /\ Len(wire) \in Nat
  BY <1>1 DEF RequestsType
<1>4. first \in 1 .. Len(wire)
  BY <1>2, <1>3, FirstAnswerIs
<1> HIDE DEF first
<1>5. first + 1 \in 1 .. Len(wire) + 2
  BY <1>3, <1>4
<1>6. /\ wire' \in Seq(Item)
      /\ first + 1 > Len(wire) => wire' = <<>>
      /\ first + 1 <= Len(wire) =>
           /\ wire' # <<>> /\ Len(wire') = Len(wire) - (first + 1) + 1
           /\ \A i \in 1 .. Len(wire) - (first + 1) + 1 : wire'[i] = wire[(first + 1) + i - 1]
  <2> DEFINE n == first + 1
  <2>1. n \in 1 .. Len(wire) + 2 /\ wire' = Requests!From(n)
    BY <1>2, <1>5
  <2> HIDE DEF n
  <2>2. /\ wire' \in Seq(Item)
        /\ n > Len(wire) => wire' = <<>>
        /\ n <= Len(wire) =>
             /\ wire' # <<>> /\ Len(wire') = Len(wire) - n + 1
             /\ \A i \in 1 .. Len(wire) - n + 1 : wire'[i] = wire[n + i - 1]
    BY <1>3, <2>1, Remains
  <2> QED BY <2>2 DEF n
<1>7. wire' # <<>> => wire # <<>> /\ wire'[Len(wire')] = wire[Len(wire)]
  BY <1>3, <1>4, <1>6
<1>8. NoBodyLast
  BY <1>1, <1>2 DEF WireInv
<1>9. NoBodyLast'
  BY <1>2, <1>7, <1>8 DEF NoBodyLast
<1>10. NoBodyAlone'
  <2> SUFFICES ASSUME unanswered = <<>>, wire' # <<>> PROVE wire[Len(wire)].cseq > 0
    BY <1>2, <1>7 DEF NoBodyAlone
  <2>1. wire[Len(wire)] # Requests!Body /\ Len(wire) \in 1 .. Len(wire)
    BY <1>3, <1>4, <1>7, <1>8 DEF NoBodyLast
  <2> QED BY <1>3, <2>1, AnswerOrBody
<1>11. RequestsType'
  BY <1>1, <1>2, <1>6 DEF RequestsType, Requests!Idle
<1>12. StageInv'
  BY <1>1, <1>2 DEF StageInv, Requests!Idle, Requests!None
<1>13. ResultInv'
  BY <1>1, <1>2 DEF ResultInv, Requests!Idle
<1> QED BY <1>9, <1>10, <1>11, <1>12, <1>13 DEF RequestsInv, WireInv

LEMMA ShutdownStep ==
  ASSUME RequestsInv, Requests!Shutdown
  PROVE  RequestsInv'
<1>1. /\ Requests!Idle /\ stage' = Requests!None /\ wire' = <<>> /\ unanswered' = <<>>
      /\ UNCHANGED <<call, fCSeq, codes, result>>
  BY DEF Requests!Shutdown
<1>2. Requests!Idle' /\ DOMAIN unanswered' = {}
  BY <1>1 DEF Requests!Idle
<1>3. <<>> \in Seq(Asked) /\ <<>> \in Seq(Item)
  BY EmptySeq
<1>4. RequestsType'
  BY <1>1, <1>2, <1>3 DEF RequestsInv, RequestsType
<1>5. StageInv' /\ WireInv'
  BY <1>1, <1>2 DEF StageInv, WireInv, NoBodyAlone, Requests!None
<1>6. ResultInv'
  BY <1>1, <1>2 DEF RequestsInv, ResultInv
<1> QED BY <1>4, <1>5, <1>6 DEF RequestsInv

LEMMA RequestsStep ==
  ASSUME RequestsInv, Requests!Next \/ UNCHANGED requests
  PROVE  RequestsInv'
<1>1. StageInv
  BY DEF RequestsInv
<1>2. ASSUME NEW tag \in {"DESCRIBE", "SETUP", "PLAY", "PAUSE", "TEARDOWN"}, Requests!Send(tag),
             tag # "DESCRIBE", stage # Requests!None, tag = "SETUP" <=> stage = "described"
      PROVE  RequestsInv'
  BY <1>2, SentStep DEF Requests!Send
<1>3. ASSUME NEW server \in Servers, Requests!Describe(server) PROVE RequestsInv'
  <2>1. wire = <<>> /\ stage = Requests!None
    BY <1>1, <1>3 DEF StageInv, Requests!Describe
  <2> QED BY <1>3, <2>1, SentStep DEF Requests!Describe, Requests!None
<1>4. CASE Requests!Setup
  BY <1>2, <1>4 DEF Requests!Setup, Requests!None
<1>5. CASE Requests!Play
  BY <1>2, <1>5 DEF Requests!Play, Requests!None
<1>6. CASE Requests!Pause
  BY <1>2, <1>6 DEF Requests!Pause, Requests!None
<1>7. CASE Requests!Teardown
  BY <1>2, <1>7 DEF Requests!Teardown, Requests!None
<1>8. ASSUME NEW code \in {200, 301, 404}, NEW id \in {Requests!None, "a", "b"},
             Requests!ServerAnswers(code, id)
      PROVE  RequestsInv'
  BY <1>8, ServerAnswersStep
<1>9. CASE Requests!Redirected
  <2>1. ~Requests!Idle
    BY <1>9 DEF Requests!Redirected, Requests!Idle, Requests!NoCall, Requests!None
  <2>2. stage = Requests!None
    BY <1>1, <1>9, <2>1 DEF StageInv, Requests!Redirected
  <2> QED BY <1>9, <2>2, SentStep DEF Requests!Redirected, Requests!None
<1>10. CASE UNCHANGED requests
  BY <1>10 DEF requests, RequestsInv, RequestsType, StageInv, WireInv, ResultInv, NoBodyAlone,
               NoBodyLast, OwnAnswer, Says, Requests!Idle, Requests!BodyMayBeLeft
<1> QED BY <1>3, <1>4, <1>5, <1>6, <1>7, <1>8, <1>9, <1>10, GetResponseStep, TimeoutStep, IncomingStep,
           ShutdownStep DEF Requests!Next

\* However late responses come, from whatever server and with whatever body, the result of a request
\* is what the server has answered to it, if no older response was outstanding when it was sent and
\* the one before it was not a SETUP that had been refused.
THEOREM ResponsesAreMatched == InputSpec => []ResultIsTheServers
<1> DEFINE Inv == part = "requests" => RequestsInv
<1>1. InputInit => Inv
  <2> SUFFICES ASSUME Requests!Init PROVE RequestsInv
    BY DEF InputInit
  <2>1. unanswered \in Seq(Asked) /\ wire \in Seq(Item) /\ DOMAIN unanswered = {}
    BY EmptySeq DEF Requests!Init
  <2> QED BY <2>1, RequestsAssumption DEF Requests!Init, Requests!Idle, Requests!None, RequestsInv, RequestsType,
             StageInv, WireInv, ResultInv, NoBodyAlone
<1>2. Inv /\ [InputNext]_inputVars => Inv'
  <2> SUFFICES ASSUME Inv, [InputNext]_inputVars, part' = "requests" PROVE RequestsInv'
    OBVIOUS
  <2>1. part = "requests"
    BY DEF InputNext, inputVars, Others
  <2> QED BY <2>1, RequestsOnly, RequestsStep
<1>3. Inv => ResultIsTheServers
  BY DEF ResultIsTheServers, Requests!ResultIsTheServers, RequestsInv, ResultInv
<1> QED BY <1>1, <1>2, <1>3, PTL DEF InputSpec

-----------------------------------------------------------------------------
(* MediaSession                                                            *)

Codecs ==
  {"unknown", "MP2T", "MPA"} \cup UNION {{lines[i].codec : i \in DOMAIN lines} : lines \in Descriptions}
Protocols == UNION {{lines[i].protocol : i \in DOMAIN lines} : lines \in Descriptions}

Subsession ==
  [protocol : Protocols, payload : Int, codec : Codecs, given : BOOLEAN, clientPort : Nat,
   rtp : Ports \cup {0}, rtcp : Ports \cup {0}, source : BOOLEAN, rtcpInstance : BOOLEAN]

\* A subsession that initiate has not been called for.
IsNew(x) == x.rtp = 0 /\ x.rtcp = 0 /\ (x.given <=> x.clientPort # 0)

\* What initializeWithSDP has made of some lines.
IsParsed(parsed) ==
  /\ parsed \in [ok : BOOLEAN, list : Seq(Subsession), within : BOOLEAN]
  /\ parsed.within => parsed.list # <<>>
  /\ \A i \in 1 .. Len(parsed.list) : IsNew(parsed.list[i])

IsLine(line) ==
  line.port \in Nat /\ line.payload \in Int /\ line.protocol \in Protocols /\ line.codec \in Codecs

LEMMA ChangedCodec ==
  ASSUME NEW x \in Subsession, NEW codec \in Codecs
  PROVE  /\ [x EXCEPT !.codec = codec] \in Subsession
         /\ IsNew(x) => IsNew([x EXCEPT !.codec = codec])
BY DEF Subsession, IsNew

\* A list stays one of new subsessions when one of them is replaced by one.
LEMMA NewInList ==
  ASSUME NEW parsed, IsParsed(parsed), NEW n \in 1 .. Len(parsed.list), NEW x \in Subsession, IsNew(x),
         NEW ok \in BOOLEAN
  PROVE  /\ IsParsed([parsed EXCEPT !.list[n] = x])
         /\ IsParsed([parsed EXCEPT !.ok = ok, !.list[n] = x])
<1> DEFINE list == [parsed.list EXCEPT ![n] = x]
<1>1. /\ list \in Seq(Subsession) /\ Len(list) = Len(parsed.list) /\ list # <<>>
      /\ \A i \in 1 .. Len(list) : IsNew(list[i])
  <2>1. parsed.list \in Seq(Subsession) /\ Len(parsed.list) \in Nat
    BY DEF IsParsed
  <2>2. list \in Seq(Subsession) /\ Len(list) = Len(parsed.list)
        /\ \A i \in 1 .. Len(list) : list[i] = IF i = n THEN x ELSE parsed.list[i]
    BY <2>1, ExceptSeq
  <2> HIDE DEF list
  <2>3. \A i \in 1 .. Len(list) : IsNew(list[i])
    BY <2>2 DEF IsParsed
  <2>4. list # <<>>
    BY <2>1, <2>2
  <2> QED BY <2>2, <2>3, <2>4
<1>2. /\ [parsed EXCEPT !.list[n] = x] = [parsed EXCEPT !.list = list]
      /\ [parsed EXCEPT !.ok = ok, !.list[n] = x] = [parsed EXCEPT !.ok = ok, !.list = list]
  BY DEF IsParsed
<1> HIDE DEF list
<1>3. /\ IsParsed([parsed EXCEPT !.list = list])
      /\ IsParsed([parsed EXCEPT !.ok = ok, !.list = list])
  BY <1>1 DEF IsParsed
<1> QED BY <1>2, <1>3

LEMMA CompletedIsParsed ==
  ASSUME NEW parsed, IsParsed(parsed)
  PROVE  IsParsed(Sessions!Completed(parsed))
<1> DEFINE n == Len(parsed.list)
           codec == Sessions!LookupPayloadFormat(parsed.list[n].payload)
<1>1. CASE ~parsed.within \/ parsed.list[n].codec # "unknown"
  BY <1>1 DEF Sessions!Completed
<1>2. CASE parsed.within /\ parsed.list[n].codec = "unknown"
  <2>1. parsed.list \in Seq(Subsession) /\ parsed.list # <<>>
    BY <1>2 DEF IsParsed
  <2>2. n \in 1 .. Len(parsed.list)
    BY <2>1
  <2>3. codec \in Codecs
    BY DEF Sessions!LookupPayloadFormat, Codecs
  <2> DEFINE x == [parsed.list[n] EXCEPT !.codec = codec]
  <2>4. x \in Subsession /\ IsNew(x)
    <3>1. parsed.list[n] \in Subsession /\ IsNew(parsed.list[n])
      BY <2>1, <2>2 DEF IsParsed
    <3> QED BY <2>3, <3>1, ChangedCodec
  <2>5. Sessions!Completed(parsed) = [parsed EXCEPT !.ok = codec # "unknown", !.list[n].codec = codec]
    BY <1>2 DEF Sessions!Completed
  <2>6. [parsed EXCEPT !.ok = codec # "unknown", !.list[n].codec = codec]
          = [parsed EXCEPT !.ok = codec # "unknown", !.list[n] = x]
    BY <2>1 DEF IsParsed
  <2> HIDE DEF n, x, codec
  <2>7. (codec # "unknown") \in BOOLEAN
    OBVIOUS
  <2>8. IsParsed([parsed EXCEPT !.ok = codec # "unknown", !.list[n] = x])
    BY <2>2, <2>4, <2>7, NewInList
  <2> QED BY <2>5, <2>6, <2>8
<1> QED BY <1>1, <1>2

LEMMA LineIsParsed ==
  ASSUME NEW parsed, IsParsed(parsed), NEW line, IsLine(line)
  PROVE  IsParsed(Sessions!Line(parsed, line))
<1>1. CASE ~Sessions!ParseSDPLine(line)
  <2>1. IsParsed([parsed EXCEPT !.ok = FALSE])
    BY DEF IsParsed
  <2>2. Sessions!Line(parsed, line) = [parsed EXCEPT !.ok = FALSE]
    BY <1>1 DEF Sessions!Line, Sessions!ParseSDPLine
  <2> QED BY <2>1, <2>2
<1>2. CASE Sessions!ParseSDPLine(line) /\ line.kind = "m"
  <2> DEFINE before == Sessions!Completed(parsed)
             x == Sessions!NewSubsession(line)
  <2>1. IsParsed(before)
    BY CompletedIsParsed
  <2>2. x \in Subsession /\ IsNew(x)
    <3>1. "unknown" \in Codecs
      BY DEF Codecs
    <3>2. x = [protocol |-> line.protocol, payload |-> line.payload, codec |-> "unknown",
               given |-> line.port # 0, clientPort |-> line.port, rtp |-> 0, rtcp |-> 0,
               source |-> FALSE, rtcpInstance |-> FALSE]
      BY DEF Sessions!NewSubsession, Sessions!None
    <3> HIDE DEF x
    <3>3. x \in Subsession
      BY <3>1, <3>2 DEF Subsession, IsLine
    <3>4. IsNew(x)
      BY <3>2 DEF IsNew
    <3> QED BY <3>3, <3>4
  <2>3. Sessions!Line(parsed, line) =
          IF line.protocol = "bad" THEN [before EXCEPT !.within = FALSE]
          ELSE [before EXCEPT !.within = TRUE, !.list = Append(@, x)]
    BY <1>2 DEF Sessions!Line
  <2> HIDE DEF before, x
  <2>4. IsParsed([before EXCEPT !.within = FALSE])
    BY <2>1 DEF IsParsed
  <2>5. IsParsed([before EXCEPT !.within = TRUE, !.list = Append(@, x)])
    <3> DEFINE list == Append(before.list, x)
    <3>1. before.list \in Seq(Subsession) /\ Len(before.list) \in Nat
      BY <2>1 DEF IsParsed
    <3>2. /\ list \in Seq(Subsession) /\ list # <<>> /\ Len(list) = Len(before.list) + 1
          /\ \A i \in 1 .. Len(before.list) : list[i] = before.list[i]
          /\ list[Len(before.list) + 1] = x
      BY <2>2, <3>1, AppendProperties
    <3> HIDE DEF list
    <3>3. \A i \in 1 .. Len(list) : IsNew(list[i])
      <4> SUFFICES ASSUME NEW i \in 1 .. Len(list) PROVE IsNew(list[i])
        OBVIOUS
      <4>1. CASE i = Len(before.list) + 1
        BY <2>2, <3>2, <4>1
      <4>2. CASE i # Len(before.list) + 1
        <5>1. i \in 1 .. Len(before.list)
          BY <3>1, <3>2, <4>2
        <5> QED BY <2>1, <3>2, <5>1 DEF IsParsed
      <4> QED BY <4>1, <4>2
    <3>4. IsParsed([before EXCEPT !.within = TRUE, !.list = list])
      BY <2>1, <3>2, <3>3 DEF IsParsed
    <3> QED BY <3>4 DEF list
  <2> QED BY <2>3, <2>4, <2>5
<1>3. CASE Sessions!ParseSDPLine(line) /\ line.kind = "rtpmap" /\ parsed.within
  <2> DEFINE n == Len(parsed.list)
             x == Sessions!RtpMap(parsed.list[n], line)
  <2>1. parsed.list \in Seq(Subsession) /\ parsed.list # <<>>
    BY <1>3 DEF IsParsed
  <2>2. n \in 1 .. Len(parsed.list)
    BY <2>1
  <2>3. parsed.list[n] \in Subsession /\ IsNew(parsed.list[n])
    BY <2>1, <2>2 DEF IsParsed
  <2>4. x \in Subsession /\ IsNew(x)
    BY <2>3, ChangedCodec DEF Sessions!RtpMap, IsLine
  <2>5. Sessions!Line(parsed, line) = [parsed EXCEPT !.list[n] = Sessions!RtpMap(@, line)]
    BY <1>3 DEF Sessions!Line
  <2>6. [parsed EXCEPT !.list[n] = Sessions!RtpMap(@, line)] = [parsed EXCEPT !.list[n] = x]
    BY <2>1, <2>2 DEF IsParsed
  <2> HIDE DEF n, x
  <2>7. IsParsed([parsed EXCEPT !.list[n] = x])
    BY <2>2, <2>4, NewInList
  <2> QED BY <2>5, <2>6, <2>7
<1>4. CASE Sessions!ParseSDPLine(line) /\ line.kind # "m" /\ ~(line.kind = "rtpmap" /\ parsed.within)
  BY <1>4 DEF Sessions!Line
<1> QED BY <1>1, <1>2, <1>3, <1>4

-----------------------------------------------------------------------------
(* The description, line by line: the recursive function is there, and all   *)
(* its values are parsed.                                                   *)

ParsesTo(lines, f, n) ==
  f = [i \in 0 .. n |->
         IF i = 0 THEN Sessions!NothingParsed
         ELSE LET before == f[i - 1] IN IF before.ok THEN Sessions!Line(before, lines[i]) ELSE before]

LEMMA DescriptionParses ==
  ASSUME NEW lines, NEW m \in Nat
  PROVE  \E f : ParsesTo(lines, f, m)
<1> DEFINE Bad == {n \in Nat : ~\E f : ParsesTo(lines, f, n)}
<1> SUFFICES ASSUME Bad # {} PROVE FALSE
  OBVIOUS
<1>1. PICK n \in Bad : \A k \in Bad : n <= k
  <2>1. Bad \subseteq Nat
    OBVIOUS
  <2> HIDE DEF Bad
  <2> QED BY <2>1, LeastOf
<1>2. CASE n = 0
  <2> DEFINE g == [i \in 0 .. n |-> Sessions!NothingParsed]
  <2>1. ParsesTo(lines, g, n)
    BY <1>2 DEF ParsesTo
  <2> QED BY <1>1, <2>1
<1>3. CASE n # 0
  <2>1. n - 1 \in Nat /\ n \in Nat
    BY <1>1, <1>3
  <2>2. n - 1 \notin Bad
    BY <1>1, <2>1
  <2>3. PICK f : ParsesTo(lines, f, n - 1)
    BY <2>1, <2>2
  <2> DEFINE Extend(before, i) == IF before.ok THEN Sessions!Line(before, lines[i]) ELSE before
             g == [i \in 0 .. n |-> IF i = n THEN Extend(f[n - 1], n) ELSE f[i]]
  <2>4. \A i \in 0 .. n - 1 : f[i] = IF i = 0 THEN Sessions!NothingParsed ELSE Extend(f[i - 1], i)
    BY <2>3, Zenon DEF ParsesTo
  <2> HIDE DEF Extend
  <2>5. ASSUME NEW i \in 0 .. n
        PROVE  g[i] = IF i = 0 THEN Sessions!NothingParsed ELSE Extend(g[i - 1], i)
    <3>1. CASE i = n
      <4>1. g[n - 1] = f[n - 1]
        BY <2>1
      <4> QED BY <1>3, <2>1, <3>1, <4>1
    <3>2. CASE i # n
      <4>1. i \in 0 .. n - 1 /\ g[i] = f[i]
        BY <2>1, <3>2
      <4>2. i # 0 => g[i - 1] = f[i - 1]
        BY <2>1, <4>1
      <4> QED BY <2>4, <4>1, <4>2
    <3> QED BY <3>1, <3>2
  <2>6. g = [i \in 0 .. n |-> IF i = 0 THEN Sessions!NothingParsed ELSE Extend(g[i - 1], i)]
    <3>1. g = [i \in 0 .. n |-> g[i]]
      OBVIOUS
    <3> HIDE DEF g
    <3> QED BY <2>5, <3>1
  <2> HIDE DEF g
  <2>7. ParsesTo(lines, g, n)
    BY <2>6 DEF ParsesTo, Extend
  <2> QED BY <1>1, <2>7
<1> QED BY <1>2, <1>3

\* The subsessions of any description are new.
LEMMA SessionIsNew ==
  ASSUME NEW lines \in Descriptions
  PROVE  IsParsed(Sessions!InitializeWithSDP(lines))
<1> DEFINE after == Sessions!AfterLines(lines)
           n == Len(lines)
<1>1. n \in Nat /\ \A i \in 1 .. n : IsLine(lines[i])
  BY MediaAssumption DEF IsLine, Codecs, Protocols
<1>2. ParsesTo(lines, after, n)
  <2>1. PICK f : ParsesTo(lines, f, n)
    BY <1>1, DescriptionParses
  <2> QED BY <2>1, Zenon DEF ParsesTo, Sessions!AfterLines
<1> HIDE DEF after, n
<1>3. \A i \in 0 .. n : after[i] =
        IF i = 0 THEN Sessions!NothingParsed
        ELSE IF after[i - 1].ok THEN Sessions!Line(after[i - 1], lines[i]) ELSE after[i - 1]
  BY <1>2, Zenon DEF ParsesTo
<1>4. \A i \in 0 .. n : IsParsed(after[i])
  <2> DEFINE Bad == {i \in 0 .. n : ~IsParsed(after[i])}
  <2> SUFFICES ASSUME Bad # {} PROVE FALSE
    OBVIOUS
  <2>1. PICK i \in Bad : \A k \in Bad : i <= k
    <3>1. Bad \subseteq Nat
      BY <1>1
    <3> HIDE DEF Bad
    <3> QED BY <3>1, LeastOf
  <2>2. CASE i = 0
    <3>1. IsParsed(Sessions!NothingParsed)
      <4>1. <<>> \in Seq(Subsession) /\ Len(<<>>) = 0
        BY EmptySeq
      <4> QED BY <4>1 DEF IsParsed, Sessions!NothingParsed
    <3>2. after[0] = Sessions!NothingParsed
      BY <1>1, <1>3
    <3> QED BY <2>1, <2>2, <3>1, <3>2
  <2>3. CASE i # 0
    <3>1. i \in 1 .. n /\ i - 1 \in 0 .. n
      BY <1>1, <2>1, <2>3
    <3>2. IsParsed(after[i - 1])
      BY <1>1, <2>1, <3>1
    <3>3. IsParsed(Sessions!Line(after[i - 1], lines[i]))
      BY <1>1, <3>1, <3>2, LineIsParsed
    <3> QED BY <1>3, <2>1, <2>3, <3>2, <3>3
  <2> QED BY <2>2, <2>3
<1>5. Sessions!InitializeWithSDP(lines) = IF after[n].ok THEN Sessions!Completed(after[n]) ELSE after[n]
  BY DEF Sessions!InitializeWithSDP, after, n
<1>6. IsParsed(after[n])
  BY <1>1, <1>4
<1> QED BY <1>5, <1>6, CompletedIsParsed

-----------------------------------------------------------------------------
(* The sockets of the session                                              *)

\* A subsession without a port in the description has a pair of its own, or nothing.
HasPair(x) == x.rtp = x.clientPort /\ x.rtp # 0 /\ x.rtp % 2 = 0 /\ x.rtcp \in {0, x.rtp + 1}
IsDone(x) == x.given \/ (x.clientPort = 0 /\ x.rtp = 0 /\ x.rtcp = 0) \/ (HasPair(x) /\ x.source)

Initiating == step \in {"initiate", "rtp", "rtcp", "source"}

\* Where initiate is with the current subsession.
CurrentInv ==
  LET x == session[current] IN
  /\ step = "initiate" => IsNew(x)
  /\ step = "rtp" => ~x.given /\ x.rtcp = 0 /\ (x.rtp = 0 \/ x.rtp \in tried)
  /\ step = "rtcp" => ~x.given /\ x.rtcp = 0 /\ HasPair(x)
  /\ step = "source" => x.given \/ HasPair(x)

MediaInv ==
  /\ step \in {"closed", "initiate", "rtp", "rtcp", "source", "receivers", "open"}
  /\ current \in Nat /\ session \in Seq(Subsession)
  /\ step = "closed" => session = <<>>
  /\ Initiating =>
       /\ current \in 1 .. Len(session) /\ CurrentInv
       /\ \A i \in current + 1 .. Len(session) : IsNew(session[i])
       /\ \A i \in 1 .. current - 1 : IsDone(session[i])
  /\ step \in {"receivers", "open"} => \A i \in 1 .. Len(session) : IsDone(session[i])
  /\ tried \subseteq {p \in Ports : p % 2 # 0}
  /\ step \notin {"rtp", "rtcp"} => tried = {}

\* The client's sockets, one by one.
Holds(i, p) ==
  \/ i \in 1 .. Len(session) /\ p \in {session[i].rtp, session[i].rtcp} \ {0}
  \/ i = current /\ p \in tried
BoundInv ==
  /\ bound \subseteq Nat \X Ports
  /\ \A i \in Nat, p \in Ports : <<i, p>> \in bound <=> Holds(i, p)

\* The RTP port of a subsession without one in the description is its own.
OwnInv ==
  \A i, j \in 1 .. Len(session) :
    i # j /\ ~session[i].given /\ session[i].rtp # 0 =>
      session[j].rtp # session[i].rtp /\ session[j].rtcp # session[i].rtp

PortsInv == MediaInv /\ BoundInv /\ OwnInv

LEMMA MediaOnly ==
  ASSUME part = "media", [InputNext]_inputVars
  PROVE  part' = "media" /\ (Sessions!Next \/ UNCHANGED media)
BY DEF InputNext, inputVars, Others

LEMMA WithPortsIs ==
  ASSUME NEW x \in Subsession, NEW port \in Nat, NEW rtp \in Ports \cup {0}, NEW rtcp \in Ports \cup {0}
  PROVE  Sessions!WithPorts(x, port, rtp, rtcp) \in Subsession
BY DEF Sessions!WithPorts, Subsession

\* A port that nobody has is held by no subsession.
LEMMA FreeIsNotHeld ==
  ASSUME PortsInv, NEW p \in Sessions!Free
  PROVE  p \in Ports /\ p # 0 /\ \A i \in Nat : ~Holds(i, p)
<1>1. p \in Ports /\ p \notin Sessions!HeldPorts
  BY DEF Sessions!Free
<1>2. ASSUME NEW i \in Nat PROVE <<i, p>> \notin bound
  BY <1>1 DEF Sessions!HeldPorts
<1> QED BY <1>1, <1>2, MediaAssumption DEF PortsInv, BoundInv

\* Nor does a socket that is bound next to others share the port of a pair that the client has chosen.
LEMMA ReusableIsNotOwn ==
  ASSUME PortsInv, tried = {}, NEW p \in Sessions!Reusable
  PROVE  /\ p \in Ports /\ p # 0
         /\ \A i \in 1 .. Len(session) : ~session[i].given => session[i].rtp # p
<1>1. CASE p \in Sessions!Free
  <2>1. \A i \in 1 .. Len(session) : session[i].rtp # p
    BY <1>1, FreeIsNotHeld DEF Holds
  <2> QED BY <1>1, <2>1, FreeIsNotHeld
<1>2. CASE p \notin Sessions!Free
  <2>1. PICK own \in bound : p = own[2] /\ session[own[1]].given
    BY <1>2 DEF Sessions!Reusable
  <2>2. own[1] \in Nat /\ own[2] \in Ports /\ own = <<own[1], own[2]>>
    BY DEF PortsInv, BoundInv
  <2>3. Holds(own[1], p)
    BY <2>1, <2>2 DEF PortsInv, BoundInv
  <2>4. own[1] \in 1 .. Len(session) /\ (session[own[1]].rtp = p \/ session[own[1]].rtcp = p)
    BY <2>3 DEF Holds
  <2>5. p # 0
    BY <2>1, <2>2, MediaAssumption
  <2> QED BY <2>1, <2>2, <2>4, <2>5 DEF PortsInv, OwnInv
<1> QED BY <1>1, <1>2

\* Where the current subsession changes into x.
Changes(x) == x \in Subsession /\ session' = [session EXCEPT ![current] = x]

LEMMA OneChanges ==
  ASSUME PortsInv, Initiating, NEW x, Changes(x)
  PROVE  /\ current \in 1 .. Len(session) /\ session[current] \in Subsession
         /\ session' \in Seq(Subsession) /\ Len(session') = Len(session) /\ Len(session) \in Nat
         /\ session'[current] = x
         /\ \A i \in 1 .. Len(session) : i # current => session'[i] = session[i]
<1>1. session \in Seq(Subsession) /\ current \in 1 .. Len(session)
  BY DEF PortsInv, MediaInv
<1>2. /\ session' \in Seq(Subsession) /\ Len(session') = Len(session)
      /\ \A i \in 1 .. Len(session) : session'[i] = IF i = current THEN x ELSE session[i]
  BY <1>1, ExceptSeq DEF Changes
<1> QED BY <1>1, <1>2

\* The sockets follow when those of the current subsession do.
LEMMA SocketsFollow ==
  ASSUME PortsInv, Initiating, NEW x, Changes(x),
         tried' = {} \/ current' = current,
         bound' \subseteq Nat \X Ports,
         \A i \in Nat, p \in Ports :
           <<i, p>> \in bound' <=> IF i = current THEN p \in ({x.rtp, x.rtcp} \ {0}) \cup tried'
                                   ELSE <<i, p>> \in bound
  PROVE  BoundInv'
<1>1. /\ current \in 1 .. Len(session) /\ Len(session') = Len(session) /\ session'[current] = x
      /\ \A i \in 1 .. Len(session) : i # current => session'[i] = session[i]
  BY OneChanges
<1>2. ASSUME NEW i \in Nat, NEW p \in Ports PROVE <<i, p>> \in bound' <=> Holds(i, p)'
  <2>1. CASE i = current
    BY <1>1, <2>1 DEF Holds
  <2>2. CASE i # current
    <3>1. Holds(i, p) <=> i \in 1 .. Len(session) /\ p \in {session[i].rtp, session[i].rtcp} \ {0}
      BY <2>2 DEF Holds
    <3>2. Holds(i, p)' <=> i \in 1 .. Len(session') /\ p \in {session'[i].rtp, session'[i].rtcp} \ {0}
      BY <2>2 DEF Holds
    <3>3. <<i, p>> \in bound <=> Holds(i, p)
      BY DEF PortsInv, BoundInv
    <3> QED BY <1>1, <2>2, <3>1, <3>2, <3>3
  <2> QED BY <2>1, <2>2
<1> QED BY <1>2 DEF BoundInv

\* A pair stays its own when the current subsession gets ports that no pair has.
LEMMA PairsStayOwn ==
  ASSUME PortsInv, Initiating, NEW x, Changes(x),
         \A i \in 1 .. Len(session) : i # current =>
           /\ ~session[i].given /\ session[i].rtp # 0 => x.rtp # session[i].rtp /\ x.rtcp # session[i].rtp
           /\ ~x.given /\ x.rtp # 0 => session[i].rtp # x.rtp /\ session[i].rtcp # x.rtp
  PROVE  OwnInv'
<1>1. /\ current \in 1 .. Len(session) /\ Len(session') = Len(session) /\ session'[current] = x
      /\ \A i \in 1 .. Len(session) : i # current => session'[i] = session[i]
  BY OneChanges
<1>2. ASSUME NEW i \in 1 .. Len(session), NEW j \in 1 .. Len(session), i # j,
             ~session'[i].given, session'[i].rtp # 0
      PROVE  session'[j].rtp # session'[i].rtp /\ session'[j].rtcp # session'[i].rtp
  <2>1. CASE i # current /\ j # current
    BY <1>1, <1>2, <2>1 DEF PortsInv, OwnInv
  <2>2. CASE i = current
    BY <1>1, <1>2, <2>2
  <2>3. CASE j = current
    BY <1>1, <1>2, <2>3
  <2> QED BY <2>1, <2>2, <2>3
<1> QED BY <1>1, <1>2 DEF OwnInv

\* The loop of OpenStream goes on from a subsession that is done.
LEMMA ContinueStep ==
  ASSUME PortsInv, Initiating, NEW x, Changes(x), IsDone(x), NEW sockets, Sessions!Continue(session', sockets),
         \/ x.rtp = session[current].rtp /\ x.rtcp = session[current].rtcp /\ (~x.given => ~session[current].given)
         \/ x.rtp = 0 /\ x.rtcp = 0,
         sockets \subseteq Nat \X Ports,
         \A i \in Nat, p \in Ports :
           <<i, p>> \in sockets <=> IF i = current THEN p \in {x.rtp, x.rtcp} \ {0} ELSE <<i, p>> \in bound
  PROVE  PortsInv'
<1>1. MediaInv /\ OwnInv
  BY DEF PortsInv
<1>2. /\ current \in 1 .. Len(session) /\ session' \in Seq(Subsession) /\ Len(session') = Len(session)
      /\ Len(session) \in Nat /\ session'[current] = x
      /\ \A i \in 1 .. Len(session) : i # current => session'[i] = session[i]
  BY OneChanges
<1>3. tried' = {} /\ bound' = sockets
  BY DEF Sessions!Continue
<1>4. BoundInv'
  BY <1>3, SocketsFollow
<1>5. OwnInv'
  BY <1>1, <1>2, PairsStayOwn DEF OwnInv
<1>6. \A i \in current + 1 .. Len(session) : IsNew(session'[i])
  BY <1>1, <1>2 DEF MediaInv
<1>7. \A i \in 1 .. current : IsDone(session'[i])
  <2> SUFFICES ASSUME NEW i \in 1 .. current PROVE IsDone(session'[i])
    OBVIOUS
  <2>1. CASE i = current
    BY <1>2, <2>1
  <2>2. CASE i # current
    BY <1>1, <1>2, <2>2 DEF MediaInv
  <2> QED BY <2>1, <2>2
<1>8. MediaInv'
  <2>1. CASE current < Len(session)
    <3>1. step' = "initiate" /\ current' = current + 1
      BY <2>1 DEF Sessions!Continue
    <3>2. current' \in 1 .. Len(session') /\ IsNew(session'[current'])
      BY <1>2, <1>6, <2>1, <3>1
    <3>3. CurrentInv'
      BY <3>1, <3>2 DEF CurrentInv
    <3>4. \A i \in current' + 1 .. Len(session') : IsNew(session'[i])
      BY <1>2, <1>6, <3>1
    <3>5. \A i \in 1 .. current' - 1 : IsDone(session'[i])
      BY <1>2, <1>7, <3>1
    <3> QED BY <1>2, <1>3, <3>1, <3>2, <3>3, <3>4, <3>5 DEF MediaInv
  <2>2. CASE ~(current < Len(session))
    <3>1. step' = "receivers" /\ current' = current /\ current = Len(session)
      BY <1>2, <2>2 DEF Sessions!Continue
    <3> QED BY <1>1, <1>2, <1>3, <1>7, <3>1 DEF MediaInv, Initiating
  <2> QED BY <2>1, <2>2
<1> QED BY <1>4, <1>5, <1>8 DEF PortsInv

LEMMA DescribeStep ==
  ASSUME PortsInv, NEW lines \in Descriptions, Sessions!Describe(lines)
  PROVE  PortsInv'
<1> DEFINE parsed == Sessions!InitializeWithSDP(lines)
<1>1. IsParsed(parsed)
  BY SessionIsNew
<1>2. /\ step = "closed" /\ current' = 1 /\ UNCHANGED <<tried, bound, taken>>
      /\ session' = IF parsed.ok /\ parsed.list # <<>> THEN parsed.list ELSE <<>>
      /\ step' = IF parsed.ok /\ parsed.list # <<>> THEN "initiate" ELSE "closed"
  BY DEF Sessions!Describe
<1> HIDE DEF parsed
<1>3. session = <<>> /\ tried = {} /\ MediaInv
  BY <1>2 DEF PortsInv, MediaInv
<1>4. /\ session' \in Seq(Subsession) /\ Len(session') \in Nat
      /\ \A i \in 1 .. Len(session') : IsNew(session'[i])
  <2>1. <<>> \in Seq(Subsession) /\ Len(<<>>) = 0
    BY EmptySeq
  <2>2. parsed.list \in Seq(Subsession) /\ \A i \in 1 .. Len(parsed.list) : IsNew(parsed.list[i])
    BY <1>1 DEF IsParsed
  <2> QED BY <1>2, <2>1, <2>2
<1>5. MediaInv'
  <2>1. CASE step' = "closed"
    BY <1>2, <1>3, <1>4, <2>1 DEF MediaInv, Initiating
  <2>2. CASE step' = "initiate"
    <3>1. session' # <<>>
      BY <1>2, <2>2
    <3>2. 1 \in 1 .. Len(session')
      BY <1>4, <3>1, EmptySeq
    <3>3. CurrentInv'
      BY <1>2, <1>4, <2>2, <3>2 DEF CurrentInv
    <3>4. /\ \A i \in current' + 1 .. Len(session') : IsNew(session'[i])
          /\ \A i \in 1 .. current' - 1 : IsDone(session'[i])
      BY <1>2, <1>4
    <3> QED BY <1>2, <1>3, <1>4, <2>2, <3>2, <3>3, <3>4 DEF MediaInv
  <2> QED BY <1>2, <2>1, <2>2
<1>6. BoundInv'
  <2>1. \A i \in Nat, p \in Ports : <<i, p>> \notin bound
    <3>1. Len(session) = 0
      BY <1>3
    <3>2. \A i \in Nat, p \in Ports : ~Holds(i, p)
      BY <1>3, <3>1 DEF Holds
    <3> QED BY <3>2 DEF PortsInv, BoundInv
  <2>2. ASSUME NEW i \in Nat, NEW p \in Ports PROVE ~Holds(i, p)'
    BY <1>2, <1>3, <1>4 DEF Holds, IsNew
  <2> QED BY <1>2, <2>1, <2>2 DEF PortsInv, BoundInv
<1>7. OwnInv'
  BY <1>4 DEF OwnInv, IsNew
<1> QED BY <1>5, <1>6, <1>7 DEF PortsInv

LEMMA GivenPortsStep ==
  ASSUME PortsInv, Sessions!GivenPorts
  PROVE  PortsInv'
<1> DEFINE s == session[current]
           even == s.clientPort - (s.clientPort % 2)
           rtp == IF even \in Sessions!Reusable THEN even ELSE 0
           rtcp == IF even + 1 \in Sessions!Reusable THEN even + 1 ELSE 0
           x == Sessions!WithPorts(s, even, rtp, rtcp)
<1>1. /\ step = "initiate" /\ s.clientPort # 0 /\ step' = "source"
      /\ session' = [session EXCEPT ![current] = x]
      /\ bound' = bound \cup ({current} \X ({rtp, rtcp} \ {0}))
      /\ UNCHANGED <<opens, current, tried, taken>>
  <2>1. session' = [session EXCEPT ![current] = Sessions!WithPorts(@, even, rtp, rtcp)]
    BY DEF Sessions!GivenPorts, Sessions!None
  <2>2. [session EXCEPT ![current] = Sessions!WithPorts(@, even, rtp, rtcp)] = [session EXCEPT ![current] = x]
    OBVIOUS
  <2> HIDE DEF x
  <2> QED BY <2>1, <2>2 DEF Sessions!GivenPorts, Sessions!None
<1>2. MediaInv /\ tried = {} /\ Initiating
  BY <1>1 DEF PortsInv, MediaInv, Initiating
<1>3. s \in Subsession /\ IsNew(s) /\ current \in 1 .. Len(session)
  BY <1>1, <1>2 DEF MediaInv, CurrentInv
<1>4. s.given /\ s.rtp = 0 /\ s.rtcp = 0 /\ s.clientPort \in Nat
  BY <1>1, <1>3 DEF IsNew, Subsession
<1>5. even \in Nat
  BY <1>4
<1>6. rtp \in Ports \cup {0} /\ rtcp \in Ports \cup {0}
  BY <1>2, ReusableIsNotOwn
<1>7. \A i \in 1 .. Len(session) : ~session[i].given /\ session[i].rtp # 0 =>
         rtp # session[i].rtp /\ rtcp # session[i].rtp
  BY <1>2, ReusableIsNotOwn
<1> HIDE DEF s, even, rtp, rtcp
<1>8. x \in Subsession /\ x.given /\ x.rtp = rtp /\ x.rtcp = rtcp
  <2>1. x = Sessions!WithPorts(s, even, rtp, rtcp)
    OBVIOUS
  <2> HIDE DEF x
  <2>2. x \in Subsession
    BY <1>3, <1>5, <1>6, <2>1, WithPortsIs
  <2>3. x.given = s.given /\ x.rtp = rtp /\ x.rtcp = rtcp
    BY <1>3, <2>1 DEF Sessions!WithPorts, Subsession
  <2> QED BY <1>4, <2>2, <2>3
<1> HIDE DEF x
<1>9. Changes(x)
  BY <1>1, <1>8 DEF Changes
<1>10. /\ session' \in Seq(Subsession) /\ Len(session') = Len(session) /\ session'[current] = x
       /\ \A i \in 1 .. Len(session) : i # current => session'[i] = session[i]
  BY <1>2, <1>9, OneChanges
<1>11. BoundInv'
  <2>1. bound' \subseteq Nat \X Ports
    BY <1>1, <1>2, <1>6 DEF PortsInv, BoundInv, MediaInv
  <2>2. ASSUME NEW i \in Nat, NEW p \in Ports
        PROVE  <<i, p>> \in bound' <=> IF i = current THEN p \in ({rtp, rtcp} \ {0}) \cup tried'
                                       ELSE <<i, p>> \in bound
    <3>1. ~Holds(current, p)
      BY <1>2, <1>4 DEF Holds, s
    <3>2. <<i, p>> \in bound <=> Holds(i, p)
      BY DEF PortsInv, BoundInv
    <3> QED BY <1>1, <1>2, <3>1, <3>2
  <2> QED BY <1>1, <1>2, <1>8, <1>9, <2>1, <2>2, SocketsFollow
<1>12. OwnInv'
  BY <1>2, <1>7, <1>8, <1>9, PairsStayOwn
<1>13. MediaInv'
  <2>1. CurrentInv'
    BY <1>1, <1>8, <1>10 DEF CurrentInv
  <2> QED BY <1>1, <1>2, <1>3, <1>10, <2>1 DEF MediaInv, Initiating
<1> QED BY <1>11, <1>12, <1>13 DEF PortsInv

\* A port that was free is not one of another subsession.
LEMMA FreeIsNobodys ==
  ASSUME PortsInv, NEW p \in Sessions!Free, NEW i \in 1 .. Len(session)
  PROVE  session[i].rtp # p /\ session[i].rtcp # p
<1>1. i \in Nat /\ p \in Ports /\ p # 0 /\ ~Holds(i, p)
  BY FreeIsNotHeld DEF PortsInv, MediaInv
<1> QED BY <1>1 DEF Holds

LEMMA RtpSocketStep ==
  ASSUME PortsInv, NEW port \in Ports, Sessions!RtpSocket(port)
  PROVE  PortsInv'
<1> DEFINE s == session[current]
           x == Sessions!WithPorts(s, port, port, s.rtcp)
<1>1. /\ step = "rtp" /\ port \in Sessions!Free /\ bound' = bound \cup {<<current, port>>}
      /\ session' = [session EXCEPT ![current] = x]
      /\ IF port % 2 # 0 THEN tried' = tried \cup {port} /\ step' = step ELSE step' = "rtcp" /\ tried' = tried
      /\ UNCHANGED <<opens, current, taken>>
  <2>1. session' = [session EXCEPT ![current] = Sessions!WithPorts(@, port, port, @.rtcp)]
    BY DEF Sessions!RtpSocket
  <2>2. [session EXCEPT ![current] = Sessions!WithPorts(@, port, port, @.rtcp)] = [session EXCEPT ![current] = x]
    OBVIOUS
  <2> HIDE DEF x
  <2> QED BY <2>1, <2>2 DEF Sessions!RtpSocket, Sessions!IsOdd
<1>2. MediaInv /\ Initiating /\ port \in Nat /\ port # 0
  BY <1>1, MediaAssumption DEF PortsInv, Initiating
<1>3. s \in Subsession /\ current \in 1 .. Len(session)
  BY <1>2 DEF MediaInv
<1>4. ~s.given /\ s.rtcp = 0 /\ (s.rtp = 0 \/ s.rtp \in tried)
  BY <1>1, <1>2 DEF MediaInv, CurrentInv
<1>5. \A i \in 1 .. Len(session) : session[i].rtp # port /\ session[i].rtcp # port
  BY <1>1, FreeIsNobodys
<1> HIDE DEF s
<1>6. /\ x \in Subsession /\ x.given = s.given /\ x.rtp = port /\ x.rtcp = s.rtcp /\ x.clientPort = port
  <2>1. s.rtcp \in Ports \cup {0} /\ port \in Ports \cup {0}
    BY <1>4
  <2>2. x = Sessions!WithPorts(s, port, port, s.rtcp)
    OBVIOUS
  <2> HIDE DEF x
  <2>3. x \in Subsession
    BY <1>2, <1>3, <2>1, <2>2, WithPortsIs
  <2>4. x.given = s.given /\ x.rtp = port /\ x.rtcp = s.rtcp /\ x.clientPort = port
    BY <1>3, <2>2 DEF Sessions!WithPorts, Subsession
  <2> QED BY <2>3, <2>4
<1> HIDE DEF x
<1>7. Changes(x)
  BY <1>1, <1>6 DEF Changes
<1>8. /\ session' \in Seq(Subsession) /\ Len(session') = Len(session) /\ session'[current] = x
      /\ \A i \in 1 .. Len(session) : i # current => session'[i] = session[i]
  BY <1>2, <1>7, OneChanges
<1>9. BoundInv'
  <2>1. bound' \subseteq Nat \X Ports
    BY <1>1, <1>2 DEF PortsInv, BoundInv, MediaInv
  <2>2. ASSUME NEW i \in Nat, NEW p \in Ports
        PROVE  <<i, p>> \in bound' <=> IF i = current THEN p \in ({x.rtp, x.rtcp} \ {0}) \cup tried'
                                       ELSE <<i, p>> \in bound
    <3>1. <<i, p>> \in bound <=> Holds(i, p)
      BY DEF PortsInv, BoundInv
    <3>2. i = current => (Holds(i, p) <=> p \in tried)
      BY <1>3, <1>4, MediaAssumption DEF Holds, s
    <3>3. tried' \in {tried, tried \cup {port}}
      BY <1>1
    <3> QED BY <1>1, <1>2, <1>4, <1>6, <3>1, <3>2, <3>3
  <2> QED BY <1>1, <1>2, <1>7, <2>1, <2>2, SocketsFollow
<1>10. OwnInv'
  <2> SUFFICES ASSUME NEW i \in 1 .. Len(session), i # current
               PROVE  /\ ~session[i].given /\ session[i].rtp # 0 => x.rtp # session[i].rtp /\ x.rtcp # session[i].rtp
                      /\ session[i].rtp # x.rtp /\ session[i].rtcp # x.rtp
    BY <1>2, <1>7, PairsStayOwn
  <2> QED BY <1>4, <1>5, <1>6
<1>11. MediaInv'
  <2>1. tried' \subseteq {p \in Ports : p % 2 # 0}
    BY <1>1, <1>2 DEF MediaInv
  <2>2. ~x.given
    BY <1>4, <1>6
  <2>3. CurrentInv'
    <3>1. CASE port % 2 # 0
      BY <1>1, <1>4, <1>6, <1>8, <2>2, <3>1 DEF CurrentInv
    <3>2. CASE ~(port % 2 # 0)
      BY <1>1, <1>2, <1>4, <1>6, <1>8, <2>2, <3>2 DEF CurrentInv, HasPair
    <3> QED BY <3>1, <3>2
  <2>4. step' \in {"rtp", "rtcp"}
    BY <1>1
  <2> QED BY <1>1, <1>2, <1>3, <1>8, <2>1, <2>3, <2>4 DEF MediaInv, Initiating
<1> QED BY <1>9, <1>10, <1>11 DEF PortsInv

LEMMA RtcpSocketStep ==
  ASSUME PortsInv, Sessions!RtcpSocket
  PROVE  PortsInv'
<1> DEFINE s == session[current]
           next == s.rtp + 1
           rtcp == IF next \in Sessions!Free THEN next ELSE 0
           x == Sessions!WithPorts(s, s.clientPort, s.rtp, rtcp)
<1>1. /\ step = "rtcp" /\ bound' = (bound \ ({current} \X tried)) \cup ({current} \X ({rtcp} \ {0}))
      /\ session' = [session EXCEPT ![current] = x]
      /\ tried' = {} /\ step' = "source" /\ UNCHANGED <<opens, current, taken>>
  <2>1. session' = [session EXCEPT ![current] = Sessions!WithPorts(@, @.clientPort, @.rtp, rtcp)]
    BY DEF Sessions!RtcpSocket, Sessions!None
  <2>2. [session EXCEPT ![current] = Sessions!WithPorts(@, @.clientPort, @.rtp, rtcp)]
          = [session EXCEPT ![current] = x]
    OBVIOUS
  <2> HIDE DEF x
  <2> QED BY <2>1, <2>2 DEF Sessions!RtcpSocket, Sessions!None, Sessions!CleanUp
<1>2. MediaInv /\ Initiating
  BY <1>1 DEF PortsInv, Initiating
<1>3. s \in Subsession /\ current \in 1 .. Len(session)
  BY <1>2 DEF MediaInv
<1>4. ~s.given /\ s.rtcp = 0 /\ HasPair(s)
  BY <1>1, <1>2 DEF MediaInv, CurrentInv
<1>5. s.rtp \in Ports /\ s.rtp \in Nat /\ s.clientPort \in Nat /\ s.rtp \notin tried
  BY <1>2, <1>3, <1>4, MediaAssumption DEF HasPair, Subsession, MediaInv
<1>6. /\ rtcp \in Ports \cup {0} /\ rtcp \in {0, s.rtp + 1}
      /\ rtcp # 0 => \A i \in 1 .. Len(session) : session[i].rtp # rtcp /\ session[i].rtcp # rtcp
      /\ rtcp \notin tried
  <2>1. CASE next \in Sessions!Free
    <3>1. next \in Ports /\ next # 0 /\ ~Holds(current, next)
      BY <1>2, <2>1, FreeIsNotHeld DEF MediaInv
    <3>2. next \notin tried
      BY <3>1 DEF Holds
    <3> QED BY <2>1, <3>1, <3>2, FreeIsNobodys
  <2>2. CASE next \notin Sessions!Free
    BY <1>2, <2>2, MediaAssumption DEF MediaInv
  <2> QED BY <2>1, <2>2
<1> HIDE DEF s, next, rtcp
<1>7. x \in Subsession /\ x.given = s.given /\ x.rtp = s.rtp /\ x.rtcp = rtcp /\ x.clientPort = s.clientPort
  <2>1. s.rtp \in Ports \cup {0} /\ rtcp \in Ports \cup {0}
    BY <1>5, <1>6
  <2>2. x = Sessions!WithPorts(s, s.clientPort, s.rtp, rtcp)
    OBVIOUS
  <2> HIDE DEF x
  <2>3. x \in Subsession
    BY <1>3, <1>5, <2>1, <2>2, WithPortsIs
  <2>4. x.given = s.given /\ x.rtp = s.rtp /\ x.rtcp = rtcp /\ x.clientPort = s.clientPort
    BY <1>3, <2>2 DEF Sessions!WithPorts, Subsession
  <2> QED BY <2>3, <2>4
<1> HIDE DEF x
<1>8. Changes(x)
  BY <1>1, <1>7 DEF Changes
<1>9. /\ session' \in Seq(Subsession) /\ Len(session') = Len(session) /\ session'[current] = x
      /\ \A i \in 1 .. Len(session) : i # current => session'[i] = session[i]
  BY <1>2, <1>8, OneChanges
<1>10. BoundInv'
  <2>1. bound' \subseteq Nat \X Ports
    BY <1>1, <1>2, <1>6 DEF PortsInv, BoundInv, MediaInv
  <2>2. ASSUME NEW i \in Nat, NEW p \in Ports
        PROVE  <<i, p>> \in bound' <=> IF i = current THEN p \in ({x.rtp, x.rtcp} \ {0}) \cup tried'
                                       ELSE <<i, p>> \in bound
    <3>1. <<i, p>> \in bound <=> Holds(i, p)
      BY DEF PortsInv, BoundInv
    <3>2. i = current => (Holds(i, p) <=> p = s.rtp \/ p \in tried)
      BY <1>3, <1>4, <1>5, MediaAssumption DEF Holds, s
    <3>3. p # 0
      BY MediaAssumption
    <3> QED BY <1>1, <1>5, <1>6, <1>7, <3>1, <3>2, <3>3
  <2> QED BY <1>1, <1>2, <1>8, <2>1, <2>2, SocketsFollow
<1>11. OwnInv'
  <2> SUFFICES ASSUME NEW i \in 1 .. Len(session), i # current
               PROVE  /\ ~session[i].given /\ session[i].rtp # 0 => x.rtp # session[i].rtp /\ x.rtcp # session[i].rtp
                      /\ session[i].rtp # x.rtp /\ session[i].rtcp # x.rtp
    BY <1>2, <1>8, PairsStayOwn
  <2>1. ~session[current].given /\ session[current].rtp = s.rtp /\ s.rtp # 0
    BY <1>4 DEF HasPair, s
  <2>2. session[i].rtp # s.rtp /\ session[i].rtcp # s.rtp
    BY <1>3, <2>1 DEF PortsInv, OwnInv
  <2>3. rtcp # 0 => session[i].rtp # rtcp
    BY <1>6
  <2> QED BY <1>7, <2>2, <2>3
<1>12. MediaInv'
  <2>1. HasPair(x)
    BY <1>4, <1>6, <1>7 DEF HasPair
  <2>2. CurrentInv'
    BY <1>1, <1>9, <2>1 DEF CurrentInv
  <2> QED BY <1>1, <1>2, <1>3, <1>9, <2>2 DEF MediaInv, Initiating
<1> QED BY <1>10, <1>11, <1>12 DEF PortsInv

LEMMA NoRtpSocketStep ==
  ASSUME PortsInv, Sessions!NoRtpSocket
  PROVE  PortsInv'
<1> DEFINE s == session[current]
           x == Sessions!WithPorts(s, 0, 0, 0)
           sockets == bound \ ({current} \X tried)
<1>1. step = "rtp" /\ Sessions!Continue([session EXCEPT ![current] = x], sockets)
  <2>1. Sessions!FailedSubsession = x
    BY DEF Sessions!FailedSubsession, Sessions!None
  <2> HIDE DEF x
  <2> QED BY <2>1 DEF Sessions!NoRtpSocket, Sessions!CleanUp
<1>2. MediaInv /\ Initiating
  BY <1>1 DEF PortsInv, Initiating
<1>3. s \in Subsession /\ current \in 1 .. Len(session)
  BY <1>2 DEF MediaInv
<1>4. s.rtcp = 0 /\ (s.rtp = 0 \/ s.rtp \in tried)
  BY <1>1, <1>2 DEF MediaInv, CurrentInv
<1> HIDE DEF s
<1>5. x \in Subsession /\ x.clientPort = 0 /\ x.rtp = 0 /\ x.rtcp = 0
  <2>1. x \in Subsession
    BY <1>3, WithPortsIs
  <2>2. x.clientPort = 0 /\ x.rtp = 0 /\ x.rtcp = 0
    BY <1>3 DEF Sessions!WithPorts, Subsession
  <2> QED BY <2>1, <2>2
<1> HIDE DEF x
<1>6. sockets \subseteq Nat \X Ports
  BY DEF PortsInv, BoundInv
<1>7. ASSUME NEW i \in Nat, NEW p \in Ports
      PROVE  <<i, p>> \in sockets <=> IF i = current THEN p \in {x.rtp, x.rtcp} \ {0} ELSE <<i, p>> \in bound
  <2>1. <<i, p>> \in bound <=> Holds(i, p)
    BY DEF PortsInv, BoundInv
  <2>2. i = current => (Holds(i, p) <=> p \in tried)
    BY <1>3, <1>4, MediaAssumption DEF Holds, s
  <2> QED BY <1>5, <2>1, <2>2
<1> HIDE DEF sockets
<1>8. session' = [session EXCEPT ![current] = x] /\ Sessions!Continue(session', sockets)
  BY <1>1 DEF Sessions!Continue
<1>9. Changes(x) /\ IsDone(x)
  BY <1>5, <1>8 DEF Changes, IsDone
<1> QED BY <1>2, <1>5, <1>6, <1>7, <1>8, <1>9, ContinueStep

LEMMA CreateSourceStep ==
  ASSUME PortsInv, Sessions!CreateSource
  PROVE  PortsInv'
<1> DEFINE s == session[current]
<1>1. step = "source"
  BY DEF Sessions!CreateSource
<1>2. MediaInv /\ Initiating /\ tried = {}
  BY <1>1 DEF PortsInv, Initiating, MediaInv
<1>3. s \in Subsession /\ current \in 1 .. Len(session)
  BY <1>2 DEF MediaInv
<1>4. s.given \/ HasPair(s)
  BY <1>1, <1>2 DEF MediaInv, CurrentInv
<1>5. ASSUME NEW p \in Ports PROVE <<current, p>> \in bound <=> p \in {s.rtp, s.rtcp} \ {0}
  <2>1. <<current, p>> \in bound <=> Holds(current, p)
    BY <1>2 DEF PortsInv, BoundInv, MediaInv
  <2> QED BY <1>2, <1>3, <2>1 DEF Holds
<1>6. CASE Sessions!HasReadSource(s)
  <2> DEFINE x == Sessions!WithRtcpInstance(s)
  <2>1. Sessions!Continue([session EXCEPT ![current] = x], bound)
    <3>1. Sessions!Continue([session EXCEPT ![current] = Sessions!WithRtcpInstance(@)], bound)
      BY <1>6 DEF Sessions!CreateSource
    <3>2. [session EXCEPT ![current] = Sessions!WithRtcpInstance(@)] = [session EXCEPT ![current] = x]
      OBVIOUS
    <3> HIDE DEF x
    <3> QED BY <3>1, <3>2
  <2> HIDE DEF s
  <2>2. x \in Subsession
    BY <1>3 DEF Sessions!WithRtcpInstance, Subsession
  <2>3. x.clientPort = s.clientPort /\ x.rtp = s.rtp /\ x.rtcp = s.rtcp /\ x.given = s.given
    BY <1>3 DEF Sessions!WithRtcpInstance, Subsession
  <2>4. x.source
    BY <1>3 DEF Sessions!WithRtcpInstance, Subsession
  <2> HIDE DEF x
  <2>5. session' = [session EXCEPT ![current] = x] /\ Sessions!Continue(session', bound)
    BY <2>1 DEF Sessions!Continue
  <2>6. IsDone(x)
    <3>1. CASE s.given
      <4>1. x.given
        BY <2>3, <3>1
      <4> QED BY <4>1 DEF IsDone
    <3>2. CASE HasPair(s)
      BY <2>3, <2>4, <3>2 DEF IsDone, HasPair
    <3> QED BY <1>4, <3>1, <3>2
  <2>7. Changes(x)
    BY <2>2, <2>5 DEF Changes
  <2>8. bound \subseteq Nat \X Ports
    BY DEF PortsInv, BoundInv
  <2>9. \A i \in Nat, p \in Ports :
          <<i, p>> \in bound <=> IF i = current THEN p \in {x.rtp, x.rtcp} \ {0} ELSE <<i, p>> \in bound
    BY <1>5, <2>3
  <2>10. x.rtp = session[current].rtp /\ x.rtcp = session[current].rtcp /\ (~x.given => ~session[current].given)
    BY <2>3 DEF s
  <2> QED BY <1>2, <2>5, <2>6, <2>7, <2>8, <2>9, <2>10, ContinueStep
<1>7. CASE ~Sessions!HasReadSource(s)
  <2> DEFINE x == Sessions!WithPorts(s, 0, 0, 0)
             sockets == bound \ ({current} \X Ports)
  <2>1. Sessions!Continue([session EXCEPT ![current] = x], sockets)
    <3>1. Sessions!FailedSubsession = x
      BY DEF Sessions!FailedSubsession, Sessions!None
    <3> HIDE DEF x
    <3> QED BY <1>7, <3>1 DEF Sessions!CreateSource
  <2> HIDE DEF s
  <2>2. x \in Subsession /\ x.clientPort = 0 /\ x.rtp = 0 /\ x.rtcp = 0
    <3>1. x \in Subsession
      BY <1>3, WithPortsIs
    <3>2. x.clientPort = 0 /\ x.rtp = 0 /\ x.rtcp = 0
      BY <1>3 DEF Sessions!WithPorts, Subsession
    <3> QED BY <3>1, <3>2
  <2> HIDE DEF x
  <2>3. sockets \subseteq Nat \X Ports
    BY DEF PortsInv, BoundInv
  <2>4. \A i \in Nat, p \in Ports :
          <<i, p>> \in sockets <=> IF i = current THEN p \in {x.rtp, x.rtcp} \ {0} ELSE <<i, p>> \in bound
    BY <2>2
  <2> HIDE DEF sockets
  <2>5. session' = [session EXCEPT ![current] = x] /\ Sessions!Continue(session', sockets)
    BY <2>1 DEF Sessions!Continue
  <2>6. Changes(x) /\ IsDone(x)
    BY <2>2, <2>5 DEF Changes, IsDone
  <2> QED BY <1>2, <2>2, <2>3, <2>4, <2>5, <2>6, ContinueStep
<1> QED BY <1>6, <1>7

\* The rest of OpenStream, the end of the session, and the other programs.
LEMMA EphemeralStep ==
  ASSUME PortsInv, Sessions!Ephemeral
  PROVE  PortsInv'
<1>1. /\ step = "initiate" /\ session[current].clientPort = 0 /\ step' = "rtp"
      /\ UNCHANGED <<opens, session, current, tried, bound, taken>>
  BY DEF Sessions!Ephemeral
<1>2. MediaInv /\ BoundInv /\ OwnInv /\ current \in 1 .. Len(session) /\ IsNew(session[current]) /\ tried = {}
  BY <1>1 DEF PortsInv, MediaInv, Initiating, CurrentInv
<1>3. ~session[current].given /\ session[current].rtp = 0 /\ session[current].rtcp = 0
  BY <1>1, <1>2 DEF IsNew
<1>4. CurrentInv'
  BY <1>1, <1>3 DEF CurrentInv
<1>5. MediaInv'
  BY <1>1, <1>2, <1>4 DEF MediaInv, Initiating
<1>6. BoundInv'
  BY <1>1, <1>2 DEF BoundInv, Holds
<1>7. OwnInv'
  BY <1>1, <1>2 DEF OwnInv
<1> QED BY <1>5, <1>6, <1>7 DEF PortsInv

LEMMA SessionEnds ==
  ASSUME PortsInv, step \in {"receivers", "open"}, Sessions!Shutdown, UNCHANGED <<opens, current, tried, taken>>
  PROVE  PortsInv'
<1>1. session' = <<>> /\ bound' = {} /\ step' = "closed" /\ current' = current /\ tried' = tried
  BY DEF Sessions!Shutdown
<1>2. current \in Nat /\ tried = {}
  BY DEF PortsInv, MediaInv
<1>3. session' \in Seq(Subsession) /\ Len(session') = 0
  BY <1>1, EmptySeq
<1>4. MediaInv'
  BY <1>1, <1>2, <1>3 DEF MediaInv, Initiating
<1>5. BoundInv'
  BY <1>1, <1>2, <1>3 DEF BoundInv, Holds
<1>6. OwnInv'
  BY <1>3 DEF OwnInv
<1> QED BY <1>4, <1>5, <1>6 DEF PortsInv

LEMMA SetupStreamsStep ==
  ASSUME PortsInv, Sessions!SetupStreams
  PROVE  PortsInv'
<1>1. step = "receivers" /\ UNCHANGED <<opens, current, tried, taken>>
  BY DEF Sessions!SetupStreams
<1>2. CASE \E i \in 1 .. Len(session) : session[i].source
  <2>1. step' = "open" /\ UNCHANGED <<session, bound>>
    BY <1>2 DEF Sessions!SetupStreams
  <2>2. MediaInv'
    BY <1>1, <2>1 DEF PortsInv, MediaInv, Initiating
  <2>3. BoundInv'
    BY <1>1, <2>1 DEF PortsInv, BoundInv, Holds
  <2>4. OwnInv'
    BY <2>1 DEF PortsInv, OwnInv
  <2> QED BY <2>2, <2>3, <2>4 DEF PortsInv
<1>3. CASE ~\E i \in 1 .. Len(session) : session[i].source
  BY <1>1, <1>3, SessionEnds DEF Sessions!SetupStreams
<1> QED BY <1>2, <1>3

LEMMA TheSocketsStay ==
  ASSUME PortsInv, UNCHANGED <<step, session, current, tried, bound>>
  PROVE  PortsInv'
<1>1. MediaInv'
  BY DEF PortsInv, MediaInv, Initiating, CurrentInv
<1>2. BoundInv'
  BY DEF PortsInv, BoundInv, Holds
<1>3. OwnInv'
  BY DEF PortsInv, OwnInv
<1> QED BY <1>1, <1>2, <1>3 DEF PortsInv

LEMMA PortsStep ==
  ASSUME PortsInv, Sessions!Next \/ UNCHANGED media
  PROVE  PortsInv'
<1>1. CASE \E lines \in Descriptions : Sessions!Describe(lines)
  BY <1>1, DescribeStep
<1>2. CASE Sessions!GivenPorts
  BY <1>2, GivenPortsStep
<1>3. CASE Sessions!Ephemeral
  BY <1>3, EphemeralStep
<1>4. CASE \E port \in Ports : Sessions!RtpSocket(port)
  BY <1>4, RtpSocketStep
<1>5. CASE \E port \in Ports : Sessions!Take(port) \/ Sessions!Release(port)
  <2>1. UNCHANGED <<step, session, current, tried, bound>>
    BY <1>5 DEF Sessions!Take, Sessions!Release
  <2> QED BY <2>1, TheSocketsStay
<1>6. CASE Sessions!NoRtpSocket
  BY <1>6, NoRtpSocketStep
<1>7. CASE Sessions!RtcpSocket
  BY <1>7, RtcpSocketStep
<1>8. CASE Sessions!CreateSource
  BY <1>8, CreateSourceStep
<1>9. CASE Sessions!SetupStreams
  BY <1>9, SetupStreamsStep
<1>10. CASE Sessions!Close
  BY <1>10, SessionEnds DEF Sessions!Close
<1>11. CASE UNCHANGED media
  BY <1>11, TheSocketsStay DEF media
<1> QED BY <1>1, <1>2, <1>3, <1>4, <1>5, <1>6, <1>7, <1>8, <1>9, <1>10, <1>11 DEF Sessions!Next

LEMMA PortsInvIsEnough ==
  ASSUME PortsInv
  PROVE  Sessions!PortsAreRight
<1> DEFINE TwoOf(i) == {i} \X ({session[i].rtp, session[i].rtcp} \ {0})
           held == (UNION {TwoOf(i) : i \in 1 .. Len(session)}) \cup ({current} \X tried)
<1>1. /\ bound \subseteq Nat \X Ports /\ \A i \in Nat, p \in Ports : <<i, p>> \in bound <=> Holds(i, p)
      /\ current \in Nat /\ session \in Seq(Subsession) /\ tried \subseteq Ports
  BY DEF PortsInv, BoundInv, MediaInv
<1>2. \A i \in 1 .. Len(session) : session[i].rtp \in Ports \cup {0} /\ session[i].rtcp \in Ports \cup {0}
  <2>1. \A i \in 1 .. Len(session) : session[i] \in Subsession
    BY <1>1
  <2> QED BY <2>1 DEF Subsession
<1>3. bound \subseteq held
  <2> SUFFICES ASSUME NEW socket \in bound PROVE socket \in held
    OBVIOUS
  <2>1. PICK i \in Nat, p \in Ports : socket = <<i, p>>
    BY <1>1
  <2>2. Holds(i, p)
    BY <1>1, <2>1
  <2> QED BY <2>1, <2>2 DEF Holds
<1>4. held \subseteq bound
  <2>1. ASSUME NEW i \in 1 .. Len(session) PROVE TwoOf(i) \subseteq bound
    <3> SUFFICES ASSUME NEW p \in {session[i].rtp, session[i].rtcp} \ {0} PROVE <<i, p>> \in bound
      OBVIOUS
    <3>1. p \in Ports /\ Holds(i, p) /\ i \in Nat
      BY <1>2 DEF Holds
    <3> QED BY <1>1, <3>1
  <2>2. {current} \X tried \subseteq bound
    BY <1>1 DEF Holds
  <2> HIDE DEF TwoOf
  <2> QED BY <2>1, <2>2
<1>5. Sessions!NoSocketLeft
  <2>1. bound = held
    BY <1>3, <1>4
  <2> QED BY <2>1 DEF Sessions!NoSocketLeft, Sessions!None
<1>6. Sessions!SetupPortsAreHeld
  <2> SUFFICES ASSUME step = "open", NEW i \in 1 .. Len(session), ~session[i].given, session[i].clientPort # 0
               PROVE  /\ session[i].source /\ session[i].rtp = session[i].clientPort
                      /\ session[i].rtp % 2 = 0 /\ <<i, session[i].rtp>> \in bound
                      /\ session[i].rtcp \in {0, session[i].rtp + 1}
                      /\ \A j \in 1 .. Len(session) \ {i} :
                           session[j].rtp # session[i].rtp /\ session[j].rtcp # session[i].rtp
    BY DEF Sessions!SetupPortsAreHeld, Sessions!None
  <2>1. IsDone(session[i])
    BY DEF PortsInv, MediaInv
  <2>2. HasPair(session[i]) /\ session[i].source
    BY <2>1 DEF IsDone
  <2>3. session[i].rtp # 0 /\ session[i].rtp \in Ports
    BY <1>2, <2>2 DEF HasPair
  <2>4. <<i, session[i].rtp>> \in bound
    BY <1>1, <2>3 DEF Holds
  <2>5. \A j \in 1 .. Len(session) \ {i} : session[j].rtp # session[i].rtp /\ session[j].rtcp # session[i].rtp
    BY <2>3 DEF PortsInv, OwnInv
  <2> QED BY <2>2, <2>4, <2>5 DEF HasPair
<1> QED BY <1>5, <1>6 DEF Sessions!PortsAreRight

\* MediaSubsession::initiate, deInitiate, OpenStream: the client holds the sockets of its subsessions
\* and no others, and every SETUP names an even port that it holds and that no other subsession
\* receives on, whatever the server describes and the other programs take.
THEOREM SocketsAreTheSessions == InputSpec => []PortsAreRight
<1> DEFINE Inv == part = "media" => PortsInv
<1>1. InputInit => Inv
  <2> SUFFICES ASSUME Sessions!Init PROVE PortsInv
    BY DEF InputInit
  <2>1. session = <<>> /\ tried = {} /\ bound = {} /\ step = "closed" /\ current = 1
    BY DEF Sessions!Init
  <2>2. session \in Seq(Subsession) /\ Len(session) = 0
    BY <2>1, EmptySeq
  <2>3. MediaInv
    BY <2>1, <2>2 DEF MediaInv, Initiating
  <2>4. BoundInv
    BY <2>1, <2>2 DEF BoundInv, Holds
  <2>5. OwnInv
    BY <2>2 DEF OwnInv
  <2> QED BY <2>3, <2>4, <2>5 DEF PortsInv
<1>2. Inv /\ [InputNext]_inputVars => Inv'
  <2> SUFFICES ASSUME Inv, [InputNext]_inputVars, part' = "media" PROVE PortsInv'
    OBVIOUS
  <2>1. part = "media"
    BY DEF InputNext, inputVars, Others
  <2> QED BY <2>1, MediaOnly, PortsStep
<1>3. Inv => PortsAreRight
  BY PortsInvIsEnough DEF PortsAreRight
<1> QED BY <1>1, <1>2, <1>3, PTL DEF InputSpec

-----------------------------------------------------------------------------
(* EventLoop                                                               *)

\* How many handlers may still be called until the one at p is, after the one at l of n: those
\* between, or those behind l and, from the front on, as many as there may be before p by then.
Ahead(l, p, n) == IF p > l THEN p - l ELSE (n - l) + (Cardinality(Sockets) - 1)

Registered ==
  /\ fReadHandlers \in Seq(Sockets)
  /\ \A i, j \in 1 .. Len(fReadHandlers) : fReadHandlers[i] = fReadHandlers[j] => i = j

\* A socket that has been passed over is behind the one handled last, and gets nearer with every
\* step, wherever other handlers are taken out, and new ones put in front.
Soon(l, p, n, times) == times + Ahead(l, p, n) <= 2 * (Cardinality(Sockets) - 1)

InTurn ==
  /\ passed \in [Sockets -> Nat]
  /\ \A s \in Sockets : passed[s] > 0 =>
       \E l, p \in 1 .. Len(fReadHandlers) :
         /\ fReadHandlers[l] = fLastHandledSocketNum /\ fReadHandlers[p] = s /\ l # p
         /\ Soon(l, p, Len(fReadHandlers), passed[s])

LoopInv == Registered /\ InTurn

\* There are not more handlers than sockets.
LEMMA FewHandlers ==
  ASSUME Registered
  PROVE  Cardinality(Sockets) \in Nat /\ Len(fReadHandlers) \in Nat /\ Len(fReadHandlers) <= Cardinality(Sockets)
<1> DEFINE n == Len(fReadHandlers)
<1>1. n \in Nat /\ fReadHandlers \in [1 .. n -> Sockets]
  BY DEF Registered
<1>2. fReadHandlers \in Injection(1 .. n, Sockets)
  BY <1>1 DEF Registered, Injection, IsInjective
<1>3. IsFiniteSet(Sockets)
  BY LoopAssumption
<1>4. Cardinality(1 .. n) <= Cardinality(Sockets)
  BY <1>2, <1>3, FS_Injection
<1>5. Cardinality(1 .. n) = n
  BY <1>1, FS_Interval
<1> QED BY <1>1, <1>3, <1>4, <1>5, FS_CardinalityType

LEMMA LeastPlace ==
  ASSUME NEW S, S \subseteq Nat, S # {}
  PROVE  SocketsLoop!Min(S) \in S /\ \A y \in S : SocketsLoop!Min(S) <= y
<1>1. \E x \in S : \A y \in S : x <= y
  BY LeastOf
<1> QED BY <1>1 DEF SocketsLoop!Min

\* Which handler is next, if any socket is ready.
LEMMA NextIs ==
  ASSUME Registered, NEW p \in 1 .. Len(fReadHandlers), fReadHandlers[p] \in SocketsLoop!Ready
  PROVE  \E h \in 1 .. Len(fReadHandlers) :
           /\ SocketsLoop!NextHandler(SocketsLoop!Ready) = fReadHandlers[h]
           /\ \A l \in 1 .. Len(fReadHandlers) : fReadHandlers[l] = fLastHandledSocketNum =>
                IF p > l THEN h > l /\ h <= p ELSE h > l \/ h <= p
<1> DEFINE ready == SocketsLoop!Ready
           all == SocketsLoop!Of(ready)
           later == {i \in all : \A l \in SocketsLoop!Of({fLastHandledSocketNum}) : i > l}
           n == Len(fReadHandlers)
<1>1. n \in Nat /\ DOMAIN fReadHandlers = 1 .. n
  BY DEF Registered
<1>2. /\ all \subseteq 1 .. n /\ p \in all
      /\ later = {i \in all : \A l \in 1 .. n : fReadHandlers[l] = fLastHandledSocketNum => i > l}
  BY <1>1 DEF SocketsLoop!Of
<1>3. SocketsLoop!NextHandler(ready) = SocketsLoop!FirstOf(IF later # {} THEN later ELSE all)
  BY DEF SocketsLoop!NextHandler
<1> HIDE DEF ready, all, later
<1>4. \A l \in 1 .. n : fReadHandlers[l] = fLastHandledSocketNum => \A m \in 1 .. n : fReadHandlers[m] = fLastHandledSocketNum => m = l
  BY DEF Registered
<1>5. CASE later # {}
  <2> DEFINE h == SocketsLoop!Min(later)
  <2>1. later \subseteq Nat
    <3>1. later \subseteq all
      BY <1>2
    <3>2. 1 .. n \subseteq Nat
      BY <1>1
    <3> QED BY <1>2, <3>1, <3>2
  <2>2. h \in later /\ \A y \in later : h <= y
    BY <1>5, <2>1, LeastPlace
  <2>3. SocketsLoop!NextHandler(ready) = fReadHandlers[h]
    <3>1. SocketsLoop!NextHandler(ready) = SocketsLoop!FirstOf(later)
      BY <1>3, <1>5
    <3> QED BY <1>5, <3>1 DEF SocketsLoop!FirstOf
  <2> HIDE DEF h
  <2>4. h \in 1 .. n /\ \A l \in 1 .. n : fReadHandlers[l] = fLastHandledSocketNum => h > l
    BY <1>2, <2>2
  <2>5. ASSUME NEW l \in 1 .. n, fReadHandlers[l] = fLastHandledSocketNum, p > l PROVE h <= p
    <3>1. p \in later
      BY <1>2, <1>4, <2>5
    <3> QED BY <2>2, <3>1
  <2> QED BY <2>3, <2>4, <2>5 DEF ready
<1>6. CASE later = {}
  <2> DEFINE h == SocketsLoop!Min(all)
  <2>1. all \subseteq Nat /\ all # {}
    BY <1>1, <1>2
  <2>2. h \in all /\ \A y \in all : h <= y
    BY <2>1, LeastPlace
  <2>3. SocketsLoop!NextHandler(ready) = fReadHandlers[h]
    <3>1. SocketsLoop!NextHandler(ready) = SocketsLoop!FirstOf(all)
      BY <1>3, <1>6
    <3> QED BY <2>1, <3>1 DEF SocketsLoop!FirstOf
  <2> HIDE DEF h
  <2>4. h \in 1 .. n /\ h <= p
    BY <1>2, <2>2
  <2>5. ASSUME NEW l \in 1 .. n, fReadHandlers[l] = fLastHandledSocketNum, p > l PROVE FALSE
    <3>1. p \in later
      BY <1>2, <1>4, <2>5
    <3> QED BY <1>6, <3>1
  <2> QED BY <2>3, <2>4, <2>5 DEF ready
<1> QED BY <1>5, <1>6

LEMMA StepIsInTurn ==
  ASSUME LoopInv, SocketsLoop!SingleStep
  PROVE  LoopInv'
<1> DEFINE socket == SocketsLoop!NextHandler(SocketsLoop!Ready)
           n == Len(fReadHandlers)
<1>1. /\ fReadHandlers' = fReadHandlers /\ fLastHandledSocketNum' = socket
      /\ passed' = [s \in Sockets |-> IF s \in SocketsLoop!Ready \ {socket} THEN passed[s] + 1 ELSE 0]
      /\ readable' \in {readable, readable \ {socket}}
  BY DEF SocketsLoop!SingleStep
<1>2. Registered /\ InTurn /\ Registered'
  BY <1>1 DEF LoopInv, Registered
<1>3. passed \in [Sockets -> Nat]
  BY <1>2 DEF InTurn
<1>4. n \in Nat /\ DOMAIN fReadHandlers = 1 .. n
  BY <1>2 DEF Registered
<1> HIDE DEF socket
<1>5. ASSUME NEW s \in Sockets, s \in SocketsLoop!Ready \ {socket}
      PROVE  \E l, p \in 1 .. n : /\ fReadHandlers[l] = socket /\ fReadHandlers[p] = s /\ l # p
                                  /\ Soon(l, p, n, passed[s] + 1)
  <2>1. PICK p \in 1 .. n : fReadHandlers[p] = s /\ s \in readable
    BY <1>4, <1>5 DEF SocketsLoop!Ready, SocketsLoop!ToSet
  <2>2. PICK h \in 1 .. n :
          /\ socket = fReadHandlers[h]
          /\ \A l \in 1 .. n : fReadHandlers[l] = fLastHandledSocketNum =>
               IF p > l THEN h > l /\ h <= p ELSE h > l \/ h <= p
    BY <1>2, <1>5, <2>1, NextIs DEF socket
  <2>3. h # p
    BY <1>1, <1>5, <2>1, <2>2
  <2>4. passed[s] \in Nat
    BY <1>3
  <2>5. Soon(h, p, n, passed[s] + 1)
    <3> DEFINE N == Cardinality(Sockets)
    <3> N \in Nat /\ n <= N
      BY <1>2, FewHandlers
    <3>1. CASE passed[s] = 0
      <4>1. /\ p > h => p - h <= N - 1 /\ N >= 2
            /\ ~(p > h) => (n - h) + (N - 1) <= 2 * N - 3
        BY <1>4, <2>3
      <4>2. p > h => 1 + (p - h) <= 2 * (N - 1)
        BY <1>4, <4>1
      <4>3. ~(p > h) => 1 + ((n - h) + (N - 1)) <= 2 * (N - 1)
        BY <1>4, <4>1
      <4> QED BY <3>1, <4>2, <4>3 DEF Soon, Ahead
    <3>2. CASE passed[s] > 0
      <4>1. PICK l, q \in 1 .. n :
              /\ fReadHandlers[l] = fLastHandledSocketNum /\ fReadHandlers[q] = s /\ l # q
              /\ Soon(l, q, n, passed[s])
        BY <1>2, <3>2 DEF InTurn
      <4>2. q = p
        BY <1>2, <2>1, <4>1 DEF Registered
      <4>3. IF p > l THEN h > l /\ h <= p ELSE h > l \/ h <= p
        BY <2>2, <4>1
      <4>4. Ahead(h, p, n) + 1 <= Ahead(l, p, n)
        BY <1>4, <2>3, <4>1, <4>2, <4>3 DEF Ahead
      <4>5. Ahead(h, p, n) \in Int /\ Ahead(l, p, n) \in Int
        BY <1>4 DEF Ahead
      <4>6. passed[s] + Ahead(l, p, n) <= 2 * (N - 1)
        BY <4>1, <4>2 DEF Soon
      <4>7. passed[s] + 1 + Ahead(h, p, n) <= 2 * (N - 1)
        BY <1>4, <2>4, <4>4, <4>5, <4>6
      <4> QED BY <4>7 DEF Soon
    <3> QED BY <2>4, <3>1, <3>2
  <2> QED BY <2>1, <2>2, <2>3, <2>5
<1>6. InTurn'
  <2>1. passed' \in [Sockets -> Nat]
    BY <1>1, <1>3
  <2>2. ASSUME NEW s \in Sockets, passed'[s] > 0
        PROVE  s \in SocketsLoop!Ready \ {socket} /\ passed'[s] = passed[s] + 1
    BY <1>1, <2>2
  <2> QED BY <1>1, <1>5, <2>1, <2>2 DEF InTurn
<1> QED BY <1>2, <1>6 DEF LoopInv

LEMMA TurnedOnIs ==
  ASSUME LoopInv, NEW socket \in Sockets, SocketsLoop!turnOnBackgroundReadHandling(socket)
  PROVE  LoopInv'
<1> DEFINE q == fReadHandlers
           n == Len(fReadHandlers)
<1>1. /\ fReadHandlers' = <<socket>> \o q /\ UNCHANGED <<passed, fLastHandledSocketNum>>
      /\ socket \notin SocketsLoop!ToSet(q)
  BY DEF SocketsLoop!turnOnBackgroundReadHandling
<1>2. q \in Seq(Sockets) /\ n \in Nat /\ \A i, j \in 1 .. n : q[i] = q[j] => i = j
  BY DEF LoopInv, Registered
<1>3. \A i \in 1 .. n : q[i] # socket
  BY <1>1, <1>2 DEF SocketsLoop!ToSet
<1>4. /\ fReadHandlers' \in Seq(Sockets) /\ Len(fReadHandlers') = n + 1
      /\ \A i \in 1 .. n + 1 : fReadHandlers'[i] = IF i = 1 THEN socket ELSE q[i - 1]
  <2>1. <<socket>> \in Seq(Sockets) /\ Len(<<socket>>) = 1 /\ <<socket>>[1] = socket
    OBVIOUS
  <2> DEFINE one == <<socket>>
  <2> HIDE DEF one
  <2>2. one \in Seq(Sockets) /\ Len(one) = 1 /\ one[1] = socket /\ fReadHandlers' = one \o q
    BY <1>1, <2>1 DEF one
  <2>3. /\ fReadHandlers' \in Seq(Sockets) /\ Len(fReadHandlers') = Len(one) + n
        /\ \A i \in 1 .. Len(one) + n : fReadHandlers'[i] = IF i <= Len(one) THEN one[i] ELSE q[i - Len(one)]
    BY <1>2, <2>2, ConcatProperties
  <2>4. Len(one) + n = n + 1
    BY <1>2, <2>2
  <2>5. ASSUME NEW i \in 1 .. n + 1 PROVE fReadHandlers'[i] = IF i = 1 THEN socket ELSE q[i - 1]
    BY <1>2, <2>2, <2>3, <2>4
  <2> QED BY <2>3, <2>4, <2>5
<1>5. ASSUME NEW i \in 1 .. n + 1, NEW j \in 1 .. n + 1, fReadHandlers'[i] = fReadHandlers'[j] PROVE i = j
  <2>1. i = 1 \/ i - 1 \in 1 .. n
    BY <1>2
  <2>2. j = 1 \/ j - 1 \in 1 .. n
    BY <1>2
  <2> DEFINE new(k) == IF k = 1 THEN socket ELSE q[k - 1]
  <2>3. new(i) = new(j)
    BY <1>4, <1>5
  <2>4. i = 1 <=> j = 1
    BY <1>3, <2>1, <2>2, <2>3
  <2>5. i # 1 => q[i - 1] = q[j - 1]
    BY <2>3, <2>4
  <2>6. i # 1 => i - 1 = j - 1
    BY <1>2, <2>1, <2>2, <2>4, <2>5
  <2> QED BY <1>2, <2>4, <2>6
<1>6. Registered'
  BY <1>4, <1>5 DEF Registered
<1>7. Registered /\ InTurn /\ Cardinality(Sockets) \in Nat
  BY FewHandlers DEF LoopInv
<1>8. ASSUME NEW s \in Sockets, passed[s] > 0
      PROVE  \E x, y \in 1 .. n + 1 : /\ fReadHandlers'[x] = fLastHandledSocketNum /\ fReadHandlers'[y] = s /\ x # y
                                      /\ Soon(x, y, n + 1, passed[s])
  <2>1. PICK l, p \in 1 .. n : q[l] = fLastHandledSocketNum /\ q[p] = s /\ l # p /\ Soon(l, p, n, passed[s])
    BY <1>7, <1>8 DEF InTurn
  <2>2. /\ l + 1 \in 1 .. n + 1 /\ p + 1 \in 1 .. n + 1 /\ l + 1 # p + 1
        /\ fReadHandlers'[l + 1] = q[l] /\ fReadHandlers'[p + 1] = q[p]
    <3>1. ASSUME NEW i \in 1 .. n PROVE i + 1 \in 1 .. n + 1 /\ i + 1 # 1 /\ (i + 1) - 1 = i
      BY <1>2
    <3>2. ASSUME NEW i \in 1 .. n PROVE fReadHandlers'[i + 1] = q[i]
      BY <1>4, <3>1
    <3> QED BY <1>2, <2>1, <3>1, <3>2
  <2>3. Ahead(l + 1, p + 1, n + 1) = Ahead(l, p, n)
    BY <1>2, <1>7 DEF Ahead
  <2>4. Soon(l + 1, p + 1, n + 1, passed[s])
    BY <2>1, <2>3 DEF Soon
  <2> QED BY <2>1, <2>2, <2>4
<1>9. passed' = passed /\ passed \in [Sockets -> Nat] /\ fLastHandledSocketNum' = fLastHandledSocketNum
  BY <1>1, <1>7 DEF InTurn
<1>10. InTurn'
  BY <1>4, <1>8, <1>9 DEF InTurn
<1> QED BY <1>6, <1>10 DEF LoopInv

LEMMA TurnedOffIs ==
  ASSUME LoopInv, NEW socket \in Sockets, SocketsLoop!turnOffBackgroundReadHandling(socket)
  PROVE  LoopInv'
<1> DEFINE q == fReadHandlers
           n == Len(fReadHandlers)
<1>1. PICK k \in DOMAIN q : q[k] = socket /\ fReadHandlers' = SocketsLoop!RemoveAt(q, k)
  BY DEF SocketsLoop!turnOffBackgroundReadHandling
<1>2. /\ passed' = [s \in Sockets |-> IF socket \in {s, fLastHandledSocketNum} THEN 0 ELSE passed[s]]
      /\ UNCHANGED fLastHandledSocketNum
  BY DEF SocketsLoop!turnOffBackgroundReadHandling
<1>3. q \in Seq(Sockets) /\ n \in Nat /\ k \in 1 .. n /\ \A i, j \in 1 .. n : q[i] = q[j] => i = j
  BY DEF LoopInv, Registered
<1>4. fReadHandlers' = Without(q, k)
  BY <1>1, Zenon DEF SocketsLoop!RemoveAt, Without
<1>7. /\ fReadHandlers' \in Seq(Sockets) /\ Len(fReadHandlers') = n - 1
      /\ \A i \in 1 .. n - 1 : fReadHandlers'[i] = IF i <= k - 1 THEN q[i] ELSE q[i + 1]
  <2>1. q \in Seq(Sockets) /\ k \in 1 .. Len(q)
    BY <1>3
  <2> HIDE DEF q, n
  <2>2. /\ fReadHandlers' \in Seq(Sockets) /\ Len(fReadHandlers') = Len(q) - 1
        /\ \A i \in 1 .. Len(q) - 1 : fReadHandlers'[i] = IF i <= k - 1 THEN q[i] ELSE q[i + 1]
    BY <1>4, <2>1, TakenOut
  <2> QED BY <2>2 DEF n, q
<1> HIDE DEF n
<1>8. ASSUME NEW i \in 1 .. n - 1, NEW j \in 1 .. n - 1, fReadHandlers'[i] = fReadHandlers'[j] PROVE i = j
  <2>1. PICK x \in 1 .. n : fReadHandlers'[i] = q[x] /\ (IF i <= k - 1 THEN x = i ELSE x = i + 1)
    BY <1>3, <1>7
  <2>2. PICK y \in 1 .. n : fReadHandlers'[j] = q[y] /\ (IF j <= k - 1 THEN y = j ELSE y = j + 1)
    BY <1>3, <1>7
  <2>3. x = y
    BY <1>3, <1>8, <2>1, <2>2
  <2> QED BY <1>3, <2>1, <2>2, <2>3
<1>9. Registered'
  BY <1>7, <1>8 DEF Registered
<1>10. Registered /\ InTurn /\ Cardinality(Sockets) \in Nat
  BY FewHandlers DEF LoopInv
<1>11. q[k] = socket
  BY <1>1
<1>12. ASSUME NEW s \in Sockets, passed[s] > 0, s # socket, fLastHandledSocketNum # socket
       PROVE  \E x, y \in 1 .. n - 1 : /\ fReadHandlers'[x] = fLastHandledSocketNum /\ fReadHandlers'[y] = s /\ x # y
                                       /\ Soon(x, y, n - 1, passed[s])
  <2>1. PICK l, p \in 1 .. n : q[l] = fLastHandledSocketNum /\ q[p] = s /\ l # p /\ Soon(l, p, n, passed[s])
    BY <1>10, <1>12 DEF InTurn, n
  <2> DEFINE x == IF l < k THEN l ELSE l - 1
             y == IF p < k THEN p ELSE p - 1
  <2>2. l # k /\ p # k
    BY <1>11, <1>12, <2>1
  <2>3. x \in 1 .. n - 1 /\ y \in 1 .. n - 1 /\ x # y
    BY <1>3, <2>1, <2>2
  <2>4. fReadHandlers'[x] = q[l] /\ fReadHandlers'[y] = q[p]
    <3>1. ASSUME NEW i \in 1 .. n, i # k
          PROVE  fReadHandlers'[IF i < k THEN i ELSE i - 1] = q[i]
      <4>1. CASE i < k
        <5>1. i \in 1 .. n - 1 /\ i <= k - 1
          BY <1>3, <4>1
        <5> QED BY <1>7, <4>1, <5>1
      <4>2. CASE ~(i < k)
        <5>1. i - 1 \in 1 .. n - 1 /\ ~(i - 1 <= k - 1) /\ (i - 1) + 1 = i
          BY <1>3, <3>1, <4>2
        <5> QED BY <1>7, <4>2, <5>1
      <4> QED BY <4>1, <4>2
    <3> QED BY <2>2, <3>1
  <2>5. Ahead(x, y, n - 1) <= Ahead(l, p, n)
    BY <1>3, <1>10, <2>1, <2>2 DEF Ahead
  <2>6. Ahead(x, y, n - 1) \in Int /\ Ahead(l, p, n) \in Int /\ passed[s] \in Nat
    BY <1>3, <1>10, <2>3 DEF Ahead, InTurn
  <2> HIDE DEF x, y
  <2>7. Soon(x, y, n - 1, passed[s])
    BY <1>10, <2>1, <2>5, <2>6 DEF Soon
  <2> QED BY <2>1, <2>3, <2>4, <2>7
<1>13. ASSUME NEW s \in Sockets, passed'[s] > 0
       PROVE  passed'[s] = passed[s] /\ s # socket /\ fLastHandledSocketNum # socket
  BY <1>2, <1>13
<1>14. passed' \in [Sockets -> Nat]
  BY <1>2, <1>10 DEF InTurn
<1> QED BY <1>2, <1>7, <1>9, <1>12, <1>13, <1>14 DEF LoopInv, InTurn

LEMMA LoopStep ==
  ASSUME LoopInv, SocketsLoop!Next \/ UNCHANGED loop
  PROVE  LoopInv'
<1>1. ASSUME NEW s \in Sockets, SocketsLoop!DataArrives(s) PROVE LoopInv'
  <2>1. UNCHANGED <<fReadHandlers, fLastHandledSocketNum, passed>> /\ readable \subseteq readable'
    BY <1>1 DEF SocketsLoop!DataArrives
  <2> QED BY <2>1 DEF LoopInv, Registered, InTurn
<1>2. ASSUME UNCHANGED <<fReadHandlers, fLastHandledSocketNum, readable, passed>> PROVE LoopInv'
  BY <1>2 DEF LoopInv, Registered, InTurn
<1>3. ASSUME NEW task \in FewTasks, NEW delay \in FewDelays, SocketsLoop!scheduleDelayedTask(task, delay) PROVE LoopInv'
  BY <1>2, <1>3 DEF SocketsLoop!scheduleDelayedTask, SocketsLoop!handlers
<1>4. ASSUME NEW task \in FewTasks, SocketsLoop!unscheduleDelayedTask(task) PROVE LoopInv'
  BY <1>2, <1>4 DEF SocketsLoop!unscheduleDelayedTask, SocketsLoop!handlers
<1>5. CASE SocketsLoop!Tick \/ SocketsLoop!ClockSetBack
  BY <1>2, <1>5 DEF SocketsLoop!Tick, SocketsLoop!ClockSetBack, SocketsLoop!handlers
<1>6. CASE UNCHANGED loop
  BY <1>2, <1>6 DEF loop
<1> QED BY <1>1, <1>3, <1>4, <1>5, <1>6, StepIsInTurn, TurnedOnIs, TurnedOffIs DEF SocketsLoop!Next

LEMMA LoopInvIsEnough ==
  ASSUME LoopInv
  PROVE  SocketsLoop!NoSocketStarves
<1> DEFINE n == Len(fReadHandlers)
           N == Cardinality(Sockets)
<1>0. SocketsLoop!Cardinality(Sockets) = N
  BY Zenon DEF SocketsLoop!Cardinality, Cardinality
<1> SUFFICES ASSUME NEW s \in Sockets, passed[s] # 0 PROVE passed[s] < 2 * (N - 1)
  BY <1>0 DEF SocketsLoop!NoSocketStarves
<1>1. passed[s] \in Nat /\ passed[s] > 0 /\ n \in Nat /\ N \in Nat /\ n <= N
  BY FewHandlers DEF LoopInv, InTurn
<1>2. PICK l, p \in 1 .. n : l # p /\ Soon(l, p, n, passed[s])
  BY <1>1 DEF LoopInv, InTurn
<1>3. Ahead(l, p, n) \in Nat \ {0}
  BY <1>1, <1>2 DEF Ahead
<1>4. passed[s] + Ahead(l, p, n) <= 2 * (N - 1)
  BY <1>2 DEF Soon
<1> QED BY <1>1, <1>3, <1>4

LEMMA SocketsOnly ==
  ASSUME part = "sockets", [InputNext]_inputVars
  PROVE  part' = "sockets" /\ (SocketsLoop!Next \/ UNCHANGED loop)
BY DEF InputNext, inputVars, Others

\* BasicTaskScheduler::SingleStep: in whatever order data arrives, handlers come and all but the one
\* called last go, a socket with data is passed over less than twice by each of the others before
\* it is read.  When the handler called last goes, the round begins anew, and the claim with it.
THEOREM EverySocketIsServed == InputSpec => []NoSocketStarves
<1> DEFINE Inv == part = "sockets" => LoopInv
<1>1. InputInit => Inv
  <2> SUFFICES ASSUME SocketsLoop!Init PROVE LoopInv
    BY DEF InputInit
  <2>1. fReadHandlers = <<>> /\ passed = [s \in Sockets |-> 0]
    BY DEF SocketsLoop!Init
  <2> QED BY <2>1, EmptySeq DEF LoopInv, Registered, InTurn
<1>2. Inv /\ [InputNext]_inputVars => Inv'
  <2> SUFFICES ASSUME Inv, [InputNext]_inputVars, part' = "sockets" PROVE LoopInv'
    OBVIOUS
  <2>1. part = "sockets"
    BY DEF InputNext, inputVars, Others
  <2> QED BY <2>1, SocketsOnly, LoopStep
<1>3. Inv => NoSocketStarves
  BY LoopInvIsEnough DEF NoSocketStarves
<1> QED BY <1>1, <1>2, <1>3, PTL DEF InputSpec

-----------------------------------------------------------------------------
(* DelayQueue                                                              *)

TaskEntries == [task : Tasks, delta : Nat]

\* What is left at the time now until entry i of a queue, whose tasks are due as d says.
Wait(q, now, d, i) == IF i = 0 THEN 0 ELSE TasksLoop!Less(d[q[i].task], now)

\* The entries hold what is left after the entry before them, and are in the order of their times.
OnTime(q, now, d) ==
  /\ \A i \in 1 .. Len(q) : q[i].delta = Wait(q, now, d, i) - Wait(q, now, d, i - 1)
  /\ \A i \in 1 .. Len(q) : \A j \in 1 .. i : d[q[j].task] <= d[q[i].task]

TasksInv ==
  ~setBack =>
    /\ fDelayQueue \in Seq(TaskEntries) /\ clock \in Nat /\ fLastSyncTime \in 0 .. clock
    /\ due \in [Tasks -> Nat]
    /\ OnTime(fDelayQueue, fLastSyncTime, due)

\* The sums over the subsets of 1 .. n that TimeUntil folds over.
Sums(s, n, h) ==
  h = [S \in SUBSET (1 .. n) |->
         IF S = {} THEN 0 ELSE h[S \ {TasksLoop!Max(S)}] + s[TasksLoop!Max(S)].delta]

\* There are such sums.
LEMMA SumsExist ==
  ASSUME NEW s, NEW n \in Nat, \A i \in 1 .. n : s[i].delta \in Nat
  PROVE  \E h : Sums(s, n, h)
<1> DEFINE F == [x \in Nat \X (1 .. n) |-> x[1] + s[x[2]].delta]
<1>1. F \in [Nat \X (1 .. n) -> Nat]
  OBVIOUS
<1>2. \A a \in Nat, i \in 1 .. n : F[<<a, i>>] = a + s[i].delta
  OBVIOUS
<1> HIDE DEF F
<1>3. PICK h \in [SUBSET (1 .. n) -> Nat] : \A S \in SUBSET (1 .. n) :
        /\ S # {} => Greatest(S) \in 1 .. n
        /\ h[S] = IF S = {} THEN 0 ELSE F[<<h[S \ {Greatest(S)}], Greatest(S)>>]
  <2>1. 0 \in Nat
    OBVIOUS
  <2>2. \E h : FoldOf(n, Nat, 0, F, h)
    BY <1>1, <2>1, FoldExists
  <2> QED BY <2>2 DEF FoldOf
<1>4. \A S : TasksLoop!Max(S) = Greatest(S)
  BY Zenon DEF TasksLoop!Max, Greatest
<1> DEFINE All == SUBSET (1 .. n)
           M(S) == TasksLoop!Max(S)
<1>5. ASSUME NEW S \in All PROVE h[S] = IF S = {} THEN 0 ELSE h[S \ {M(S)}] + s[M(S)].delta
  <2>1. S \ {M(S)} \in All
    OBVIOUS
  <2>2. h[S \ {M(S)}] \in Nat
    BY <2>1
  <2> HIDE DEF All, M
  <2>3. S # {} => h[S] = h[S \ {M(S)}] + s[M(S)].delta
    BY <1>2, <1>3, <1>4, <2>2 DEF M, All
  <2> QED BY <1>3, <2>3 DEF All
<1>6. h = [S \in All |-> h[S]]
  BY <1>3
<1> HIDE DEF All, M
<1>7. h = [S \in All |-> IF S = {} THEN 0 ELSE h[S \ {M(S)}] + s[M(S)].delta]
  BY <1>5, <1>6, Zenon
<1> QED BY <1>7 DEF Sums, All, M

\* What TimeUntil adds up is the difference of the ends.
LEMMA TimeIs ==
  ASSUME NEW q \in Seq(TaskEntries), NEW E \in [0 .. Len(q) -> Int], E[0] = 0,
         \A j \in 1 .. Len(q) : q[j].delta = E[j] - E[j - 1],
         NEW i \in 0 .. Len(q)
  PROVE  TasksLoop!TimeUntil(q, i) = E[i]
<1> DEFINE s == SubSeq(q, 1, i)
<1>1. i \in Nat /\ i <= Len(q) /\ Len(q) \in Nat
  OBVIOUS
<1>2. DOMAIN s = 1 .. i /\ \A j \in 1 .. i : s[j] = q[j]
  <2>1. \A j \in 1 .. i : q[j] \in TaskEntries
    BY <1>1
  <2>2. /\ s \in Seq(TaskEntries) /\ Len(s) = (IF 1 <= i THEN i - 1 + 1 ELSE 0)
        /\ \A j \in 1 .. i - 1 + 1 : s[j] = q[1 + j - 1]
    BY <1>1, <2>1, SubSeqProperties
  <2>3. i - 1 + 1 = i /\ \A j \in 1 .. i : 1 + j - 1 = j
    BY <1>1
  <2> HIDE DEF s
  <2>4. Len(s) = i
    BY <1>1, <2>2
  <2> QED BY <2>2, <2>3, <2>4
<1> HIDE DEF s
<1>3. PICK g : TasksLoop!TimeUntil(q, i) = g[1 .. i] /\ Sums(s, i, g)
  <2>1. \E h : h = [S \in SUBSET DOMAIN s |->
                      IF S = {} THEN 0 ELSE h[S \ {TasksLoop!Max(S)}] + s[TasksLoop!Max(S)].delta]
    <3>0. \A j \in 1 .. i : s[j].delta \in Nat
      <4>1. \A j \in 1 .. i : q[j] \in TaskEntries
        BY <1>1
      <4> QED BY <1>2, <4>1 DEF TaskEntries
    <3>1. PICK h : Sums(s, i, h)
      BY <1>1, <3>0, SumsExist
    <3> QED BY <1>2, <3>1 DEF Sums
  <2>2. \E g : /\ TasksLoop!TimeUntil(q, i) = g[DOMAIN s]
               /\ g = [S \in SUBSET DOMAIN s |->
                         IF S = {} THEN 0 ELSE g[S \ {TasksLoop!Max(S)}] + s[TasksLoop!Max(S)].delta]
    BY <2>1, Zenon DEF TasksLoop!TimeUntil, TasksLoop!FoldLeft, TasksLoop!MapThenFoldSet, s
  <2> QED BY <1>2, <2>2, Zenon DEF Sums
<1>4. \A S \in SUBSET (1 .. i) :
        g[S] = IF S = {} THEN 0 ELSE g[S \ {TasksLoop!Max(S)}] + s[TasksLoop!Max(S)].delta
  <2> DEFINE M(S) == TasksLoop!Max(S)
             All == SUBSET (1 .. i)
  <2>1. g = [S \in All |-> IF S = {} THEN 0 ELSE g[S \ {M(S)}] + s[M(S)].delta]
    BY <1>3 DEF Sums
  <2> HIDE DEF M, All
  <2>2. \A S \in All : g[S] = IF S = {} THEN 0 ELSE g[S \ {M(S)}] + s[M(S)].delta
    BY <2>1
  <2> QED BY <2>2 DEF M, All
<1> DEFINE Bad == {k \in 0 .. i : g[1 .. k] # E[k]}
<1> SUFFICES ASSUME g[1 .. i] # E[i] PROVE FALSE
  BY <1>3
<1>5. PICK k \in Bad : \A j \in Bad : k <= j
  <2>1. Bad \subseteq Nat /\ Bad # {}
    BY <1>1
  <2> HIDE DEF Bad
  <2> QED BY <2>1, LeastOf
<1>6. k \in 0 .. i /\ g[1 .. k] # E[k]
  OBVIOUS
<1>7. CASE k = 0
  <2>1. 1 .. k = {}
    BY <1>7
  <2>2. g[{}] = 0
    BY <1>4
  <2> QED BY <1>6, <1>7, <2>1, <2>2
<1>8. CASE k # 0
  <2>1. k \in 1 .. i /\ k - 1 \in 0 .. i /\ ~(k <= k - 1) /\ k \in 1 .. Len(q) /\ k \in Int
    BY <1>1, <1>6, <1>8
  <2>2. g[1 .. k - 1] = E[k - 1]
    BY <1>5, <2>1
  <2>3. TasksLoop!Max(1 .. k) = k
    <3>1. 1 .. k \subseteq Int /\ k \in 1 .. k /\ \A y \in 1 .. k : y <= k
      BY <2>1
    <3>2. \A S : TasksLoop!Max(S) = Greatest(S)
      BY Zenon DEF TasksLoop!Max, Greatest
    <3> QED BY <2>1, <3>1, <3>2, GreatestIs
  <2>4. 1 .. k \in SUBSET (1 .. i) /\ 1 .. k # {} /\ (1 .. k) \ {k} = 1 .. k - 1
    <3>1. \A x : x \in 1 .. k => x \in 1 .. i
      BY <1>1, <2>1
    <3>2. \A x : x \in (1 .. k) \ {k} <=> x \in 1 .. k - 1
      BY <2>1
    <3>3. k \in 1 .. k
      BY <2>1
    <3> DEFINE to == 1 .. k
    <3> HIDE DEF to
    <3>4. to \in SUBSET (1 .. i) /\ to # {}
      BY <3>1, <3>3 DEF to
    <3>5. (1 .. k) \ {k} = 1 .. k - 1
      BY <3>2, Zenon
    <3> QED BY <3>4, <3>5 DEF to
  <2> DEFINE to == 1 .. k
             before == 1 .. k - 1
  <2> HIDE DEF to, before
  <2>5. g[to] = g[before] + s[k].delta
    BY <1>4, <2>3, <2>4 DEF to, before
  <2>6. s[k].delta = E[k] - E[k - 1] /\ E[k] \in Int /\ E[k - 1] \in Int
    <3>1. k \in 0 .. Len(q) /\ k - 1 \in 0 .. Len(q)
      BY <1>1, <2>1
    <3> QED BY <1>2, <2>1, <3>1
  <2>7. g[to] = E[k]
    BY <2>2, <2>5, <2>6 DEF before
  <2> QED BY <1>6, <2>7 DEF to
<1> QED BY <1>7, <1>8

\* Later entries have longer to wait; what there is to wait is a number.
LEMMA WaitIs ==
  ASSUME NEW q \in Seq(TaskEntries), NEW now \in Nat, NEW d \in [Tasks -> Nat], OnTime(q, now, d)
  PROVE  /\ \A i \in 0 .. Len(q) : Wait(q, now, d, i) \in Nat
         /\ \A i \in 1 .. Len(q) : \A j \in 0 .. i : Wait(q, now, d, j) <= Wait(q, now, d, i)
         /\ \A i \in 0 .. Len(q) : TasksLoop!TimeUntil(q, i) = Wait(q, now, d, i)
<1>1. Len(q) \in Nat
  OBVIOUS
<1>2. \A i \in 1 .. Len(q) : q[i].task \in Tasks /\ d[q[i].task] \in Nat
  <2>1. \A i \in 1 .. Len(q) : q[i] \in TaskEntries
    OBVIOUS
  <2> QED BY <2>1 DEF TaskEntries
<1>3. ASSUME NEW i \in 0 .. Len(q) PROVE Wait(q, now, d, i) \in Nat
  <2>1. CASE i = 0
    BY <2>1 DEF Wait
  <2>2. CASE i # 0
    <3>1. d[q[i].task] \in Nat
      BY <1>1, <1>2, <2>2
    <3> QED BY <2>2, <3>1 DEF Wait, TasksLoop!Less
  <2> QED BY <2>1, <2>2
<1>4. ASSUME NEW i \in 1 .. Len(q), NEW j \in 0 .. i PROVE Wait(q, now, d, j) <= Wait(q, now, d, i)
  <2>1. Wait(q, now, d, i) \in Nat /\ i # 0
    BY <1>1, <1>3
  <2>2. CASE j = 0
    BY <2>1, <2>2 DEF Wait
  <2>3. CASE j # 0
    <3>1. j \in 1 .. i /\ j \in 1 .. Len(q)
      BY <1>1, <2>3
    <3>2. PICK a \in Nat, b \in Nat : a = d[q[j].task] /\ b = d[q[i].task]
      BY <1>2, <3>1
    <3>3. a <= b
      BY <3>1, <3>2 DEF OnTime
    <3> QED BY <2>1, <2>3, <3>2, <3>3 DEF Wait, TasksLoop!Less
  <2> QED BY <2>2, <2>3
<1>5. ASSUME NEW i \in 0 .. Len(q) PROVE TasksLoop!TimeUntil(q, i) = Wait(q, now, d, i)
  <2> DEFINE E == [j \in 0 .. Len(q) |-> Wait(q, now, d, j)]
  <2>1. E \in [0 .. Len(q) -> Int]
    BY <1>3
  <2>2. E[0] = 0
    BY <1>1 DEF Wait
  <2>3. ASSUME NEW j \in 1 .. Len(q) PROVE q[j].delta = E[j] - E[j - 1]
    <3>1. j \in 0 .. Len(q) /\ j - 1 \in 0 .. Len(q)
      BY <1>1
    <3> QED BY <3>1 DEF OnTime
  <2>4. E[i] = Wait(q, now, d, i)
    OBVIOUS
  <2> HIDE DEF E
  <2> QED BY <2>1, <2>2, <2>3, <2>4, TimeIs
<1> QED BY <1>3, <1>4, <1>5

\* synchronize moves the begin of the waiting, and nothing else.
LEMMA SyncedIs ==
  ASSUME NEW q, q = fDelayQueue, q \in Seq(TaskEntries), clock \in Nat, fLastSyncTime \in 0 .. clock,
         due \in [Tasks -> Nat], OnTime(q, fLastSyncTime, due), NEW r, r = TasksLoop!Synced
  PROVE  /\ r \in Seq(TaskEntries) /\ Len(r) = Len(q)
         /\ \A i \in 1 .. Len(q) : r[i].task = q[i].task
         /\ OnTime(r, clock, due)
<1> DEFINE n == Len(q)
           before == fLastSyncTime
           gone == TasksLoop!Less(clock, before)
           D(i) == due[q[i].task]
           L(i) == TasksLoop!Less(TasksLoop!TimeUntil(q, i), gone)
           W(i) == Wait(q, clock, due, i)
<1>1. n \in Nat /\ DOMAIN q = 1 .. n /\ before \in Nat /\ before <= clock
  OBVIOUS
<1>2. ASSUME NEW i \in 1 .. n PROVE q[i].task \in Tasks /\ D(i) \in Nat
  <2>1. q[i] \in TaskEntries
    OBVIOUS
  <2> QED BY <2>1 DEF TaskEntries
<1>3. ASSUME NEW i \in 0 .. n PROVE L(i) = W(i)
  <2>1. TasksLoop!TimeUntil(q, i) = Wait(q, before, due, i)
    BY <1>1, WaitIs
  <2>2. CASE i = 0
    BY <1>1, <2>1, <2>2 DEF Wait, TasksLoop!Less
  <2>3. CASE i # 0
    <3>1. PICK a \in Nat : a = due[q[i].task]
      BY <1>1, <1>2, <2>3
    <3>2. TasksLoop!TimeUntil(q, i) = TasksLoop!Less(a, before) /\ W(i) = TasksLoop!Less(a, clock)
      BY <2>1, <2>3, <3>1 DEF Wait
    <3> QED BY <1>1, <3>2 DEF TasksLoop!Less
  <2> QED BY <2>2, <2>3
<1>4. r = [i \in 1 .. n |-> [q[i] EXCEPT !.delta = L(i) - L(i - 1)]]
  BY <1>1, Zenon DEF TasksLoop!Synced
<1> HIDE DEF L, n
<1>5. ASSUME NEW i \in 1 .. n PROVE r[i] = [q[i] EXCEPT !.delta = W(i) - W(i - 1)]
  <2>1. i \in 0 .. n /\ i - 1 \in 0 .. n
    BY <1>1
  <2>2. L(i) = W(i) /\ L(i - 1) = W(i - 1)
    BY <1>3, <2>1
  <2> QED BY <1>4, <2>2
<1>6. \A i \in 1 .. n : \A j \in 1 .. i : D(j) <= D(i)
  BY DEF OnTime, n
<1>7. ASSUME NEW i \in 1 .. n PROVE W(i) - W(i - 1) \in Nat
  <2>1. PICK a \in Nat : a = due[q[i].task]
    BY <1>2
  <2>2. W(i) = TasksLoop!Less(a, clock)
    BY <1>1, <2>1 DEF Wait
  <2>3. CASE i = 1
    <3>1. W(i - 1) = 0
      BY <2>3 DEF Wait
    <3> QED BY <2>2, <3>1 DEF TasksLoop!Less
  <2>4. CASE i # 1
    <3>1. i - 1 \in 1 .. n /\ i - 1 \in 1 .. i /\ i - 1 # 0
      BY <1>1, <2>4
    <3>2. PICK b \in Nat : b = due[q[i - 1].task]
      BY <1>2, <3>1
    <3>3. W(i - 1) = TasksLoop!Less(b, clock) /\ b <= a
      BY <1>6, <2>1, <3>1, <3>2 DEF Wait
    <3> QED BY <2>2, <3>3 DEF TasksLoop!Less
  <2> QED BY <2>3, <2>4
<1>8. ASSUME NEW i \in 1 .. n PROVE r[i] \in TaskEntries /\ r[i].task = q[i].task /\ r[i].delta = W(i) - W(i - 1)
  <2> DEFINE x == W(i) - W(i - 1)
  <2>1. q[i] \in TaskEntries /\ x \in Nat
    BY <1>7 DEF n
  <2> HIDE DEF x, W
  <2>2. r[i] = [q[i] EXCEPT !.delta = x]
    BY <1>5 DEF x
  <2> QED BY <2>1, <2>2 DEF TaskEntries, x
<1>9. r \in Seq(TaskEntries) /\ Len(r) = n
  <2>1. r \in [1 .. n -> TaskEntries]
    BY <1>4, <1>8
  <2> QED BY <1>1, <2>1
<1>10. ASSUME NEW i \in 0 .. n PROVE Wait(r, clock, due, i) = W(i)
  <2>1. i # 0 => r[i].task = q[i].task
    BY <1>1, <1>8
  <2> QED BY <2>1 DEF Wait
<1>11. ASSUME NEW i \in 1 .. n PROVE r[i].delta = Wait(r, clock, due, i) - Wait(r, clock, due, i - 1)
  <2>1. i \in 0 .. n /\ i - 1 \in 0 .. n
    BY <1>1
  <2> QED BY <1>8, <1>10, <2>1
<1>12. ASSUME NEW i \in 1 .. n, NEW j \in 1 .. i PROVE due[r[j].task] <= due[r[i].task]
  <2>1. j \in 1 .. n
    BY <1>1
  <2> QED BY <1>6, <1>8, <2>1
<1>13. OnTime(r, clock, due)
  BY <1>9, <1>11, <1>12 DEF OnTime
<1> QED BY <1>8, <1>9, <1>13 DEF n

\* removeEntry: the entries behind the one removed wait as long as before.
LEMMA RemovedIs ==
  ASSUME NEW q \in Seq(TaskEntries), NEW now \in Nat, NEW d \in [Tasks -> Nat], OnTime(q, now, d),
         NEW k \in 1 .. Len(q), NEW r, r = TasksLoop!Removed(q, k)
  PROVE  r \in Seq(TaskEntries) /\ OnTime(r, now, d)
<1> DEFINE n == Len(q)
           W(i) == Wait(q, now, d, i)
           given == q[k].delta
           m == [j \in 1 .. n |-> IF j = k + 1 THEN [q[j] EXCEPT !.delta = @ + given] ELSE q[j]]
<1>1. n \in Nat /\ k \in 1 .. n /\ DOMAIN q = 1 .. n /\ k \in Int
  OBVIOUS
<1>2. \A i \in 1 .. n : q[i] \in TaskEntries
  OBVIOUS
<1>3. /\ \A i \in 0 .. n : W(i) \in Nat
      /\ \A i \in 1 .. n : q[i].delta = W(i) - W(i - 1)
      /\ \A i \in 1 .. n : \A j \in 1 .. i : d[q[j].task] <= d[q[i].task]
  BY WaitIs DEF OnTime
<1>4. r = Without(m, k)
  BY <1>1, Zenon DEF TasksLoop!Removed, TasksLoop!RemoveAt, Without
<1>5. ASSUME NEW i \in 1 .. n
      PROVE  /\ m[i] \in TaskEntries /\ m[i].task = q[i].task
             /\ m[i].delta = IF i = k + 1 THEN W(i) - W(i - 2) ELSE W(i) - W(i - 1)
  <2> DEFINE a == q[i].delta
             b == a + given
  <2>1. q[i] \in TaskEntries /\ a \in Nat /\ given \in Nat /\ b \in Nat
    BY <1>1, <1>2 DEF TaskEntries
  <2>2. a = W(i) - W(i - 1) /\ given = W(k) - W(k - 1)
    BY <1>1, <1>3
  <2> HIDE DEF given, W
  <2>3. m[i] = IF i = k + 1 THEN [q[i] EXCEPT !.delta = b] ELSE q[i]
    BY DEF m
  <2> HIDE DEF a, b, m, n
  <2>4. m[i] \in TaskEntries /\ m[i].task = q[i].task /\ m[i].delta = IF i = k + 1 THEN b ELSE a
    BY <2>1, <2>3 DEF TaskEntries, a
  <2>5. ASSUME i = k + 1 PROVE b = W(i) - W(i - 2)
    <3>1. k = i - 1 /\ k - 1 = i - 2
      BY <1>1, <2>5
    <3>2. W(i) \in Nat /\ W(i - 1) \in Nat /\ W(i - 2) \in Nat
      <4>1. i \in 0 .. n /\ i - 1 \in 0 .. n /\ i - 2 \in 0 .. n
        BY <1>1, <2>5
      <4> QED BY <1>3, <4>1
    <3> QED BY <2>2, <3>1, <3>2 DEF b
  <2> QED BY <2>2, <2>4, <2>5
<1>6. m \in Seq(TaskEntries) /\ Len(m) = n
  <2>1. m = [i \in 1 .. n |-> m[i]]
    OBVIOUS
  <2> HIDE DEF m, W, n
  <2>2. m \in [1 .. n -> TaskEntries]
    BY <1>5, <2>1
  <2> QED BY <1>1, <2>2
<1> HIDE DEF m, given
<1>7. /\ r \in Seq(TaskEntries) /\ Len(r) = n - 1
      /\ \A i \in 1 .. n - 1 : r[i] = IF i <= k - 1 THEN m[i] ELSE m[i + 1]
  <2> HIDE DEF n, W
  <2>1. k \in 1 .. Len(m)
    BY <1>1, <1>6
  <2> QED BY <1>4, <1>6, <2>1, TakenOut
<1> HIDE DEF n
<1>8. ASSUME NEW i \in 0 .. n - 1
      PROVE  Wait(r, now, d, i) = IF i <= k - 1 THEN W(i) ELSE W(i + 1)
  <2>1. CASE i = 0
    BY <1>1, <2>1 DEF Wait
  <2>2. CASE i # 0
    <3>1. i \in 1 .. n - 1 /\ i \in 1 .. n /\ i + 1 \in 1 .. n /\ i + 1 # 0
      BY <1>1, <2>2
    <3>2. r[i].task = IF i <= k - 1 THEN q[i].task ELSE q[i + 1].task
      BY <1>5, <1>7, <3>1
    <3> QED BY <2>2, <3>1, <3>2 DEF Wait
  <2> QED BY <2>1, <2>2
<1> HIDE DEF W
<1>9. ASSUME NEW i \in 1 .. n - 1
      PROVE  r[i].delta = Wait(r, now, d, i) - Wait(r, now, d, i - 1)
  <2>1. i \in 0 .. n - 1 /\ i - 1 \in 0 .. n - 1 /\ i \in 1 .. n /\ i + 1 \in 1 .. n
    BY <1>1
  <2>2. CASE i <= k - 1
    <3>1. i - 1 <= k - 1 /\ i # k + 1
      BY <1>1, <2>2
    <3> QED BY <1>5, <1>7, <1>8, <2>1, <2>2, <3>1
  <2>3. CASE i = k
    <3>1. ~(i <= k - 1) /\ i - 1 <= k - 1 /\ i + 1 = k + 1 /\ (i + 1) - 2 = i - 1
      BY <1>1, <2>3
    <3> QED BY <1>5, <1>7, <1>8, <2>1, <3>1
  <2>4. CASE i > k
    <3>1. ~(i <= k - 1) /\ ~(i - 1 <= k - 1) /\ i + 1 # k + 1 /\ (i + 1) - 1 = i /\ (i - 1) + 1 = i
      BY <1>1, <2>4
    <3> QED BY <1>5, <1>7, <1>8, <2>1, <3>1
  <2> QED BY <1>1, <2>1, <2>2, <2>3, <2>4
<1>10. ASSUME NEW i \in 1 .. n - 1, NEW j \in 1 .. i PROVE d[r[j].task] <= d[r[i].task]
  <2>1. /\ j \in 1 .. n - 1 /\ i \in 1 .. n /\ i + 1 \in 1 .. n /\ j \in 1 .. n /\ j + 1 \in 1 .. n
        /\ j \in 1 .. i + 1 /\ j + 1 \in 1 .. i + 1 /\ (i <= k - 1 => j <= k - 1)
    BY <1>1
  <2>2. /\ r[i].task = IF i <= k - 1 THEN q[i].task ELSE q[i + 1].task
        /\ r[j].task = IF j <= k - 1 THEN q[j].task ELSE q[j + 1].task
    BY <1>5, <1>7, <2>1
  <2>3. d[q[j].task] <= d[q[i].task] /\ d[q[j].task] <= d[q[i + 1].task] /\ d[q[j + 1].task] <= d[q[i + 1].task]
    BY <1>3, <2>1
  <2> QED BY <2>1, <2>2, <2>3
<1> QED BY <1>7, <1>9, <1>10 DEF OnTime

\* addEntry: behind those that wait no longer, before those that do, which wait as long as before.
LEMMA AddedIs ==
  ASSUME NEW q \in Seq(TaskEntries), NEW now \in Nat, NEW d \in [Tasks -> Nat], OnTime(q, now, d),
         NEW task \in Tasks, NEW delay \in Nat, d[task] = now + delay,
         NEW r, r = TasksLoop!Added(q, task, delay)
  PROVE  r \in Seq(TaskEntries) /\ OnTime(r, now, d)
<1> DEFINE n == Len(q)
           W(i) == Wait(q, now, d, i)
           later == {i \in DOMAIN q : TasksLoop!TimeUntil(q, i) > delay}
           slot == IF later = {} THEN n + 1 ELSE CHOOSE i \in later : \A j \in later : i <= j
           delta == delay - TasksLoop!TimeUntil(q, slot - 1)
           m == [i \in DOMAIN q |-> IF i = slot THEN [q[i] EXCEPT !.delta = @ - delta] ELSE q[i]]
           new == [task |-> task, delta |-> delta]
<1>1. n \in Nat /\ DOMAIN q = 1 .. n
  OBVIOUS
<1>2. \A i \in 1 .. n : q[i] \in TaskEntries
  OBVIOUS
<1>3. /\ \A i \in 0 .. n : W(i) \in Nat
      /\ \A i \in 1 .. n : \A j \in 0 .. i : W(j) <= W(i)
      /\ \A i \in 0 .. n : TasksLoop!TimeUntil(q, i) = W(i)
      /\ \A i \in 1 .. n : q[i].delta = W(i) - W(i - 1)
      /\ \A i \in 1 .. n : \A j \in 1 .. i : d[q[j].task] <= d[q[i].task]
  BY WaitIs DEF OnTime
<1>4. r = With(m, slot, new)
  <2>1. r = TasksLoop!InsertAt(m, slot, new)
    BY Zenon DEF TasksLoop!Added
  <2> HIDE DEF m, slot, new
  <2> QED BY <2>1, Zenon DEF TasksLoop!InsertAt, With
<1> HIDE DEF W
<1>5. ASSUME NEW i \in 1 .. n PROVE i \in later <=> W(i) > delay
  <2>1. i \in 0 .. n /\ i \in DOMAIN q
    BY <1>1
  <2>2. TasksLoop!TimeUntil(q, i) = W(i)
    BY <1>3, <2>1
  <2> QED BY <2>1, <2>2, Zenon
<1>6. /\ slot \in 1 .. n + 1
      /\ \A i \in 0 .. n : i < slot => W(i) <= delay
      /\ \A i \in 1 .. n : i >= slot => W(i) > delay
  <2>0. W(0) = 0
    BY DEF Wait, W
  <2>1. CASE later = {}
    <3>1. slot = n + 1
      BY <2>1
    <3> HIDE DEF later, slot, n
    <3>2. ASSUME NEW i \in 0 .. n PROVE W(i) <= delay
      <4>1. CASE i = 0
        BY <2>0, <4>1
      <4>2. CASE i # 0
        <5>1. i \in 1 .. n
          BY <1>1, <4>2
        <5>2. ~(W(i) > delay) /\ W(i) \in Nat
          BY <1>3, <1>5, <2>1, <5>1
        <5> QED BY <5>2
      <4> QED BY <4>1, <4>2
    <3>3. slot \in 1 .. n + 1 /\ \A i \in 1 .. n : ~(i >= slot)
      BY <1>1, <3>1
    <3> QED BY <3>2, <3>3
  <2>2. CASE later # {}
    <3>1. PICK x \in later : \A j \in later : x <= j
      <4>1. later \subseteq Nat
        BY <1>1
      <4> HIDE DEF later
      <4> QED BY <2>2, <4>1, LeastOf
    <3>2. slot \in later /\ \A j \in later : slot <= j
      <4> DEFINE least == CHOOSE i \in later : \A j \in later : i <= j
      <4>1. least \in later /\ \A j \in later : least <= j
        <5> HIDE DEF later
        <5> QED BY <3>1
      <4>2. slot = least
        BY <2>2
      <4> HIDE DEF least, later, slot
      <4> QED BY <4>1, <4>2
    <3>3. slot \in 1 .. n
      <4> HIDE DEF slot
      <4> QED BY <3>2
    <3> HIDE DEF slot, n, later
    <3>4. W(slot) > delay
      BY <1>5, <3>2, <3>3
    <3>5. ASSUME NEW i \in 0 .. n, i < slot PROVE W(i) <= delay
      <4>1. CASE i = 0
        BY <2>0, <4>1
      <4>2. CASE i # 0
        <5>1. i \in 1 .. n /\ ~(slot <= i)
          BY <1>1, <3>3, <3>5, <4>2
        <5>2. ~(W(i) > delay) /\ W(i) \in Nat
          BY <1>3, <1>5, <3>2, <5>1
        <5> QED BY <5>2
      <4> QED BY <4>1, <4>2
    <3>6. ASSUME NEW i \in 1 .. n, i >= slot PROVE W(i) > delay
      <4>1. slot \in 0 .. i /\ slot \in 0 .. n /\ i \in 0 .. n
        BY <1>1, <3>3, <3>6
      <4>2. W(slot) <= W(i) /\ W(slot) \in Nat /\ W(i) \in Nat
        BY <1>3, <4>1
      <4> QED BY <3>4, <4>2
    <3>7. slot \in 1 .. n + 1
      BY <1>1, <3>3
    <3> QED BY <3>5, <3>6, <3>7
  <2> QED BY <2>1, <2>2
<1> HIDE DEF slot, later
<1>7. slot - 1 \in 0 .. n /\ slot \in Nat /\ slot >= 1 /\ slot <= n + 1 /\ W(slot - 1) \in Nat /\ W(slot - 1) <= delay
  <2>1. slot - 1 \in 0 .. n /\ slot \in Nat /\ slot >= 1 /\ slot <= n + 1 /\ slot - 1 < slot
    BY <1>1, <1>6
  <2> QED BY <1>3, <1>6, <2>1
<1>8. delta = delay - W(slot - 1) /\ delta \in Nat
  <2>1. delta = delay - W(slot - 1)
    BY <1>3, <1>7
  <2> HIDE DEF delta
  <2> QED BY <1>7, <2>1
<1>9. ASSUME NEW i \in 1 .. n
      PROVE  /\ m[i] \in TaskEntries /\ m[i].task = q[i].task
             /\ m[i].delta = IF i = slot THEN W(i) - delay ELSE W(i) - W(i - 1)
  <2> DEFINE a == q[i].delta
             b == a - delta
  <2>1. q[i] \in TaskEntries
    BY <1>2
  <2>2. a = W(i) - W(i - 1)
    BY <1>3
  <2>3. m[i] = IF i = slot THEN [q[i] EXCEPT !.delta = b] ELSE q[i]
    BY <1>1 DEF m
  <2>4. ASSUME i = slot PROVE b = W(i) - delay /\ b \in Nat
    <3>1. i \in 0 .. n
      BY <1>1
    <3>2. W(i) \in Nat /\ W(i) > delay
      <4>1. i >= slot
        BY <1>1, <2>4
      <4> QED BY <1>3, <1>6, <3>1, <4>1
    <3>3. W(i - 1) \in Nat /\ delta = delay - W(i - 1)
      BY <1>7, <1>8, <2>4
    <3> HIDE DEF a, delta
    <3> QED BY <2>2, <3>2, <3>3
  <2> HIDE DEF a, b, m, n, delta
  <2>5. ASSUME i = slot PROVE m[i] \in TaskEntries /\ m[i].task = q[i].task /\ m[i].delta = b
    BY <2>1, <2>3, <2>4, <2>5 DEF TaskEntries
  <2>6. i # slot => m[i] \in TaskEntries /\ m[i].task = q[i].task /\ m[i].delta = a
    BY <2>1, <2>3 DEF a
  <2> QED BY <2>2, <2>4, <2>5, <2>6
<1>10. m \in Seq(TaskEntries) /\ Len(m) = n
  <2>1. m = [i \in 1 .. n |-> m[i]]
    <3>1. m = [i \in DOMAIN q |-> m[i]]
      OBVIOUS
    <3> HIDE DEF m
    <3> QED BY <1>1, <3>1
  <2> HIDE DEF m, n
  <2>2. m \in [1 .. n -> TaskEntries]
    BY <1>9, <2>1
  <2> QED BY <1>1, <2>2
<1>11. new \in TaskEntries /\ new.task = task /\ new.delta = delta
  <2> HIDE DEF delta
  <2> QED BY <1>8 DEF TaskEntries
<1> HIDE DEF m, new, delta
<1>12. /\ r \in Seq(TaskEntries) /\ Len(r) = n + 1
       /\ \A i \in 1 .. n + 1 : r[i] = IF i < slot THEN m[i] ELSE IF i = slot THEN new ELSE m[i - 1]
  <2> HIDE DEF n
  <2>1. slot \in 1 .. Len(m) + 1
    BY <1>6, <1>10
  <2>2. /\ r \in Seq(TaskEntries) /\ Len(r) = Len(m) + 1
        /\ \A i \in 1 .. Len(m) + 1 : r[i] = IF i < slot THEN m[i] ELSE IF i = slot THEN new ELSE m[i - 1]
    <3>1. m \in Seq(TaskEntries)
      BY <1>10
    <3>2. new \in TaskEntries
      BY <1>11
    <3> QED BY <1>4, <2>1, <3>1, <3>2, PutIn
  <2> QED BY <1>10, <2>2
<1> HIDE DEF n
<1>13. ASSUME NEW i \in 1 .. n + 1
       PROVE  r[i].task = IF i < slot THEN q[i].task ELSE IF i = slot THEN task ELSE q[i - 1].task
  <2>1. (i < slot => i \in 1 .. n) /\ (~(i < slot) /\ i # slot => i - 1 \in 1 .. n)
    BY <1>1, <1>7
  <2> QED BY <1>9, <1>11, <1>12, <2>1
<1>14. ASSUME NEW i \in 0 .. n + 1
       PROVE  Wait(r, now, d, i) = IF i < slot THEN W(i) ELSE IF i = slot THEN delay ELSE W(i - 1)
  <2>1. CASE i = 0
    BY <1>7, <2>1 DEF Wait, W
  <2>2. CASE i # 0
    <3>1. i \in 1 .. n + 1 /\ (~(i < slot) /\ i # slot => i - 1 # 0)
      BY <1>1, <1>7, <2>2
    <3>2. r[i].task = IF i < slot THEN q[i].task ELSE IF i = slot THEN task ELSE q[i - 1].task
      BY <1>13, <3>1
    <3>3. TasksLoop!Less(d[task], now) = delay
      BY DEF TasksLoop!Less
    <3> QED BY <2>2, <3>1, <3>2, <3>3 DEF Wait, W
  <2> QED BY <2>1, <2>2
<1>15. ASSUME NEW i \in 1 .. n + 1
       PROVE  r[i].delta = Wait(r, now, d, i) - Wait(r, now, d, i - 1)
  <2>1. i \in 0 .. n + 1 /\ i - 1 \in 0 .. n + 1
    BY <1>1
  <2>2. CASE i < slot
    <3>1. i \in 1 .. n /\ i - 1 < slot /\ i # slot
      BY <1>1, <1>7, <2>2
    <3> QED BY <1>9, <1>12, <1>14, <2>1, <2>2, <3>1
  <2>3. CASE i = slot
    <3>1. ~(i < slot) /\ i - 1 < slot
      BY <1>1, <1>7, <2>3
    <3> QED BY <1>8, <1>11, <1>12, <1>14, <2>1, <2>3, <3>1
  <2>4. CASE i = slot + 1
    <3>1. ~(i < slot) /\ i # slot /\ i - 1 = slot /\ ~(i - 1 < slot) /\ i - 1 \in 1 .. n
      BY <1>1, <1>7, <2>4
    <3> QED BY <1>9, <1>12, <1>14, <2>1, <3>1
  <2>5. CASE i > slot + 1
    <3>1. ~(i < slot) /\ i # slot /\ i - 1 # slot /\ ~(i - 1 < slot) /\ i - 1 \in 1 .. n
      BY <1>1, <1>7, <2>5
    <3> QED BY <1>9, <1>12, <1>14, <2>1, <3>1
  <2>6. i < slot \/ i = slot \/ i = slot + 1 \/ i > slot + 1
    BY <1>1, <1>7
  <2> QED BY <2>2, <2>3, <2>4, <2>5, <2>6
<1>16. ASSUME NEW i \in 1 .. n
       PROVE  /\ d[q[i].task] \in Nat
              /\ i < slot => d[q[i].task] <= now + delay
              /\ i >= slot => d[q[i].task] > now + delay
  <2>1. PICK a \in Nat : a = d[q[i].task]
    BY <1>2 DEF TaskEntries
  <2>2. i # 0 /\ i \in 0 .. n
    BY <1>1
  <2>3. W(i) = TasksLoop!Less(a, now)
    BY <2>1, <2>2 DEF W, Wait
  <2>4. (i < slot => W(i) <= delay) /\ (i >= slot => W(i) > delay)
    BY <1>6, <2>2
  <2> QED BY <2>1, <2>3, <2>4 DEF TasksLoop!Less
<1>17. ASSUME NEW i \in 1 .. n + 1, NEW j \in 1 .. i PROVE d[r[j].task] <= d[r[i].task]
  <2>1. j \in 1 .. n + 1
    BY <1>1
  <2>2. CASE i < slot
    <3>1. i \in 1 .. n /\ j < slot
      BY <1>1, <1>7, <2>2
    <3> QED BY <1>3, <1>13, <2>1, <2>2, <3>1
  <2>3. CASE i = slot
    <3>1. ~(i < slot) /\ (j < slot => j \in 1 .. n) /\ (~(j < slot) => j = slot)
      BY <1>1, <1>7, <2>3
    <3> QED BY <1>13, <1>16, <2>1, <2>3, <3>1
  <2>4. CASE i > slot
    <3>1. ~(i < slot) /\ i # slot /\ i - 1 \in 1 .. n /\ i - 1 >= slot
      BY <1>1, <1>7, <2>4
    <3>2. r[i].task = q[i - 1].task
      BY <1>13, <3>1
    <3>3. CASE j < slot
      <4>1. j \in 1 .. i - 1
        BY <1>1, <1>7, <2>4, <3>3
      <4> QED BY <1>3, <1>13, <2>1, <3>1, <3>2, <3>3, <4>1
    <3>4. CASE j = slot
      <4>1. r[j].task = task /\ d[task] \in Nat
        BY <1>7, <1>13, <2>1, <3>4
      <4> QED BY <1>16, <3>1, <3>2, <4>1
    <3>5. CASE j > slot
      <4>1. ~(j < slot) /\ j # slot /\ j - 1 \in 1 .. i - 1
        BY <1>1, <1>7, <3>5
      <4> QED BY <1>3, <1>13, <2>1, <3>1, <3>2, <4>1
    <3> QED BY <1>7, <3>3, <3>4, <3>5
  <2> QED BY <1>7, <2>2, <2>3, <2>4
<1> QED BY <1>12, <1>15, <1>17 DEF OnTime

LEMMA ScheduleKeeps ==
  ASSUME TasksInv, NEW task \in Tasks, NEW delay \in Delays, TasksLoop!scheduleDelayedTask(task, delay)
  PROVE  TasksInv'
<1> DEFINE q == fDelayQueue
           d == due'
           synced == TasksLoop!Synced
<1>1. /\ ~TasksLoop!IsScheduled(task) /\ fDelayQueue' = TasksLoop!Added(synced, task, delay)
      /\ fLastSyncTime' = clock /\ d = [due EXCEPT ![task] = clock + delay]
      /\ clock' = clock /\ setBack' = setBack
  BY DEF TasksLoop!scheduleDelayedTask
<1> SUFFICES ASSUME ~setBack
             PROVE  /\ fDelayQueue' \in Seq(TaskEntries) /\ clock' \in Nat /\ fLastSyncTime' \in 0 .. clock'
                    /\ d \in [Tasks -> Nat] /\ OnTime(fDelayQueue', fLastSyncTime', d)
  BY <1>1 DEF TasksInv
<1>2. /\ q \in Seq(TaskEntries) /\ clock \in Nat /\ fLastSyncTime \in 0 .. clock /\ due \in [Tasks -> Nat]
      /\ OnTime(q, fLastSyncTime, due) /\ delay \in Nat
  BY LoopAssumption DEF TasksInv
<1>3. /\ synced \in Seq(TaskEntries) /\ Len(synced) = Len(q)
      /\ \A i \in 1 .. Len(q) : synced[i].task = q[i].task
      /\ OnTime(synced, clock, due)
  <2> HIDE DEF synced
  <2>1. synced = TasksLoop!Synced
    BY DEF synced
  <2> QED BY <1>2, <2>1, SyncedIs
<1>4. d \in [Tasks -> Nat] /\ d[task] = clock + delay
  BY <1>1, <1>2
<1>5. Len(q) \in Nat
  BY <1>2
<1>6. ASSUME NEW i \in 1 .. Len(q) PROVE d[synced[i].task] = due[synced[i].task]
  <2>1. q[i].task # task
    BY <1>1, <1>2 DEF TasksLoop!IsScheduled
  <2>2. q[i] \in TaskEntries
    BY <1>2
  <2>3. q[i].task \in Tasks
    BY <2>2 DEF TaskEntries
  <2>4. synced[i].task = q[i].task
    BY <1>3
  <2> HIDE DEF synced, d
  <2> QED BY <1>1, <1>2, <2>1, <2>3, <2>4
<1> HIDE DEF synced, d, q
<1>7. OnTime(synced, clock, d)
  <2>1. ASSUME NEW i \in 0 .. Len(q) PROVE Wait(synced, clock, d, i) = Wait(synced, clock, due, i)
    <3>1. i # 0 => i \in 1 .. Len(q)
      BY <1>5
    <3> QED BY <1>6, <3>1 DEF Wait
  <2>2. ASSUME NEW i \in 1 .. Len(q)
        PROVE  synced[i].delta = Wait(synced, clock, d, i) - Wait(synced, clock, d, i - 1)
    <3>1. i \in 0 .. Len(q) /\ i - 1 \in 0 .. Len(q)
      BY <1>5
    <3> QED BY <1>3, <2>1, <3>1 DEF OnTime
  <2>3. ASSUME NEW i \in 1 .. Len(q), NEW j \in 1 .. i PROVE d[synced[j].task] <= d[synced[i].task]
    <3>1. j \in 1 .. Len(q)
      BY <1>5
    <3> QED BY <1>3, <1>6, <3>1 DEF OnTime
  <2> QED BY <1>3, <2>2, <2>3 DEF OnTime
<1>8. fDelayQueue' \in Seq(TaskEntries) /\ OnTime(fDelayQueue', clock, d)
  BY <1>1, <1>2, <1>3, <1>4, <1>7, AddedIs
<1>9. clock' \in Nat /\ fLastSyncTime' \in 0 .. clock'
  BY <1>1, <1>2
<1> QED BY <1>1, <1>4, <1>8, <1>9

LEMMA UnscheduleKeeps ==
  ASSUME TasksInv, NEW task \in Tasks, TasksLoop!unscheduleDelayedTask(task)
  PROVE  TasksInv'
<1>1. PICK k \in DOMAIN fDelayQueue : fDelayQueue' = TasksLoop!Removed(fDelayQueue, k)
  BY DEF TasksLoop!unscheduleDelayedTask
<1>2. UNCHANGED <<clock, fLastSyncTime, due, setBack>>
  BY DEF TasksLoop!unscheduleDelayedTask
<1>3. ASSUME ~setBack PROVE fDelayQueue' \in Seq(TaskEntries) /\ OnTime(fDelayQueue', fLastSyncTime, due)
  <2>1. /\ fDelayQueue \in Seq(TaskEntries) /\ fLastSyncTime \in Nat /\ due \in [Tasks -> Nat]
        /\ OnTime(fDelayQueue, fLastSyncTime, due)
    BY <1>3 DEF TasksInv
  <2>2. k \in 1 .. Len(fDelayQueue)
    BY <2>1
  <2> QED BY <1>1, <2>1, <2>2, RemovedIs
<1> QED BY <1>2, <1>3 DEF TasksInv

\* The step of handleAlarm: synchronized first, unless the first task is already due.
LEMMA AlarmKeeps ==
  ASSUME TasksInv, TasksLoop!SingleStep
  PROVE  TasksInv'
<1> DEFINE isDue == fDelayQueue # <<>> /\ Head(fDelayQueue).delta = 0
           q == IF isDue THEN fDelayQueue ELSE TasksLoop!Synced
           now == IF isDue THEN fLastSyncTime ELSE clock
<1>1. /\ fLastSyncTime' = now
      /\ fDelayQueue' = IF q # <<>> /\ Head(q).delta = 0 THEN TasksLoop!Removed(q, 1) ELSE q
      /\ UNCHANGED <<clock, due, setBack>>
  BY DEF TasksLoop!SingleStep, TasksLoop!HandleAlarm
<1> SUFFICES ASSUME ~setBack
             PROVE  /\ fDelayQueue' \in Seq(TaskEntries) /\ clock \in Nat /\ now \in 0 .. clock
                    /\ due \in [Tasks -> Nat] /\ OnTime(fDelayQueue', now, due)
  <2> HIDE DEF now
  <2> QED BY <1>1 DEF TasksInv
<1>2. /\ fDelayQueue \in Seq(TaskEntries) /\ clock \in Nat /\ fLastSyncTime \in 0 .. clock
      /\ due \in [Tasks -> Nat] /\ OnTime(fDelayQueue, fLastSyncTime, due)
  BY DEF TasksInv
<1>3. q \in Seq(TaskEntries) /\ OnTime(q, now, due) /\ now \in 0 .. clock
  <2>1. ASSUME ~isDue PROVE q \in Seq(TaskEntries) /\ OnTime(q, now, due) /\ now \in 0 .. clock
    <3>1. q = TasksLoop!Synced /\ now = clock
      BY <2>1
    <3> HIDE DEF q, now, isDue
    <3>2. q \in Seq(TaskEntries) /\ OnTime(q, clock, due)
      BY <1>2, <3>1, SyncedIs
    <3> QED BY <1>2, <3>1, <3>2
  <2>2. ASSUME isDue PROVE q \in Seq(TaskEntries) /\ OnTime(q, now, due) /\ now \in 0 .. clock
    <3>1. q = fDelayQueue /\ now = fLastSyncTime
      BY <2>2
    <3> HIDE DEF q, now, isDue
    <3> QED BY <1>2, <3>1
  <2> QED BY <2>1, <2>2
<1> HIDE DEF q, now
<1>4. CASE q # <<>> /\ Head(q).delta = 0
  <2>1. 1 \in 1 .. Len(q) /\ now \in Nat
    BY <1>2, <1>3, <1>4
  <2>2. fDelayQueue' = TasksLoop!Removed(q, 1)
    BY <1>1, <1>4
  <2> QED BY <1>2, <1>3, <2>1, <2>2, RemovedIs
<1>5. CASE ~(q # <<>> /\ Head(q).delta = 0)
  BY <1>1, <1>2, <1>3, <1>5
<1> QED BY <1>4, <1>5

LEMMA TasksStep ==
  ASSUME TasksInv, TasksLoop!Next \/ UNCHANGED loop
  PROVE  TasksInv'
<1>1. ASSUME UNCHANGED <<clock, fDelayQueue, fLastSyncTime, due, setBack>> PROVE TasksInv'
  BY <1>1 DEF TasksInv
<1>2. ASSUME NEW s \in FewSockets,
             TasksLoop!turnOnBackgroundReadHandling(s) \/ TasksLoop!turnOffBackgroundReadHandling(s)
               \/ TasksLoop!DataArrives(s)
      PROVE  TasksInv'
  BY <1>1, <1>2 DEF TasksLoop!turnOnBackgroundReadHandling, TasksLoop!turnOffBackgroundReadHandling,
                    TasksLoop!DataArrives, TasksLoop!timers
<1>3. ASSUME TasksLoop!Tick PROVE TasksInv'
  <2>1. clock' = clock + 1 /\ UNCHANGED <<fDelayQueue, fLastSyncTime, due, setBack>>
    BY <1>3 DEF TasksLoop!Tick
  <2>2. ASSUME ~setBack PROVE clock' \in Nat /\ fLastSyncTime \in 0 .. clock'
    BY <2>1, <2>2 DEF TasksInv
  <2> QED BY <2>1, <2>2 DEF TasksInv
<1>4. ASSUME TasksLoop!ClockSetBack PROVE TasksInv'
  BY <1>4 DEF TasksLoop!ClockSetBack, TasksInv
<1>5. CASE UNCHANGED loop
  BY <1>1, <1>5 DEF loop
<1> QED BY <1>2, <1>3, <1>4, <1>5, ScheduleKeeps, UnscheduleKeeps, AlarmKeeps DEF TasksLoop!Next

LEMMA TasksInvIsEnough ==
  ASSUME TasksInv
  PROVE  TasksLoop!TasksInTime
<1> DEFINE q == fDelayQueue
           now == fLastSyncTime
<1> SUFFICES ASSUME ~setBack, NEW i \in DOMAIN q
             PROVE  /\ now + TasksLoop!TimeUntil(q, i)
                         = IF due[q[i].task] > now THEN due[q[i].task] ELSE now
                    /\ \A j \in 1 .. i : due[q[j].task] <= due[q[i].task]
  BY DEF TasksLoop!TasksInTime
<1>1. q \in Seq(TaskEntries) /\ now \in Nat /\ due \in [Tasks -> Nat] /\ OnTime(q, now, due)
  BY DEF TasksInv
<1>2. i \in 1 .. Len(q) /\ i \in 0 .. Len(q) /\ i # 0 /\ q[i] \in TaskEntries
  BY <1>1
<1> HIDE DEF q, now
<1>3. TasksLoop!TimeUntil(q, i) = Wait(q, now, due, i)
  BY <1>1, <1>2, WaitIs
<1>4. PICK a \in Nat : a = due[q[i].task]
  BY <1>1, <1>2 DEF TaskEntries
<1>5. now + TasksLoop!TimeUntil(q, i) = IF a > now THEN a ELSE now
  BY <1>1, <1>2, <1>3, <1>4 DEF Wait, TasksLoop!Less
<1> QED BY <1>1, <1>2, <1>4, <1>5 DEF OnTime

LEMMA TasksOnly ==
  ASSUME part = "tasks", [InputNext]_inputVars
  PROVE  part' = "tasks" /\ (TasksLoop!Next \/ UNCHANGED loop)
BY DEF InputNext, inputVars, Others

\* DelayQueue: however tasks are scheduled and taken away, and however late the loop comes to
\* handleAlarm, each runs when its delay is over, and none before one that is due earlier.
THEOREM TasksRunInTime == InputSpec => []TasksInTime
<1> DEFINE Inv == part = "tasks" => TasksInv
<1>1. InputInit => Inv
  <2> SUFFICES ASSUME TasksLoop!Init PROVE TasksInv
    BY DEF InputInit
  <2>1. /\ clock = 0 /\ fDelayQueue = <<>> /\ fLastSyncTime = 0
        /\ due = [t \in Tasks |-> 0]
    BY DEF TasksLoop!Init
  <2>2. Len(fDelayQueue) = 0 /\ fDelayQueue \in Seq(TaskEntries)
    BY <2>1, EmptySeq
  <2>3. OnTime(fDelayQueue, fLastSyncTime, due)
    BY <2>2 DEF OnTime
  <2> QED BY <2>1, <2>2, <2>3 DEF TasksInv
<1>2. Inv /\ [InputNext]_inputVars => Inv'
  <2> SUFFICES ASSUME Inv, [InputNext]_inputVars, part' = "tasks" PROVE TasksInv'
    OBVIOUS
  <2>1. part = "tasks"
    BY DEF InputNext, inputVars, Others
  <2> QED BY <2>1, TasksOnly, TasksStep
<1>3. Inv => TasksInTime
  BY TasksInvIsEnough DEF TasksInTime
<1> QED BY <1>1, <1>2, <1>3, PTL DEF InputSpec

-----------------------------------------------------------------------------
(* BasicHashTable, which implements the dictionary for every hash function, *)
(* every initial size and every multiplier: with whatever collisions, and   *)
(* however often it is rebuilt.  Sound is what makes a lookup in one bucket *)
(* enough: an entry lies in the bucket of its key for the present number of *)
(* buckets, and a key has one entry.                                        *)

HashAssumption ==
  /\ \A key \in Key : \A numBuckets \in Nat : Hash(key, numBuckets) \in Nat
  /\ SmallHashTableSize \in Nat \ {0}
  /\ NULL \notin Value

Sized(buckets, n) == n \in Nat \ {0} /\ buckets \in [0..n - 1 -> SUBSET Entry]

Placed(buckets, n) ==
  \A index \in 0..n - 1 : \A entry \in buckets[index] : HashIndexFromKey(entry.key, n) = index

Single(buckets, n) == \A index \in 0..n - 1 : \A d, e \in buckets[index] : d.key = e.key => d = e

Sound(buckets, n) == Sized(buckets, n) /\ Placed(buckets, n) /\ Single(buckets, n)

TableInv == Sound(fBuckets, fNumBuckets)

OfKey(entries, key) == {entry \in entries : entry.key = key}

-----------------------------------------------------------------------------

\* The remainder is a bucket.
LEMMA IndexInRange ==
  ASSUME HashAssumption, NEW key \in Key, NEW n \in Nat \ {0}
  PROVE HashIndexFromKey(key, n) \in 0..n - 1
<1>1. Hash(key, n) \in Nat BY DEF HashAssumption
<1>2. ASSUME NEW h \in Nat PROVE h % n \in 0..n - 1 OBVIOUS
<1> QED BY <1>1, <1>2 DEF HashIndexFromKey

\* What there is of a key lies in one bucket.
LEMMA LookupSeesAll ==
  ASSUME HashAssumption, NEW buckets, NEW n, Sound(buckets, n), NEW key \in Key
  PROVE OfKey(buckets[HashIndexFromKey(key, n)], key) = OfKey(Entries(buckets), key)
<1> DEFINE home == HashIndexFromKey(key, n)
<1>1. home \in 0..n - 1 BY IndexInRange DEF Sound, Sized
<1>2. DOMAIN buckets = 0..n - 1 BY DEF Sound, Sized
<1>3. ASSUME NEW entry \in buckets[home] PROVE entry \in Entries(buckets)
  BY <1>1, <1>2 DEF Entries
<1>4. ASSUME NEW entry \in Entries(buckets), entry.key = key PROVE entry \in buckets[home]
  <2>1. PICK index \in 0..n - 1 : entry \in buckets[index] BY <1>2 DEF Entries
  <2> QED BY <2>1, <1>4 DEF Sound, Placed
<1> QED BY <1>3, <1>4 DEF OfKey

\* A key has one entry among all.
LEMMA OneEntry ==
  ASSUME HashAssumption, NEW buckets, NEW n, Sound(buckets, n),
         NEW d \in Entries(buckets), NEW e \in Entries(buckets), d.key = e.key
  PROVE d = e
<1>1. DOMAIN buckets = 0..n - 1 BY DEF Sound, Sized
<1>2. PICK i \in 0..n - 1 : d \in buckets[i] BY <1>1 DEF Entries
<1>3. PICK j \in 0..n - 1 : e \in buckets[j] BY <1>1 DEF Entries
<1>4. i = j BY <1>2, <1>3 DEF Sound, Placed
<1> QED BY <1>2, <1>3, <1>4 DEF Sound, Single

\* Every entry has a key and a value.
LEMMA EntriesAreEntries ==
  ASSUME NEW buckets, NEW n, Sound(buckets, n) PROVE Entries(buckets) \subseteq Entry
BY DEF Sound, Sized, Entries

\* The value of a key is that of its entry.
LEMMA ValueOfOne ==
  ASSUME NEW entry PROVE ValueOf({entry}) = entry.value
<1>1. (CHOOSE e \in {entry} : TRUE) = entry OBVIOUS
<1> QED BY <1>1 DEF ValueOf

-----------------------------------------------------------------------------

\* One entry of the key, or none.
Fits(added, key) ==
  added \subseteq Entry /\ (\A e \in added : e.key = key) /\ (\A d, e \in added : d = e)

Replacing(buckets, n, key, added) ==
  LET home == HashIndexFromKey(key, n)
  IN [buckets EXCEPT ![home] = (@ \ OfKey(buckets[home], key)) \cup added]

\* Add and Remove within the buckets: the entry of a key makes way for another or for none.
LEMMA Replaced ==
  ASSUME HashAssumption, NEW buckets, NEW n, Sound(buckets, n), NEW key \in Key,
         NEW added, Fits(added, key)
  PROVE /\ Sound(Replacing(buckets, n, key, added), n)
        /\ Entries(Replacing(buckets, n, key, added)) =
             (Entries(buckets) \ OfKey(Entries(buckets), key)) \cup added
<1> DEFINE home == HashIndexFromKey(key, n)
           bucket == (buckets[home] \ OfKey(buckets[home], key)) \cup added
           after == [buckets EXCEPT ![home] = bucket]
<1>0. after = Replacing(buckets, n, key, added) BY DEF Replacing
<1> USE DEF Fits
<1>1. home \in 0..n - 1 BY IndexInRange DEF Sound, Sized
<1>2. DOMAIN buckets = 0..n - 1 /\ DOMAIN after = 0..n - 1 BY DEF Sound, Sized
<1>3. after[home] = bucket BY <1>1, <1>2
<1>4. \A index \in 0..n - 1 : index # home => after[index] = buckets[index] BY <1>2
<1>5. Sized(after, n)
  <2>1. bucket \in SUBSET Entry BY <1>1 DEF Sound, Sized
  <2> QED BY <1>1, <2>1 DEF Sound, Sized
<1>6. Placed(after, n)
  <2> SUFFICES ASSUME NEW index \in 0..n - 1, NEW entry \in after[index]
               PROVE HashIndexFromKey(entry.key, n) = index
    BY DEF Placed
  <2>1. CASE index # home BY <2>1, <1>4 DEF Sound, Placed
  <2>2. CASE index = home BY <2>2, <1>1, <1>3 DEF Sound, Placed
  <2> QED BY <2>1, <2>2
<1>7. Single(after, n)
  <2> SUFFICES ASSUME NEW index \in 0..n - 1, NEW d \in after[index], NEW e \in after[index],
                      d.key = e.key
               PROVE d = e
    BY DEF Single
  <2>1. CASE index # home BY <2>1, <1>4 DEF Sound, Single
  <2>2. CASE index = home
    BY <2>2, <1>1, <1>3 DEF Sound, Single, OfKey
  <2> QED BY <2>1, <2>2
<1>8. ASSUME NEW entry \in Entries(after)
      PROVE entry \in (Entries(buckets) \ OfKey(Entries(buckets), key)) \cup added
  <2>1. PICK index \in 0..n - 1 : entry \in after[index] BY <1>2 DEF Entries
  <2>2. CASE index = home
    BY <2>1, <2>2, <1>1, <1>2, <1>3, LookupSeesAll DEF Entries, OfKey
  <2>3. CASE index # home
    <3>1. entry \in buckets[index] BY <2>1, <2>3, <1>4
    <3>2. HashIndexFromKey(entry.key, n) = index BY <3>1 DEF Sound, Placed
    <3>3. entry.key # key BY <3>2, <2>3
    <3>4. entry \in Entries(buckets) BY <3>1, <1>2 DEF Entries
    <3> QED BY <3>3, <3>4 DEF OfKey
  <2> QED BY <2>2, <2>3
<1>9. ASSUME NEW entry \in (Entries(buckets) \ OfKey(Entries(buckets), key)) \cup added
      PROVE entry \in Entries(after)
  <2>1. CASE entry \in added BY <2>1, <1>1, <1>2, <1>3 DEF Entries
  <2>2. CASE entry \in Entries(buckets) \ OfKey(Entries(buckets), key)
    <3>1. PICK index \in 0..n - 1 : entry \in buckets[index] BY <2>2, <1>2 DEF Entries
    <3>2. entry.key # key BY <2>2 DEF OfKey
    <3>3. entry \in after[index] BY <3>1, <3>2, <1>3, <1>4 DEF OfKey
    <3> QED BY <3>1, <3>3, <1>2 DEF Entries
  <2> QED BY <2>1, <2>2
<1> QED BY <1>0, <1>5, <1>6, <1>7, <1>8, <1>9 DEF Sound

\* rebuild loses nothing and puts every entry where a lookup will search.
LEMMA RehashedSound ==
  ASSUME HashAssumption, NEW buckets, NEW n, Sound(buckets, n)
  PROVE /\ Sound(Rehashed(buckets, n * 4), n * 4)
        /\ Entries(Rehashed(buckets, n * 4)) = Entries(buckets)
<1> DEFINE new == Rehashed(buckets, n * 4)
<1>1. n * 4 \in Nat \ {0} BY DEF Sound, Sized
<1>2. DOMAIN new = 0..(n * 4) - 1 BY DEF Rehashed
<1>3. \A index \in 0..(n * 4) - 1 :
        new[index] = {entry \in Entries(buckets) : HashIndexFromKey(entry.key, n * 4) = index}
  BY DEF Rehashed
<1>4. Entries(buckets) \subseteq Entry BY EntriesAreEntries
<1>5. Sized(new, n * 4) BY <1>1, <1>4 DEF Sized, Rehashed
<1>6. Placed(new, n * 4) BY <1>3 DEF Placed
<1>7. Single(new, n * 4) BY <1>3, OneEntry DEF Single
<1>8. ASSUME NEW entry \in Entries(new) PROVE entry \in Entries(buckets)
  <2>1. PICK index \in 0..(n * 4) - 1 : entry \in new[index] BY <1>2 DEF Entries
  <2> QED BY <2>1, <1>3
<1>9. ASSUME NEW entry \in Entries(buckets) PROVE entry \in Entries(new)
  <2> DEFINE index == HashIndexFromKey(entry.key, n * 4)
  <2>1. entry.key \in Key BY <1>4 DEF Entry
  <2>2. index \in 0..(n * 4) - 1 BY <1>1, <2>1, IndexInRange
  <2>3. entry \in new[index] BY <2>2, <1>3
  <2> QED BY <2>2, <2>3, <1>2 DEF Entries
<1> QED BY <1>5, <1>6, <1>7, <1>8, <1>9 DEF Sound

-----------------------------------------------------------------------------

\* The lookup of the module, seen from all entries.
LEMMA LookupKeyIs ==
  ASSUME HashAssumption, TableInv, NEW key \in Key
  PROVE LookupKey(key) = OfKey(Entries(fBuckets), key)
BY LookupSeesAll DEF LookupKey, OfKey, TableInv

\* What Add and DeleteEntry make of the entries: of the key the new one or none, of the others the same.
LEMMA AddStep ==
  ASSUME HashAssumption, TableInv, NEW key \in Key, NEW value \in Value, Add(key, value)
  PROVE /\ TableInv'
        /\ Entries(fBuckets') = (Entries(fBuckets) \ OfKey(Entries(fBuckets), key))
                                  \cup {[key |-> key, value |-> value]}
<1> DEFINE added == {[key |-> key, value |-> value]}
           after == WithEntry(key, value)
<1>1. Fits(added, key) BY DEF Entry, Fits
<1>2. after = Replacing(fBuckets, fNumBuckets, key, added)
  BY DEF WithEntry, LookupKey, OfKey, Replacing
<1>3. /\ Sound(after, fNumBuckets)
      /\ Entries(after) = (Entries(fBuckets) \ OfKey(Entries(fBuckets), key)) \cup added
  <2> HIDE DEF added, after
  <2> QED BY <1>1, <1>2, Replaced DEF TableInv
<1>4. CASE fBuckets' = after /\ fNumBuckets' = fNumBuckets BY <1>3, <1>4 DEF TableInv
<1>5. CASE fBuckets' = Rehashed(after, fNumBuckets * 4) /\ fNumBuckets' = fNumBuckets * 4
  <2>1. /\ Sound(fBuckets', fNumBuckets')
        /\ Entries(fBuckets') = Entries(after)
    BY <1>3, <1>5, RehashedSound
  <2> QED BY <2>1, <1>3 DEF TableInv
<1> QED BY <1>4, <1>5 DEF Add, Rebuild

LEMMA DeleteStep ==
  ASSUME HashAssumption, TableInv, NEW key \in Key, DeleteEntry(key)
  PROVE /\ TableInv'
        /\ Entries(fBuckets') = Entries(fBuckets) \ OfKey(Entries(fBuckets), key)
<1>1. Fits({}, key) BY DEF Fits
<1>2. fBuckets' = Replacing(fBuckets, fNumBuckets, key, {})
  BY DEF DeleteEntry, LookupKey, OfKey, Replacing
<1>3. /\ Sound(fBuckets', fNumBuckets)
      /\ Entries(fBuckets') = (Entries(fBuckets) \ OfKey(Entries(fBuckets), key)) \cup {}
  BY <1>1, <1>2, Replaced DEF TableInv
<1> QED BY <1>3 DEF DeleteEntry, TableInv

\* The table starts sound, and every operation keeps it so.
LEMMA InvInit == ASSUME HashAssumption, Init PROVE TableInv
BY DEF HashAssumption, Init, TableInv, Sound, Sized, Placed, Single

LEMMA InvNext == ASSUME HashAssumption, TableInv, [Next]_vars PROVE TableInv'
<1>1. ASSUME NEW key \in Key, NEW value \in Value, Add(key, value) PROVE TableInv' BY <1>1, AddStep
<1>2. ASSUME NEW key \in Key, Remove(key) PROVE TableInv' BY <1>2, DeleteStep DEF Remove
<1>3. CASE UNCHANGED <<fBuckets, fNumBuckets>> BY <1>3 DEF TableInv
<1>4. ASSUME NEW entry \in Entry, DeleteEntry(entry.key) PROVE TableInv'
  BY <1>4, DeleteStep DEF Entry
<1> QED BY <1>1, <1>2, <1>3, <1>4 DEF Next, Lookup, RemoveNext, vars

\* Chains, rebuilding: in every state an entry is where its key is looked up, and is the only one.
THEOREM TableSound == ASSUME HashAssumption PROVE Spec => []TableInv
<1>1. Init => TableInv BY InvInit
<1>2. TableInv /\ [Next]_vars => TableInv' BY InvNext
<1> QED BY <1>1, <1>2, PTL DEF Spec

-----------------------------------------------------------------------------

\* Map is what the entries say.
LEMMA MapIs ==
  ASSUME HashAssumption, TableInv
  PROVE Map = [key \in Key |-> ValueOf(OfKey(Entries(fBuckets), key))]
BY LookupKeyIs DEF Map

\* The abstract map after a step that puts added in the place of a key's entry.
LEMMA MapAfter ==
  ASSUME HashAssumption, TableInv, TableInv', NEW key \in Key, NEW added, \A e \in added : e.key = key,
         Entries(fBuckets') = (Entries(fBuckets) \ OfKey(Entries(fBuckets), key)) \cup added
  PROVE Map' = [Map EXCEPT ![key] = ValueOf(added)]
<1>1. Map' = [k \in Key |-> ValueOf(OfKey(Entries(fBuckets'), k))]
  <2>1. \A k \in Key : LookupKey(k)' = OfKey(Entries(fBuckets'), k)
    <3> TAKE k \in Key
    <3> QED BY LookupSeesAll DEF LookupKey, OfKey, TableInv
  <2> QED BY <2>1 DEF Map
<1>2. Map = [k \in Key |-> ValueOf(OfKey(Entries(fBuckets), k))] BY MapIs
<1>3. OfKey(Entries(fBuckets'), key) = added BY DEF OfKey
<1>4. \A k \in Key : k # key => OfKey(Entries(fBuckets'), k) = OfKey(Entries(fBuckets), k)
  BY DEF OfKey
<1> QED BY <1>1, <1>2, <1>3, <1>4

LEMMA ValueOfNone == ValueOf({}) = NULL
BY DEF ValueOf

\* A key in the table has the value of its entry, and that is not NULL.
LEMMA MapOfEntry ==
  ASSUME HashAssumption, TableInv, NEW entry \in Entries(fBuckets)
  PROVE entry.key \in Key /\ Map[entry.key] = entry.value /\ entry.value # NULL
<1>1. entry \in Entry BY EntriesAreEntries DEF TableInv
<1>2. entry.key \in Key /\ entry.value # NULL BY <1>1 DEF Entry, HashAssumption
<1>3. OfKey(Entries(fBuckets), entry.key) = {entry} BY OneEntry DEF OfKey, TableInv
<1>4. Map[entry.key] = ValueOf({entry}) BY <1>2, <1>3, MapIs
<1> QED BY <1>2, <1>4, ValueOfOne

LEMMA TableInit == ASSUME HashAssumption, Init PROVE Table!Init
<1>1. \A key \in Key : LookupKey(key) = {}
  <2> TAKE key \in Key
  <2>1. HashIndexFromKey(key, fNumBuckets) \in 0..fNumBuckets - 1
    BY IndexInRange DEF Init, HashAssumption
  <2> QED BY <2>1 DEF Init, LookupKey
<1> QED BY <1>1, ValueOfNone DEF Init, Table!Init, Map

LEMMA TableNext == ASSUME HashAssumption, TableInv, TableInv', [Next]_vars PROVE [Table!Next]_(Table!vars)
<1>1. ASSUME NEW key \in Key, NEW value \in Value, Add(key, value) PROVE Table!Add(key, value)
  <2>1. Map' = [Map EXCEPT ![key] = ValueOf({[key |-> key, value |-> value]})]
    BY <1>1, AddStep, MapAfter
  <2>2. found' = Map[key] BY <1>1 DEF Add, Map
  <2> QED BY <2>1, <2>2, ValueOfOne DEF Table!Add
<1>2. ASSUME NEW key \in Key, Remove(key) PROVE Table!Remove(key)
  <2>1. Map' = [Map EXCEPT ![key] = ValueOf({})] BY <1>2, DeleteStep, MapAfter DEF Remove
  <2>2. found' = Map[key] BY <1>2 DEF Remove, Map
  <2> QED BY <2>1, <2>2, ValueOfNone DEF Table!Remove
<1>3. ASSUME NEW key \in Key, Lookup(key) PROVE Table!Lookup(key)
  <2>1. Map' = Map BY <1>3 DEF Lookup, Map, LookupKey
  <2>2. found' = Map[key] BY <1>3 DEF Lookup, Map
  <2> QED BY <2>1, <2>2 DEF Table!Lookup
<1>4. ASSUME RemoveNext PROVE Table!RemoveNext
  <2>1. ASSUME NEW entry \in Entry, IsFirst(entry), found' = entry.value, DeleteEntry(entry.key)
        PROVE Table!RemoveNext
    <3>1. entry \in Entries(fBuckets) BY <2>1 DEF IsFirst, Entries, TableInv, Sound, Sized
    <3>2. entry.key \in Key /\ Map[entry.key] = entry.value /\ entry.value # NULL
      BY <3>1, MapOfEntry
    <3>3. Map' = [Map EXCEPT ![entry.key] = ValueOf({})] BY <2>1, <3>2, DeleteStep, MapAfter
    <3>4. Table!Remove(entry.key) BY <2>1, <3>2, <3>3, ValueOfNone DEF Table!Remove
    <3> QED BY <3>2, <3>4 DEF Table!RemoveNext
  <2>2. ASSUME \A index \in 0..fNumBuckets - 1 : fBuckets[index] = {}, found' = NULL,
               UNCHANGED <<fBuckets, fNumBuckets>>
        PROVE Table!RemoveNext
    <3>1. \A key \in Key : LookupKey(key) = {}
      BY <2>2, IndexInRange DEF LookupKey, TableInv, Sound, Sized
    <3>2. \A key \in Key : Map[key] = NULL BY <3>1, ValueOfNone DEF Map
    <3>3. Map' = Map BY <2>2 DEF Map, LookupKey
    <3> QED BY <2>2, <3>2, <3>3 DEF Table!RemoveNext
  <2> QED BY <1>4, <2>1, <2>2 DEF RemoveNext
<1>5. ASSUME UNCHANGED vars PROVE UNCHANGED Table!vars
  BY <1>5 DEF vars, Table!vars, Map, LookupKey
<1> QED BY <1>1, <1>2, <1>3, <1>4, <1>5 DEF Next, Table!Next

\* BasicHashTable is the dictionary that its users rely on, for every hash function and size: no entry is
\* lost or found twice, and what a call returns is what the dictionary would.
THEOREM Refinement == ASSUME HashAssumption PROVE Spec => TableIsDictionary
<1>1. Init => Table!Init BY TableInit
<1>2. TableInv /\ TableInv' /\ [Next]_vars => [Table!Next]_(Table!vars) BY TableNext
<1>3. Spec => []TableInv BY TableSound
<1> QED BY <1>1, <1>2, <1>3, PTL DEF Spec, TableIsDictionary, Table!Spec

-----------------------------------------------------------------------------
(* SectionDecoder                                                          *)

LEMMA SectionsOnly ==
  ASSUME [InputNext]_inputVars, part = "sections"
  PROVE  Sections!Next \/ UNCHANGED decoder
BY Zenon DEF InputNext, inputVars, Others

\* What is known of the constants.
Sizes == 12 .. 4098
Values == 0 .. 255

LEMMA SizesAre ==
  /\ Payload \in Nat /\ Payload >= 16 /\ MaxLoops \in Nat /\ MaxLoops >= 3 /\ MaxSections \in Nat
  /\ Totals \subseteq Sizes
BY SectionsAssumption, SMT DEF Sizes

LEMMA ContentsAre ==
  ASSUME NEW s \in 1 .. MaxSections, NEW t \in Totals, NEW k \in 0 .. t - 1
  PROVE  Contents[s][0] # 255 /\ Contents[s][k] \in Values
BY SectionsAssumption, SMT DEF Values

LEMMA TotalIs ==
  ASSUME NEW t \in Totals
  PROVE  t \in Sizes /\ t \in Nat /\ t >= 12
<1>1. t \in Sizes
  BY SizesAre, Zenon
<1> QED BY <1>1 DEF Sizes

\* The two bytes of a length, and what is read from them.
HasLength(t) ==
  /\ Sections!LengthHigh(t) \in 176 .. 191 /\ Sections!LengthLow(t) \in Nat
  /\ (Sections!LengthHigh(t) % 16) * 256 + Sections!LengthLow(t) = t - 3

LEMMA LengthBytes ==
  ASSUME NEW t \in Totals
  PROVE  HasLength(t)
<1> DEFINE q == (t - 3) \div 256
           r == (t - 3) % 256
<1>0. t \in Sizes
  BY TotalIs
<1>1. PICK l \in Nat : l = t - 3 /\ l <= 4095
  BY <1>0 DEF Sizes
<1>2. q = l \div 256 /\ r = l % 256
  BY <1>1
<1>3. q \in Nat /\ r \in Nat /\ r < 256 /\ l = (q * 256) + r
  BY <1>2
<1> HIDE DEF q, r
<1>4. q < 16
  BY ONLY <1>1, <1>3
<1>6. (176 + q) % 16 = q
  BY ONLY <1>3, <1>4
<1>5. Sections!LengthHigh(t) = 176 + q /\ Sections!LengthLow(t) = r
  BY DEF Sections!LengthHigh, Sections!LengthLow, q, r
<1> QED BY ONLY <1>1, <1>3, <1>4, <1>5, <1>6 DEF HasLength

\* Bytes: those of sections have their place in them.
TheBytes == {b \in [s : Int, k : Nat, t : Int] :
               b.s > 0 => b.s \in 1 .. MaxSections /\ b.t \in Totals /\ b.k < b.t}

LEMMA ByteIs ==
  ASSUME NEW b \in TheBytes
  PROVE  /\ Sections!ByteAt(b) \in Nat
         /\ b.s > 0 /\ b.k = 0 => Sections!ByteAt(b) # 255
         /\ b.s > 0 /\ b.k = 1 => Sections!ByteAt(b) >= 128
<1>1. b.s \in Int /\ b.k \in Nat /\ b.t \in Int
  BY DEF TheBytes
<1>2. CASE b.s <= 0
  <2>1. Sections!ByteAt(b) = b.k
    BY <1>1, <1>2 DEF Sections!ByteAt
  <2> QED BY <1>1, <1>2, <2>1
<1>3. CASE b.s > 0
  <2>1. b.s \in 1 .. MaxSections /\ b.t \in Totals /\ b.k < b.t
    BY <1>3 DEF TheBytes
  <2>2. PICK s \in 1 .. MaxSections, t \in Totals : s = b.s /\ t = b.t
    BY <2>1
  <2>3. b.k \in 0 .. t - 1
    BY <1>1, <2>1, <2>2, TotalIs
  <2>4. Contents[s][0] # 255 /\ Contents[s][b.k] \in 0 .. 255
    <3>1. PICK k \in 0 .. t - 1 : k = b.k
      BY <2>3
    <3>2. Contents[s][0] # 255 /\ Contents[s][k] \in Values
      BY ContentsAre
    <3> QED BY <3>1, <3>2 DEF Values
  <2>5. Sections!LengthHigh(t) \in 176 .. 191 /\ Sections!LengthLow(t) \in Nat
    BY <2>2, LengthBytes DEF HasLength
  <2>6. CASE b.k = 1
    <3>1. Sections!ByteAt(b) = Sections!LengthHigh(b.t)
      BY <1>1, <1>3, <2>6 DEF Sections!ByteAt
    <3> QED BY <2>2, <2>5, <2>6, <3>1
  <2>7. CASE b.k = 2
    <3>1. Sections!ByteAt(b) = Sections!LengthLow(b.t)
      BY <1>1, <1>3, <2>7 DEF Sections!ByteAt
    <3> QED BY <2>2, <2>5, <2>7, <3>1
  <2>8. CASE b.k # 1 /\ b.k # 2
    <3>1. Sections!ByteAt(b) = Contents[b.s][b.k]
      BY <1>1, <1>3, <2>8 DEF Sections!ByteAt
    <3> QED BY <2>2, <2>4, <2>8, <3>1
  <2> QED BY <2>6, <2>7, <2>8
<1> QED BY <1>1, <1>2, <1>3

LEMMA LengthIs ==
  ASSUME NEW s \in 1 .. MaxSections, NEW t \in Totals, NEW high, NEW low,
         high = [s |-> s, k |-> 1, t |-> t], low = [s |-> s, k |-> 2, t |-> t]
  PROVE  Sections!LengthOf(high, low) = t - 3
<1>1. t \in Nat /\ s \in Nat /\ s > 0
  BY TotalIs, SizesAre
<1>2. Sections!ByteAt(high) = Sections!LengthHigh(t)
  BY <1>1 DEF Sections!ByteAt
<1>3. Sections!ByteAt(low) = Sections!LengthLow(t)
  BY <1>1 DEF Sections!ByteAt
<1>4. (Sections!LengthHigh(t) % 16) * 256 + Sections!LengthLow(t) = t - 3
  BY LengthBytes DEF HasLength
<1> QED BY ONLY <1>2, <1>3, <1>4 DEF Sections!LengthOf

LEMMA LengthIsNat ==
  ASSUME NEW high \in TheBytes, NEW low \in TheBytes
  PROVE  Sections!LengthOf(high, low) \in Nat
<1>1. PICK h \in Nat : h = Sections!ByteAt(high)
  BY ByteIs
<1>2. PICK l \in Nat : l = Sections!ByteAt(low)
  BY ByteIs
<1> QED BY <1>1, <1>2 DEF Sections!LengthOf

\* What the loop of OnTsPacket works on.
State(d, length, start, pointer, out1, ended) ==
  [section |-> [data |-> d, length |-> length], out |-> out1, ended |-> ended, start |-> start,
   pointer |-> pointer]

\* How much AppendSection takes.
Amount(start, length) == IF start + length < Payload - 3 THEN length + 3 ELSE Payload - start

LEMMA AppendSectionIs ==
  ASSUME NEW d, NEW length, NEW start, NEW pointer, NEW o, NEW e, NEW p, NEW l, NEW n, n = Amount(start, l),
         NEW st, st = State(d, length, start, pointer, o, e)
  PROVE  Sections!AppendSection(st, p, l)
           = State(d \o Sections!BytesOf(p, start, n), length, start + n, pointer, o, e)
<1>1. PICK x : x = d \o Sections!BytesOf(p, start, n)
  OBVIOUS
<1>2. PICK z : z = start + n
  OBVIOUS
<1>3. PICK u : u = [st EXCEPT !.section.data = x]
  OBVIOUS
<1>4. st.section.data = d /\ st.start = start
  BY ONLY st = State(d, length, start, pointer, o, e), SMT DEF State
<1>5. u = State(x, length, start, pointer, o, e)
  BY ONLY <1>3, st = State(d, length, start, pointer, o, e), SMT DEF State
<1>6. u.start = start
  BY ONLY <1>5, SMT DEF State
<1>7. Sections!AppendSection(st, p, l) = [u EXCEPT !.start = u.start + n]
  BY <1>1, <1>3, <1>4, Zenon DEF Sections!AppendSection, Amount
<1>8. [u EXCEPT !.start = z] = State(x, length, z, pointer, o, e)
  BY ONLY <1>5, SMT DEF State
<1>9. Sections!AppendSection(st, p, l) = State(x, length, z, pointer, o, e)
  BY <1>2, <1>6, <1>7, <1>8, Zenon
<1> QED BY <1>1, <1>2, <1>9, Zenon

\* A section that goes on, as it is before it is looked at whether it is complete.
Continued(d, length, start, pointer, o, p, known) ==
  LET m == Amount(start, pointer - start)
      n == Amount(start, known - Len(d))
      cut == d \o Sections!BytesOf(p, start, m)
  IN  IF known = 0 THEN State(<<>>, -1, start, pointer, o, TRUE)
      ELSE IF pointer # 0 /\ start + (known - Len(d)) > pointer
      THEN State(cut, Len(cut) - 1, pointer, pointer, o, FALSE)
      ELSE State(d \o Sections!BytesOf(p, start, n), known, start + n, pointer, o, FALSE)

Known(d, length, p, start) == Sections!CalcSectionLength([data |-> d, length |-> length], p, start)

LEMMA ContinueIs ==
  ASSUME NEW d, NEW length, NEW start, NEW pointer, NEW o, NEW p
  PROVE  Sections!ContinueSection(State(d, length, start, pointer, o, FALSE), p)
           = Continued(d, length, start, pointer, o, p, Known(d, length, p, start))
<1>0. PICK e : e = FALSE
  OBVIOUS
<1>27. PICK st : st = State(d, length, start, pointer, o, e)
  OBVIOUS
<1>28. PICK next : next = Sections!ContinueSection(st, p)
  OBVIOUS
<1>29. PICK known : known = Known(d, length, p, start)
  OBVIOUS
<1>30. PICK all : all = d \o Sections!BytesOf(p, start, Amount(start, known - Len(d)))
  OBVIOUS
<1>31. PICK cut : cut = d \o Sections!BytesOf(p, start, Amount(start, pointer - start))
  OBVIOUS
<1>1. /\ st.section = [data |-> d, length |-> length] /\ st.section.data = d
      /\ st.pointer = pointer /\ st.start = start
  BY ONLY <1>27, SMT DEF State
<1>2. PICK with : with = State(d, known, start, pointer, o, e)
  OBVIOUS
<1>3. [st EXCEPT !.section.length = known] = with
  BY ONLY <1>2, <1>27, SMT DEF State
<1>4. PICK here : here = Sections!AppendSection(with, p, pointer - start)
  OBVIOUS
<1>5. PICK m : m = Amount(start, pointer - start)
  OBVIOUS
<1>6. PICK n : n = Amount(start, known - Len(d))
  OBVIOUS
<1>7. here = State(cut, known, start + m, pointer, o, e)
  BY ONLY <1>2, <1>4, <1>5, <1>31, AppendSectionIs, SMT
<1>8. Sections!AppendSection(with, p, known - Len(d)) = State(all, known, start + n, pointer, o, e)
  BY ONLY <1>2, <1>6, <1>30, AppendSectionIs, SMT
<1>9. here.section.data = cut
  BY ONLY <1>7, SMT DEF State
<1>10. PICK y : y = Len(cut) - 1
  OBVIOUS
<1>20. PICK v : v = State(cut, y, start + m, pointer, o, e)
  OBVIOUS
<1>21. [here EXCEPT !.section.length = y] = v
  <2>1. PICK x : x = start + m
    OBVIOUS
  <2>2. here = State(cut, known, x, pointer, o, e) /\ v = State(cut, y, x, pointer, o, e)
    BY <1>7, <1>20, <2>1, Zenon
  <2> QED BY ONLY <2>2, SMT DEF State
<1>22. [v EXCEPT !.start = pointer] = State(cut, y, pointer, pointer, o, e)
  BY ONLY <1>20, SMT DEF State
<1>11. [here EXCEPT !.section.length = y, !.start = pointer] = State(cut, y, pointer, pointer, o, e)
  BY <1>21, <1>22, Zenon
<1>12. [here EXCEPT !.section.length = Len(here.section.data) - 1, !.start = pointer]
         = State(cut, y, pointer, pointer, o, e)
  BY <1>9, <1>10, <1>11, Zenon
<1>13. PICK z : z = TRUE
  OBVIOUS
<1>23. PICK x, w : x = <<>> /\ w = -1
  OBVIOUS
<1>24. PICK u : u = State(x, w, start, pointer, o, e)
  OBVIOUS
<1>25. [st EXCEPT !.section = [data |-> x, length |-> w]] = u
  BY ONLY <1>24, <1>27, SMT DEF State
<1>26. [u EXCEPT !.ended = z] = State(x, w, start, pointer, o, z)
  BY ONLY <1>24, SMT DEF State
<1>14. [st EXCEPT !.section = [data |-> x, length |-> w], !.ended = z] = State(x, w, start, pointer, o, z)
  BY <1>25, <1>26, Zenon
<1>15. [st EXCEPT !.section = Sections!Empty, !.ended = TRUE] = State(<<>>, -1, start, pointer, o, TRUE)
  BY <1>13, <1>14, <1>23, Zenon DEF Sections!Empty, Sections!Unknown
<1>16. next = IF known = 0 THEN [st EXCEPT !.section = Sections!Empty, !.ended = TRUE]
              ELSE IF pointer # 0 /\ start + (known - Len(d)) > pointer
              THEN [here EXCEPT !.section.length = Len(here.section.data) - 1, !.start = pointer]
              ELSE Sections!AppendSection(with, p, known - Len(d))
  BY <1>1, <1>3, <1>4, <1>28, <1>29, Zenon DEF Sections!ContinueSection, Known
<1>17. next = IF known = 0 THEN State(<<>>, -1, start, pointer, o, TRUE)
              ELSE IF pointer # 0 /\ start + (known - Len(d)) > pointer
              THEN State(cut, Len(cut) - 1, pointer, pointer, o, e)
              ELSE State(all, known, start + Amount(start, known - Len(d)), pointer, o, e)
  BY <1>6, <1>8, <1>10, <1>12, <1>15, <1>16, Zenon
<1>18. next = Continued(d, length, start, pointer, o, p, known)
  BY <1>0, <1>17, <1>30, <1>31, Zenon DEF Continued
<1> QED BY <1>0, <1>18, <1>27, <1>28, <1>29, Zenon

\* What OnTsPacket does with a section of as many bytes as its header says, or fewer.
After(d, length, start, o) ==
  LET section == [data |-> d, length |-> length]
  IN  IF ~(Len(d) >= 8 /\ Len(d) = length + 3) THEN State(d, length, start, 0, o, FALSE)
      ELSE IF Sections!IsWhole(section) THEN State(<<>>, -1, start, 0, Append(o, d[1].s), FALSE)
      ELSE IF Sections!Unchecked(section) THEN State(<<>>, -1, start, 0, Append(o, 0), FALSE)
      ELSE State(<<>>, -1, start, 0, o, TRUE)

\* Nothing is behind the end of a section.
HeldBack(d, length) ==
  /\ Len(d) \in Nat /\ length \in Int
  /\ \/ length = -1 /\ Len(d) < 8
     \/ length > 0 /\ Len(d) <= length + 3

Completed(st) == [Sections!Complete(st) EXCEPT !.pointer = 0]

LEMMA CompleteIs ==
  ASSUME NEW d, NEW length, HeldBack(d, length), NEW start, NEW pointer, NEW o
  PROVE  Completed(State(d, length, start, pointer, o, FALSE)) = After(d, length, start, o)
<1>0. PICK D \in Nat : D = Len(d) /\ length \in Int /\ ((length = -1 /\ D < 8) \/ (length > 0 /\ D <= length + 3))
  BY DEF HeldBack
<1>25. PICK st : st = State(d, length, start, pointer, o, FALSE)
  OBVIOUS
<1> DEFINE section == [data |-> d, length |-> length]
           complete == D >= 8 /\ D = length + 3
<1>1. PICK e, x, w, z : e = FALSE /\ x = <<>> /\ w = -1 /\ z = TRUE
  OBVIOUS
<1>2. /\ st.section = section /\ section.data = d /\ section.length = length
      /\ st.out = o /\ st = State(d, length, start, pointer, o, e)
  <2>1. st = State(d, length, start, pointer, o, e)
    BY <1>1, <1>25, Zenon
  <2>2. st.section = section /\ st.out = o
    BY ONLY <2>1, SMT DEF State
  <2> QED BY <2>1, <2>2
<1>3. Sections!DecodeHeader(st.section) = section
  <2>1. section.length = -1 => ~(Len(section.data) >= 8)
    BY <1>0, <1>2
  <2> HIDE DEF section
  <2> QED BY <1>2, <2>1, Zenon DEF Sections!DecodeHeader, Sections!Unknown
<1>4. (Sections!SectionComplete(section) /\ section.length > 0) <=> complete
  <2>1. Sections!SectionComplete(section) <=> (\/ (D < 8 /\ length > 0 /\ D - 3 > length)
                                               \/ (D >= 8 /\ D - 3 >= length))
    BY <1>0, <1>2, SMT DEF Sections!SectionComplete
  <2> QED BY <1>0, <1>2, <2>1
<1>5. [st EXCEPT !.section = section] = st
  BY ONLY <1>2, SMT DEF State
<1>6. PICK whole1, wrong : whole1 = Append(o, d[1].s) /\ wrong = Append(o, 0)
  OBVIOUS
<1>7. PICK u : u = State(x, w, start, pointer, o, e)
  OBVIOUS
<1>8. [st EXCEPT !.section = Sections!Empty] = u
  <2>1. Sections!Empty = [data |-> x, length |-> w]
    BY <1>1 DEF Sections!Empty, Sections!Unknown
  <2>2. [st EXCEPT !.section = [data |-> x, length |-> w]] = u
    BY ONLY <1>2, <1>7, SMT DEF State
  <2> QED BY <2>1, <2>2, Zenon
<1>9. [u EXCEPT !.out = whole1] = State(x, w, start, pointer, whole1, e)
  BY ONLY <1>7, SMT DEF State
<1>10. [u EXCEPT !.out = wrong] = State(x, w, start, pointer, wrong, e)
  BY ONLY <1>7, SMT DEF State
<1>11. [u EXCEPT !.ended = z] = State(x, w, start, pointer, o, z)
  BY ONLY <1>7, SMT DEF State
<1>13. [st EXCEPT !.section = Sections!Empty, !.out = Append(@, section.data[1].s)] = [u EXCEPT !.out = whole1]
  BY <1>2, <1>6, <1>8, Zenon
<1>14. [st EXCEPT !.section = Sections!Empty, !.out = Append(@, 0)] = [u EXCEPT !.out = wrong]
  BY <1>2, <1>6, <1>8, Zenon
<1>15. [st EXCEPT !.section = Sections!Empty, !.ended = TRUE] = [u EXCEPT !.ended = z]
  BY <1>1, <1>8, Zenon
<1> HIDE DEF section, complete
<1>17. Sections!Complete(st)
         = IF ~complete THEN st
           ELSE IF Sections!IsWhole(section) THEN State(x, w, start, pointer, whole1, e)
           ELSE IF Sections!Unchecked(section) THEN State(x, w, start, pointer, wrong, e)
           ELSE State(x, w, start, pointer, o, z)
  BY <1>3, <1>4, <1>5, <1>9, <1>10, <1>11, <1>13, <1>14, <1>15, Zenon DEF Sections!Complete
<1>18. PICK n : n = 0
  OBVIOUS
<1>22. PICK s1, s2, s3, s4 : /\ s1 = State(x, w, start, pointer, whole1, e)
                             /\ s2 = State(x, w, start, pointer, wrong, e)
                             /\ s3 = State(x, w, start, pointer, o, z)
                             /\ s4 = Sections!Complete(st)
  OBVIOUS
<1>23. /\ [st EXCEPT !.pointer = 0] = State(d, length, start, 0, o, e)
       /\ [s1 EXCEPT !.pointer = 0] = State(x, w, start, 0, whole1, e)
       /\ [s2 EXCEPT !.pointer = 0] = State(x, w, start, 0, wrong, e)
       /\ [s3 EXCEPT !.pointer = 0] = State(x, w, start, 0, o, z)
  <2>1. [st EXCEPT !.pointer = n] = State(d, length, start, n, o, e)
    BY ONLY <1>2, SMT DEF State
  <2>2. [s1 EXCEPT !.pointer = n] = State(x, w, start, n, whole1, e)
    BY ONLY <1>22, SMT DEF State
  <2>3. [s2 EXCEPT !.pointer = n] = State(x, w, start, n, wrong, e)
    BY ONLY <1>22, SMT DEF State
  <2>4. [s3 EXCEPT !.pointer = n] = State(x, w, start, n, o, z)
    BY ONLY <1>22, SMT DEF State
  <2> QED BY ONLY <1>18, <2>1, <2>2, <2>3, <2>4, Zenon
<1>24. \/ ~complete /\ s4 = st
       \/ complete /\ Sections!IsWhole(section) /\ s4 = s1
       \/ complete /\ ~Sections!IsWhole(section) /\ Sections!Unchecked(section) /\ s4 = s2
       \/ complete /\ ~Sections!IsWhole(section) /\ ~Sections!Unchecked(section) /\ s4 = s3
  BY ONLY <1>17, <1>22, Zenon
<1>19. [Sections!Complete(st) EXCEPT !.pointer = 0]
         = IF ~complete THEN State(d, length, start, 0, o, e)
           ELSE IF Sections!IsWhole(section) THEN State(x, w, start, 0, whole1, e)
           ELSE IF Sections!Unchecked(section) THEN State(x, w, start, 0, wrong, e)
           ELSE State(x, w, start, 0, o, z)
  <2>1. [s4 EXCEPT !.pointer = 0]
         = IF ~complete THEN State(d, length, start, 0, o, e)
           ELSE IF Sections!IsWhole(section) THEN State(x, w, start, 0, whole1, e)
           ELSE IF Sections!Unchecked(section) THEN State(x, w, start, 0, wrong, e)
           ELSE State(x, w, start, 0, o, z)
    BY ONLY <1>23, <1>24, Zenon
  <2> QED BY ONLY <1>22, <2>1, Zenon
<1>20. complete <=> (Len(d) >= 8 /\ Len(d) = length + 3)
  BY <1>0, Zenon DEF complete
<1>21. After(d, length, start, o)
         = IF ~complete THEN State(d, length, start, 0, o, FALSE)
           ELSE IF Sections!IsWhole(section) THEN State(<<>>, -1, start, 0, whole1, FALSE)
           ELSE IF Sections!Unchecked(section) THEN State(<<>>, -1, start, 0, wrong, FALSE)
           ELSE State(<<>>, -1, start, 0, o, TRUE)
  BY <1>6, <1>20, Zenon DEF After, section
<1> QED BY ONLY <1>1, <1>19, <1>21, <1>25, Zenon DEF Completed

LEMMA TakenIs ==
  ASSUME NEW p \in Seq(TheBytes), Len(p) = Payload, NEW a \in Nat, NEW n \in Nat, a + n <= Payload
  PROVE  /\ Sections!BytesOf(p, a, n) \in Seq(TheBytes) /\ Len(Sections!BytesOf(p, a, n)) = n
         /\ \A i \in 1 .. n : Sections!BytesOf(p, a, n)[i] = p[a + i]
<1>1. PICK N \in Nat : N = Payload /\ Len(p) = N
  BY SizesAre
<1>2. PICK b : b = SubSeq(p, a + 1, a + n)
  OBVIOUS
<1>3. b \in Seq(TheBytes) /\ Len(b) = n /\ \A i \in 1 .. n : b[i] = p[a + i]
  BY ONLY <1>1, <1>2, p \in Seq(TheBytes), a \in Nat, n \in Nat, a + n <= Payload, SMT
<1> QED BY <1>2, <1>3, Zenon DEF Sections!BytesOf

LEMMA RoundEnds ==
  ASSUME NEW d, NEW length, NEW a, NEW q, NEW o, NEW e, NEW p, NEW unit,
         e = TRUE \/ a >= Payload
  PROVE  Sections!Round(State(d, length, a, q, o, e), p, unit) = State(d, length, a, q, o, TRUE)
<1>0. PICK z : z = TRUE
  OBVIOUS
<1>1. PICK st : st = State(d, length, a, q, o, e)
  OBVIOUS
<1>2. st.ended = e /\ st.start = a /\ [st EXCEPT !.ended = z] = State(d, length, a, q, o, z)
  BY ONLY <1>1, SMT DEF State
<1>3. Sections!Round(st, p, unit) = [st EXCEPT !.ended = z]
  BY <1>0, <1>1, <1>2, Zenon DEF Sections!Round
<1> QED BY <1>0, <1>1, <1>2, <1>3, Zenon

LEMMA EndedStays ==
  ASSUME NEW d, NEW length, NEW a, NEW q, NEW o, NEW p, NEW unit
  PROVE  Sections!Round(State(d, length, a, q, o, TRUE), p, unit) = State(d, length, a, q, o, TRUE)
<1>1. PICK e : e = TRUE
  OBVIOUS
<1>2. Sections!Round(State(d, length, a, q, o, e), p, unit) = State(d, length, a, q, o, TRUE)
  BY <1>1, RoundEnds, Zenon
<1> QED BY <1>1, <1>2, Zenon

LEMMA PacketEnds ==
  ASSUME NEW d, NEW length, NEW a, NEW q, NEW o, NEW e, NEW p, NEW unit, a >= Payload
  PROVE  Sections!Round(State(d, length, a, q, o, e), p, unit) = State(d, length, a, q, o, TRUE)
BY RoundEnds, Zenon

\* No section begins here.
Skips(p, unit, a) == ~(unit /\ Sections!ByteAt(p[a + 1]) # 255)

LEMMA RoundSkips ==
  ASSUME NEW length, NEW a, NEW q, NEW o, NEW p, NEW unit, Skips(p, unit, a)
  PROVE  Sections!Round(State(<<>>, length, a, q, o, FALSE), p, unit) = State(<<>>, length, a, q, o, TRUE)
<1>1. PICK st, z, f, x : st = State(<<>>, length, a, q, o, FALSE) /\ z = TRUE /\ f = FALSE /\ x = <<>>
  OBVIOUS
<1>2. /\ st = State(x, length, a, q, o, f)
      /\ st.ended = f /\ st.start = a /\ [st EXCEPT !.ended = z] = State(x, length, a, q, o, z)
      /\ st.section.data = x
  <2>1. st = State(x, length, a, q, o, f)
    BY <1>1, Zenon
  <2> QED BY ONLY <2>1, SMT DEF State
<1>3. State(x, length, a, q, o, z).ended = z
  BY ONLY SMT DEF State
<1>4. Sections!Round(st, p, unit) = [st EXCEPT !.ended = z]
  BY <1>1, <1>2, <1>3, Zenon DEF Sections!Round, Skips
<1> QED BY <1>1, <1>2, <1>4, Zenon

Pending(d, length) ==
  /\ d \in Seq(TheBytes) /\ Len(d) > 0 /\ length \in Int
  /\ \/ /\ length = -1 /\ Len(d) < 8
        /\ Len(d) >= 5 => Sections!LengthOf(d[2], d[3]) >= Len(d) - 3
     \/ /\ length > 0 /\ Len(d) <= length + 3
        /\ Len(d) >= 8 => Len(d) < length + 3

\* Where a round may stand.
Stands(d, a, q) ==
  /\ a \in 0 .. Payload - 1 /\ q \in 0 .. Payload - 1
  /\ Len(d) < 3 => a <= 1
  /\ q # 0 => a = 1

\* A section that goes on.
LEMMA CalcIs ==
  ASSUME NEW p \in Seq(TheBytes), Len(p) = Payload, NEW d, NEW length, NEW a, NEW q,
         Pending(d, length), Stands(d, a, q),
         NEW known, known = Known(d, length, p, a)
  PROVE  known \in Nat /\ (known > 0 => Len(d) <= known + 3) /\ (length > 0 => known = length)
<1>1. PICK section : section = [data |-> d, length |-> length]
  OBVIOUS
<1>2. section.data = d /\ section.length = length
  BY <1>1
<1>3. d \in Seq(TheBytes) /\ length \in Int
  BY DEF Pending
<1>4. PICK D \in Nat : D = Len(d)
  BY <1>3
<1>5. D > 0 /\ \A i \in 1 .. D : d[i] \in TheBytes
  BY <1>3, <1>4 DEF Pending
<1>6. PICK N \in Nat : N = Payload /\ N >= 16
  BY SizesAre
<1>7. a \in 0 .. N - 1 /\ (D < 3 => a <= 1)
  BY <1>4, <1>6 DEF Stands
<1>8. \A i \in 1 .. N : p[i] \in TheBytes
  BY <1>6
<1>13. PICK n : n = Len(section.data)
  OBVIOUS
<1>14. known = IF section.length # -1 THEN section.length
               ELSE CASE n = 1 -> Sections!LengthOf(p[a + 1], p[a + 2])
                      [] n = 2 -> Sections!LengthOf(section.data[2], p[a + 1])
                      [] OTHER -> Sections!LengthOf(section.data[2], section.data[3])
  <2>1. known = Sections!CalcSectionLength(section, p, a)
    BY <1>1, Zenon DEF Known
  <2> QED BY ONLY <1>13, <2>1, SMT DEF Sections!CalcSectionLength, Sections!Unknown
<1>15. n = D
  BY <1>2, <1>4, <1>13
<1>9. CASE length # -1
  <2>1. known = length
    BY ONLY <1>2, <1>9, <1>14, SMT
  <2> QED BY <1>9, <2>1 DEF Pending
<1>10. CASE length = -1 /\ D = 1
  <2>1. known = Sections!LengthOf(p[a + 1], p[a + 2])
    BY ONLY <1>2, <1>10, <1>14, <1>15, SMT
  <2>2. a + 1 \in 1 .. N /\ a + 2 \in 1 .. N
    BY <1>6, <1>7, <1>10
  <2>3. known \in Nat
    BY <1>8, <2>1, <2>2, LengthIsNat
  <2> QED BY <1>4, <1>10, <2>3
<1>11. CASE length = -1 /\ D = 2
  <2>1. known = Sections!LengthOf(d[2], p[a + 1])
    BY ONLY <1>2, <1>11, <1>14, <1>15, SMT
  <2>2. a + 1 \in 1 .. N /\ 2 \in 1 .. D
    BY <1>6, <1>7, <1>11
  <2>3. known \in Nat
    BY <1>5, <1>8, <2>1, <2>2, LengthIsNat
  <2> QED BY <1>4, <1>11, <2>3
<1>12. CASE length = -1 /\ D # 1 /\ D # 2
  <2>1. known = Sections!LengthOf(d[2], d[3])
    BY ONLY <1>2, <1>12, <1>14, <1>15, SMT
  <2>2. 3 \in 1 .. D /\ 2 \in 1 .. D
    BY <1>5, <1>12
  <2>3. known \in Nat
    BY <1>5, <2>1, <2>2, LengthIsNat
  <2>4. D >= 5 => known >= D - 3
    BY <1>4, <1>12, <2>1 DEF Pending
  <2> QED BY <1>4, <1>12, <2>3, <2>4
<1> QED BY <1>9, <1>10, <1>11, <1>12

Continues(p, d, a, q, o, known, next) ==
  LET m == Amount(a, q - a)
      n == Amount(a, known - Len(d))
      isCut == q # 0 /\ a + (known - Len(d)) > q
  IN  /\ known = 0 => next = State(<<>>, -1, a, q, o, TRUE)
      /\ known > 0 /\ isCut =>
           /\ m \in 3 .. Payload - a
           /\ next = After(d \o Sections!BytesOf(p, a, m), Len(d) + m - 1, q, o)
      /\ known > 0 /\ ~isCut =>
           /\ n \in 0 .. Payload - a /\ Len(d) + n <= known + 3
           /\ a + n = Payload \/ Len(d) + n = known + 3
           /\ next = After(d \o Sections!BytesOf(p, a, n), known, a + n, o)

LEMMA RoundContinues ==
  ASSUME NEW p \in Seq(TheBytes), Len(p) = Payload, NEW unit, NEW d, NEW length, NEW a, NEW q, NEW o,
         Pending(d, length), Stands(d, a, q)
  PROVE  Continues(p, d, a, q, o, Known(d, length, p, a), Sections!Round(State(d, length, a, q, o, FALSE), p, unit))
<1>19. PICK known : known = Known(d, length, p, a)
  OBVIOUS
<1>20. PICK next : next = Sections!Round(State(d, length, a, q, o, FALSE), p, unit)
  OBVIOUS
<1>21. PICK m : m = Amount(a, q - a)
  OBVIOUS
<1>22. PICK n : n = Amount(a, known - Len(d))
  OBVIOUS
<1>23. PICK isCut : isCut <=> (q # 0 /\ a + (known - Len(d)) > q)
  OBVIOUS
<1>1. PICK st : st = State(d, length, a, q, o, FALSE)
  OBVIOUS
<1>2. /\ st.start = a /\ st.section = [data |-> d, length |-> length]
  <2>1. PICK f : f = FALSE
    OBVIOUS
  <2>2. st = State(d, length, a, q, o, f)
    BY <1>1, <2>1, Zenon
  <2> QED BY ONLY <2>2, SMT DEF State
<1>3. st.ended = FALSE
  <2>1. PICK f : f = FALSE
    OBVIOUS
  <2>2. st = State(d, length, a, q, o, f)
    BY <1>1, <2>1, Zenon
  <2>3. st.ended = f
    BY ONLY <2>2, SMT DEF State
  <2> QED BY <2>1, <2>3
<1>4. PICK D \in Nat : D = Len(d) /\ D > 0
  BY DEF Pending
<1>5. PICK N \in Nat : N = Payload /\ N >= 16
  BY SizesAre
<1>6. a \in 0 .. N - 1 /\ q \in 0 .. N - 1 /\ (q # 0 => a = 1) /\ ~(a >= N)
  BY <1>4, <1>5 DEF Stands
<1>7. known \in Nat /\ (known > 0 => D <= known + 3)
  BY <1>4, <1>19, CalcIs
<1>8. st.section.data # <<>>
  BY <1>2, <1>4
<1>9. PICK then : then = Sections!ContinueSection(st, p)
  OBVIOUS
<1>10. next = IF then.ended THEN then ELSE Completed(then)
  BY <1>1, <1>2, <1>3, <1>5, <1>6, <1>8, <1>9, <1>20, Zenon DEF Sections!Round, Completed
<1>11. PICK cut : cut = d \o Sections!BytesOf(p, a, m)
  OBVIOUS
<1>12. PICK all : all = d \o Sections!BytesOf(p, a, n)
  OBVIOUS
<1>13. /\ known = 0 => then = State(<<>>, -1, a, q, o, TRUE)
       /\ known # 0 /\ isCut => then = State(cut, Len(cut) - 1, q, q, o, FALSE)
       /\ known # 0 /\ ~isCut => then = State(all, known, a + n, q, o, FALSE)
  <2>1. then = Continued(d, length, a, q, o, p, known)
    BY <1>1, <1>9, <1>19, ContinueIs, Zenon
  <2> QED BY ONLY <1>11, <1>12, <1>21, <1>22, <1>23, <2>1, Zenon DEF Continued
<1>14. ASSUME NEW x, NEW l, NEW b, NEW e PROVE State(x, l, b, q, o, e).ended = e
  BY ONLY SMT DEF State
<1>15. known = 0 => next = State(<<>>, -1, a, q, o, TRUE)
  <2>1. State(<<>>, -1, a, q, o, TRUE).ended = TRUE
    BY <1>14, Zenon
  <2> QED BY <1>10, <1>13, <2>1, Zenon
<1>16. d \in Seq(TheBytes)
  BY DEF Pending
<1>17. ASSUME known > 0, isCut
       PROVE  /\ m \in 3 .. Payload - a
              /\ next = After(d \o Sections!BytesOf(p, a, m), Len(d) + m - 1, q, o)
  <2>1. q >= 1 /\ a = 1 /\ m \in 3 .. N - 1 /\ a + m <= N /\ m \in Nat
    BY <1>5, <1>6, <1>17, <1>21, <1>23 DEF Amount
  <2>2. Sections!BytesOf(p, a, m) \in Seq(TheBytes) /\ Len(Sections!BytesOf(p, a, m)) = m
    <3>1. a \in Nat /\ m \in Nat /\ a + m <= Payload
      BY <1>5, <1>6, <2>1
    <3> QED BY <3>1, TakenIs, Zenon
  <2>3. cut \in Seq(TheBytes) /\ Len(cut) = D + m
    <3>1. PICK b \in Seq(TheBytes) : b = Sections!BytesOf(p, a, m) /\ Len(b) = m
      BY <2>2
    <3> QED BY ONLY <1>4, <1>11, <1>16, <3>1, ConcatProperties
  <2>4. PICK E \in Nat : E = Len(cut) /\ E = D + m
    BY <1>4, <2>1, <2>3
  <2>5. then = State(cut, E - 1, q, q, o, FALSE)
    <3>1. known # 0 /\ isCut
      BY <1>17, <1>7
    <3> QED BY <1>13, <2>4, <3>1, Zenon
  <2>6. ~then.ended
    BY <1>14, <2>5, Zenon
  <2>7. Completed(then) = After(cut, E - 1, q, o)
    <3>1. HeldBack(cut, E - 1)
      BY ONLY <1>4, <2>1, <2>4, SMT DEF HeldBack
    <3> QED BY <2>5, <3>1, CompleteIs, Zenon
  <2>8. E - 1 = Len(d) + m - 1
    BY ONLY <1>4, <2>1, <2>4, SMT
  <2> QED BY <1>5, <1>10, <1>11, <2>1, <2>6, <2>7, <2>8
<1>18. ASSUME known > 0, ~isCut
       PROVE  /\ n \in 0 .. Payload - a /\ Len(d) + n <= known + 3
              /\ a + n = Payload \/ Len(d) + n = known + 3
              /\ next = After(d \o Sections!BytesOf(p, a, n), known, a + n, o)
  <2>1. n \in 0 .. N - a /\ a + n <= N /\ n \in Nat /\ D + n <= known + 3 /\ (a + n = N \/ D + n = known + 3)
    BY <1>4, <1>5, <1>6, <1>7, <1>18, <1>22, <1>23 DEF Amount
  <2>2. Sections!BytesOf(p, a, n) \in Seq(TheBytes) /\ Len(Sections!BytesOf(p, a, n)) = n
    <3>1. a \in Nat /\ n \in Nat /\ a + n <= Payload
      BY <1>5, <1>6, <2>1
    <3> QED BY <3>1, TakenIs, Zenon
  <2>3. all \in Seq(TheBytes) /\ Len(all) = D + n
    <3>1. PICK b \in Seq(TheBytes) : b = Sections!BytesOf(p, a, n) /\ Len(b) = n
      BY <2>2
    <3> QED BY ONLY <1>4, <1>12, <1>16, <3>1, ConcatProperties
  <2>4. PICK E \in Nat : E = Len(all) /\ E = D + n
    BY <1>4, <2>1, <2>3
  <2>5. then = State(all, known, a + n, q, o, FALSE)
    <3>1. known # 0 /\ ~isCut
      BY <1>18, <1>7
    <3> QED BY <1>13, <3>1, Zenon
  <2>6. ~then.ended
    BY <1>14, <2>5, Zenon
  <2>7. Completed(then) = After(all, known, a + n, o)
    <3>1. HeldBack(all, known)
      BY ONLY <1>7, <1>18, <2>1, <2>4, SMT DEF HeldBack
    <3> QED BY <2>5, <3>1, CompleteIs, Zenon
  <2> QED BY <1>4, <1>5, <1>10, <1>12, <2>1, <2>6, <2>7
<1>24. /\ known = 0 => next = State(<<>>, -1, a, q, o, TRUE)
       /\ known > 0 /\ isCut =>
            /\ m \in 3 .. Payload - a
            /\ next = After(d \o Sections!BytesOf(p, a, m), Len(d) + m - 1, q, o)
       /\ known > 0 /\ ~isCut =>
            /\ n \in 0 .. Payload - a /\ Len(d) + n <= known + 3
            /\ a + n = Payload \/ Len(d) + n = known + 3
            /\ next = After(d \o Sections!BytesOf(p, a, n), known, a + n, o)
  BY <1>15, <1>17, <1>18, Zenon
<1> QED BY ONLY <1>19, <1>20, <1>21, <1>22, <1>23, <1>24, Zenon DEF Continues

\* How much of the section that begins at a is taken.
Taken(p, a) == Sections!Available(a, Sections!SnapshotSectionLength(p, a))

LEMMA TakenFits ==
  ASSUME NEW p \in Seq(TheBytes), Len(p) = Payload, NEW a \in 0 .. Payload - 1
  PROVE  /\ Taken(p, a) \in 1 .. Payload - a
         /\ Taken(p, a) < 3 => a + Taken(p, a) = Payload
         /\ Taken(p, a) >= 5 => Sections!LengthOf(p[a + 2], p[a + 3]) \in Nat
                                /\ Sections!LengthOf(p[a + 2], p[a + 3]) >= Taken(p, a) - 3
         /\ a < Payload - 4 =>
              LET length == Sections!LengthOf(p[a + 2], p[a + 3])
              IN  /\ length \in Nat
                  /\ Taken(p, a) = IF a + length < Payload - 3 THEN length + 3 ELSE Payload - a
         /\ a >= Payload - 4 => Taken(p, a) = Payload - a
<1>1. PICK N \in Nat : N = Payload /\ N >= 16
  BY SizesAre
<1>2. a \in 0 .. N - 1
  BY <1>1
<1>3. CASE a >= N - 4
  <2>1. Taken(p, a) = N - a
    BY <1>1, <1>3 DEF Taken, Sections!Available, Sections!SnapshotSectionLength, Sections!Unknown
  <2> QED BY <1>1, <1>2, <1>3, <2>1
<1>4. CASE a < N - 4
  <2>1. PICK x, y : x = p[a + 2] /\ y = p[a + 3]
    OBVIOUS
  <2>2. x \in TheBytes /\ y \in TheBytes
    BY <1>1, <1>2, <1>4, <2>1
  <2>3. PICK l \in Nat : l = Sections!LengthOf(x, y)
    BY <2>2, LengthIsNat
  <2>4. Sections!SnapshotSectionLength(p, a) = l
    <3>1. ~(a >= N - 4)
      BY <1>1, <1>2, <1>4
    <3> QED BY <1>1, <2>1, <2>3, <3>1, Zenon DEF Sections!SnapshotSectionLength
  <2>5. Taken(p, a) = IF a + l < N - 3 THEN l + 3 ELSE N - a
    <3>1. Sections!Available(a, l) = IF a + l < N - 3 THEN l + 3 ELSE N - a
      BY <1>1, <1>2, <2>3 DEF Sections!Available, Sections!Unknown
    <3> QED BY <2>4, <3>1, Zenon DEF Taken
  <2>6. PICK n : n = Taken(p, a)
    OBVIOUS
  <2>7. n \in 1 .. N - a /\ (n < 3 => a + n = N) /\ l >= n - 3
    BY <1>1, <1>2, <1>4, <2>3, <2>5, <2>6
  <2> QED BY <1>1, <1>4, <2>1, <2>3, <2>5, <2>6, <2>7
<1> QED BY <1>1, <1>2, <1>3, <1>4

StartedAt(p, a, o) ==
  LET n == Taken(p, a)
  IN  After(Sections!BytesOf(p, a, n), IF n >= 8 THEN Sections!LengthOf(p[a + 2], p[a + 3]) ELSE -1, a + n, o)

LEMMA RoundStarts ==
  ASSUME NEW p \in Seq(TheBytes), Len(p) = Payload, NEW a \in 0 .. Payload - 1, NEW q, NEW o,
         Sections!ByteAt(p[a + 1]) # 255
  PROVE  Sections!Round(State(<<>>, -1, a, q, o, FALSE), p, TRUE) = StartedAt(p, a, o)
<1>21. PICK n : n = Taken(p, a)
  OBVIOUS
<1>22. PICK b : b = Sections!BytesOf(p, a, n)
  OBVIOUS
<1>1. PICK x, w, f : x = <<>> /\ w = -1 /\ f = FALSE
  OBVIOUS
<1>2. PICK st : st = State(x, w, a, q, o, f)
  OBVIOUS
<1>3. st.start = a /\ st.section.data = x /\ st.ended = f
  BY ONLY <1>2, SMT DEF State
<1>4. PICK N \in Nat : N = Payload /\ N >= 16
  BY SizesAre
<1>5. ~(a >= N) /\ a \in Nat
  BY <1>4
<1>6. PICK l : l = IF n >= 8 THEN Sections!LengthOf(p[a + 2], p[a + 3]) ELSE -1
  OBVIOUS
<1>7. n \in 1 .. N - a
  BY <1>4, <1>21, TakenFits
<1>8. b \in Seq(TheBytes) /\ Len(b) = n /\ (\A i \in 1 .. n : b[i] = p[a + i])
  <2>1. a \in Nat /\ n \in Nat /\ a + n <= Payload
    BY <1>4, <1>5, <1>7
  <2> QED BY ONLY p \in Seq(TheBytes), Len(p) = Payload, <1>22, <2>1, TakenIs, Zenon
<1>9. Sections!DecodeHeader([data |-> b, length |-> Sections!Unknown]) = [data |-> b, length |-> l]
  <2>1. PICK section : section = [data |-> b, length |-> w]
    OBVIOUS
  <2>2. section.data = b /\ section.length = w
    BY <2>1
  <2>3. CASE n >= 8
    <3>1. l = Sections!LengthOf(b[2], b[3])
      BY <1>6, <1>8, <2>3
    <3>2. [section EXCEPT !.length = l] = [data |-> b, length |-> l]
      BY ONLY <2>1, SMT
    <3>3. Len(section.data) >= 8 /\ section.length = Sections!Unknown
      BY <1>1, <1>8, <2>2, <2>3 DEF Sections!Unknown
    <3>4. Sections!DecodeHeader(section) = [section EXCEPT !.length = l]
      BY <2>2, <3>1, <3>3, Zenon DEF Sections!DecodeHeader
    <3> QED BY <1>1, <2>1, <3>2, <3>4, Zenon DEF Sections!Unknown
  <2>4. CASE ~(n >= 8)
    <3>1. l = w
      BY <1>1, <1>6, <2>4, Zenon
    <3>2. ~(Len(section.data) >= 8)
      BY <1>8, <2>2, <2>4
    <3>3. Sections!DecodeHeader(section) = section
      BY <3>2, Zenon DEF Sections!DecodeHeader
    <3> QED BY <1>1, <2>1, <3>1, <3>3, Zenon DEF Sections!Unknown
  <2> QED BY <2>3, <2>4
<1>10. PICK u : u = State(b, l, a, q, o, f)
  OBVIOUS
<1>11. [st EXCEPT !.section = [data |-> b, length |-> l]] = u
  BY ONLY <1>2, <1>10, SMT DEF State
<1>12. PICK z : z = a + n
  OBVIOUS
<1>13. [u EXCEPT !.start = z] = State(b, l, z, q, o, f)
  BY ONLY <1>10, SMT DEF State
<1>14. PICK then : then = Sections!StartNewSection(st, p)
  OBVIOUS
<1>15. then = [st EXCEPT !.section = [data |-> b, length |-> l], !.start = z]
  <2>1. n = Sections!Available(st.start, Sections!SnapshotSectionLength(p, st.start)) /\ z = st.start + n
    BY <1>3, <1>12, <1>21, Zenon DEF Taken
  <2>2. b = Sections!BytesOf(p, st.start, n)
    BY <1>3, <1>22, Zenon
  <2> QED BY ONLY <1>9, <1>14, <2>1, <2>2, Zenon DEF Sections!StartNewSection
<1>16. then = State(b, l, z, q, o, f)
  BY ONLY <1>11, <1>13, <1>15, Zenon
<1>17. then.ended = f
  BY ONLY <1>16, SMT DEF State
<1>18. Sections!Round(st, p, TRUE) = Completed(then)
  BY <1>1, <1>3, <1>4, <1>5, <1>14, <1>17, Zenon DEF Sections!Round, Completed
<1>19. HeldBack(b, l)
  <2>1. n >= 8 => l \in Nat /\ l > 0 /\ n <= l + 3
    <3>1. PICK m : m = Sections!LengthOf(p[a + 2], p[a + 3])
      OBVIOUS
    <3>2. n >= 5 => m \in Nat /\ m >= n - 3
      BY <1>21, <3>1, TakenFits
    <3>3. n >= 8 => l = m
      BY <1>6, <3>1
    <3> QED BY <1>4, <1>7, <3>2, <3>3
  <2>2. ~(n >= 8) => l = -1
    BY <1>6, Zenon
  <2> QED BY <1>4, <1>7, <1>8, <2>1, <2>2 DEF HeldBack
<1>20. Completed(then) = After(b, l, z, o)
  <2>1. then = State(b, l, z, q, o, FALSE)
    BY ONLY <1>1, <1>16, Zenon
  <2> QED BY ONLY <1>19, <2>1, CompleteIs, Zenon
<1> QED BY <1>1, <1>2, <1>6, <1>12, <1>18, <1>20, <1>21, <1>22, Zenon DEF StartedAt

\* The rounds.
LoopFrom(f, n, section, p, unit) ==
  f = [i \in 0 .. n |-> IF i = 0 THEN Sections!First(section, p, unit)
                        ELSE Sections!Round(f[i - 1], p, unit)]

LEMMA LoopExists ==
  ASSUME NEW section, NEW p, NEW unit
  PROVE  \E f : LoopFrom(f, MaxLoops + 1, section, p, unit)
<1> DEFINE N == MaxLoops + 1
           Bad == {k \in 0 .. N : ~\E f : LoopFrom(f, k, section, p, unit)}
<1>1. N \in Nat
  BY SizesAre
<1>2. ASSUME Bad # {} PROVE FALSE
  <2>1. PICK k \in Bad : \A j \in Bad : k <= j
    <3>1. Bad \subseteq Nat
      BY <1>1
    <3> HIDE DEF Bad
    <3> QED BY <1>2, <3>1, LeastOf
  <2>2. k \in 0 .. N /\ ~\E f : LoopFrom(f, k, section, p, unit)
    OBVIOUS
  <2>3. CASE k = 0
    <3> DEFINE g == [i \in 0 .. 0 |-> Sections!First(section, p, unit)]
    <3>1. g = [i \in 0 .. 0 |-> IF i = 0 THEN Sections!First(section, p, unit)
                                ELSE Sections!Round(g[i - 1], p, unit)]
      <4>1. PICK first : first = Sections!First(section, p, unit)
        OBVIOUS
      <4>2. \A i \in 0 .. 0 : i = 0
        OBVIOUS
      <4> QED BY <4>2, Zenon
    <3> HIDE DEF g
    <3>2. LoopFrom(g, k, section, p, unit)
      BY <2>3, <3>1 DEF LoopFrom
    <3> QED BY <2>2, <3>2
  <2>4. CASE k # 0
    <3>1. k - 1 \in 0 .. N /\ k - 1 \notin Bad /\ k \in Nat
      <4>1. k - 1 \in 0 .. N /\ ~(k <= k - 1) /\ k \in Nat
        BY <1>1, <2>2, <2>4
      <4> HIDE DEF Bad
      <4> QED BY <2>1, <4>1
    <3>2. PICK f : LoopFrom(f, k - 1, section, p, unit)
      BY <3>1
    <3> DEFINE Body(i, before) == IF i = 0 THEN Sections!First(section, p, unit)
                                  ELSE Sections!Round(before, p, unit)
               g == [i \in 0 .. k |-> IF i = k THEN Body(k, f[k - 1]) ELSE f[i]]
    <3>3. f = [i \in 0 .. k - 1 |-> Body(i, f[i - 1])]
      BY <3>2 DEF LoopFrom
    <3> HIDE DEF Body
    <3>4. \A i \in 0 .. k - 1 : f[i] = Body(i, f[i - 1])
      BY <3>3, Zenon
    <3>5. ASSUME NEW i \in 0 .. k PROVE g[i] = Body(i, IF i = 0 THEN f[i - 1] ELSE g[i - 1])
      <4>1. CASE i = k
        <5>1. g[i] = Body(i, f[i - 1])
          BY <4>1
        <5>2. i - 1 \in 0 .. k /\ i - 1 # k
          BY <2>4, <3>1, <4>1
        <5>3. g[i - 1] = f[i - 1]
          BY <5>2
        <5> HIDE DEF g
        <5> QED BY <2>4, <4>1, <5>1, <5>3, Zenon
      <4>2. CASE i # k
        <5>1. g[i] = f[i] /\ i \in 0 .. k - 1
          BY <3>1, <4>2
        <5>2. g[i] = Body(i, f[i - 1])
          BY <3>4, <5>1, Zenon
        <5>3. i # 0 => i - 1 \in 0 .. k /\ i - 1 # k
          BY <3>1, <5>1
        <5>4. i # 0 => g[i - 1] = f[i - 1]
          BY <5>3
        <5> HIDE DEF g
        <5> QED BY <5>2, <5>4, Zenon
      <4> QED BY <4>1, <4>2
    <3>6. ASSUME NEW i \in 0 .. k PROVE g[i] = Body(i, g[i - 1])
      <4> HIDE DEF g
      <4>1. CASE i = 0
        BY <3>5, <4>1, Zenon DEF Body
      <4>2. CASE i # 0
        BY <3>5, <4>2, Zenon
      <4> QED BY <4>1, <4>2
    <3>7. g = [i \in 0 .. k |-> Body(i, g[i - 1])]
      <4>1. g = [i \in 0 .. k |-> g[i]]
        OBVIOUS
      <4> HIDE DEF g
      <4> QED BY <3>6, <4>1, Zenon
    <3> HIDE DEF g
    <3>8. LoopFrom(g, k, section, p, unit)
      BY <3>7 DEF LoopFrom, Body
    <3> QED BY <2>2, <3>8
  <2> QED BY <2>3, <2>4
<1>3. N \in 0 .. N
  BY <1>1
<1> QED BY <1>2, <1>3

LEMMA RoundsAre ==
  ASSUME NEW section, NEW p, NEW unit
  PROVE  /\ Sections!Rounds(section, p, unit)[0] = Sections!First(section, p, unit)
         /\ \A i \in 1 .. MaxLoops + 1 :
              Sections!Rounds(section, p, unit)[i] = Sections!Round(Sections!Rounds(section, p, unit)[i - 1], p, unit)
<1>1. PICK g : LoopFrom(g, MaxLoops + 1, section, p, unit)
  BY LoopExists
<1>2. PICK f : f = Sections!Rounds(section, p, unit)
  OBVIOUS
<1>3. LoopFrom(f, MaxLoops + 1, section, p, unit)
  BY <1>1, <1>2, Zenon DEF LoopFrom, Sections!Rounds
<1>4. \A i \in 0 .. MaxLoops + 1 : f[i] = IF i = 0 THEN Sections!First(section, p, unit)
                                          ELSE Sections!Round(f[i - 1], p, unit)
  BY <1>3, Zenon DEF LoopFrom
<1>5. 0 \in 0 .. MaxLoops + 1 /\ \A i \in 1 .. MaxLoops + 1 : i \in 0 .. MaxLoops + 1 /\ i # 0
  BY SizesAre
<1> QED BY <1>2, <1>4, <1>5, Zenon

LEMMA NextRound ==
  ASSUME NEW section, NEW p, NEW unit, NEW n \in 0 .. MaxLoops
  PROVE  Sections!Rounds(section, p, unit)[n + 1] = Sections!Round(Sections!Rounds(section, p, unit)[n], p, unit)
<1>1. n + 1 \in 1 .. MaxLoops + 1 /\ (n + 1) - 1 = n
  BY SizesAre
<1>2. PICK m \in 1 .. MaxLoops + 1 : m = n + 1
  BY <1>1
<1>3. Sections!Rounds(section, p, unit)[m] = Sections!Round(Sections!Rounds(section, p, unit)[m - 1], p, unit)
  BY RoundsAre, Zenon
<1> QED BY <1>1, <1>2, <1>3, Zenon

\* A round that changes nothing is followed by such rounds only.
LEMMA RoundsSettle ==
  ASSUME NEW section, NEW p, NEW unit, NEW n \in 0 .. MaxLoops + 1,
         Sections!Round(Sections!Rounds(section, p, unit)[n], p, unit) = Sections!Rounds(section, p, unit)[n]
  PROVE  Sections!Rounds(section, p, unit)[MaxLoops + 1] = Sections!Rounds(section, p, unit)[n]
<1>0. PICK f : f = Sections!Rounds(section, p, unit)
  OBVIOUS
<1> DEFINE N == MaxLoops + 1
           Bad == {k \in n .. N : f[k] # f[n]}
<1>1. N \in Nat /\ n \in Nat /\ n <= N
  BY SizesAre
<1>2. ASSUME Bad # {} PROVE FALSE
  <2>1. PICK k \in Bad : \A j \in Bad : k <= j
    <3>1. Bad \subseteq Nat
      BY <1>1
    <3> HIDE DEF Bad
    <3> QED BY <1>2, <3>1, LeastOf
  <2>2. k \in n .. N /\ f[k] # f[n]
    OBVIOUS
  <2>3. k - 1 \in n .. N /\ ~(k <= k - 1) /\ k \in 1 .. N
    <3>1. k # n
      BY <2>2
    <3> HIDE DEF N, Bad
    <3> QED BY ONLY <1>1, <2>2, <3>1, SMT
  <2>4. k - 1 \notin Bad
    <3> HIDE DEF Bad
    <3> QED BY <2>1, <2>3
  <2>5. f[k - 1] = f[n]
    BY <2>3, <2>4
  <2>6. f[k] = Sections!Round(f[k - 1], p, unit)
    BY <1>0, <2>3, RoundsAre, Zenon
  <2>7. Sections!Round(f[n], p, unit) = f[n]
    BY <1>0, Zenon
  <2> QED BY ONLY <2>2, <2>5, <2>6, <2>7, Zenon
<1>3. N \in n .. N
  BY <1>1
<1>4. f[N] = f[n]
  BY <1>2, <1>3
<1> QED BY <1>0, <1>4, Zenon

LEMMA FirstIs ==
  ASSUME NEW d, NEW length, NEW p, NEW unit, NEW q, q = Sections!ByteAt(p[1]) + 1
  PROVE  Sections!First([data |-> d, length |-> length], p, unit)
           = State(d, length, IF ~unit THEN 0 ELSE IF d = <<>> THEN q ELSE 1, IF unit THEN q ELSE 0, <<>>, FALSE)
<1>1. PICK section : section = [data |-> d, length |-> length]
  OBVIOUS
<1>2. section.data = d
  BY <1>1
<1> QED BY <1>1, <1>2, Zenon DEF Sections!First, State

\* What the rounds end with.
GivesOut(decoded, d, length, o) ==
  decoded.section.data = d /\ decoded.section.length = length /\ decoded.out = o

LEMMA DecodedIs ==
  ASSUME NEW section, NEW p, NEW unit, NEW d, NEW length, NEW a, NEW q, NEW o, NEW e \in BOOLEAN,
         Sections!Rounds(section, p, unit)[MaxLoops + 1] = State(d, length, a, q, o, e)
  PROVE  GivesOut(Sections!Decoded(section, p, unit), IF e THEN d ELSE <<>>, IF e THEN length ELSE -1, o)
<1>8. PICK decoded : decoded = Sections!Decoded(section, p, unit)
  OBVIOUS
<1>1. PICK st : st = State(d, length, a, q, o, e)
  OBVIOUS
<1>2. st.ended = e /\ st.out = o /\ st.section.data = d /\ st.section.length = length
  BY ONLY <1>1, SMT DEF State
<1>3. PICK x, w : x = <<>> /\ w = -1
  OBVIOUS
<1>4. PICK u : u = [st EXCEPT !.section = [data |-> x, length |-> w]]
  OBVIOUS
<1>5. u = State(x, w, a, q, o, e)
  BY ONLY <1>1, <1>4, SMT DEF State
<1>6. u.out = o /\ u.section.data = x /\ u.section.length = w
  BY ONLY <1>5, SMT DEF State
<1>7. decoded = IF e THEN st ELSE u
  <2>1. Sections!Empty = [data |-> x, length |-> w]
    BY <1>3 DEF Sections!Empty, Sections!Unknown
  <2> QED BY <1>1, <1>2, <1>4, <1>8, <2>1, Zenon DEF Sections!Decoded
<1> QED BY <1>2, <1>3, <1>6, <1>7, <1>8, Zenon DEF GivesOut

LEMMA DecodedEnded ==
  ASSUME NEW section, NEW p, NEW unit, NEW d, NEW length, NEW a, NEW q, NEW o,
         Sections!Rounds(section, p, unit)[MaxLoops + 1] = State(d, length, a, q, o, TRUE)
  PROVE  GivesOut(Sections!Decoded(section, p, unit), d, length, o)
<1>1. PICK e \in BOOLEAN : e = TRUE
  OBVIOUS
<1>2. Sections!Rounds(section, p, unit)[MaxLoops + 1] = State(d, length, a, q, o, e)
  BY <1>1, Zenon
<1>3. GivesOut(Sections!Decoded(section, p, unit), IF e THEN d ELSE <<>>, IF e THEN length ELSE -1, o)
  BY ONLY <1>2, DecodedIs, Zenon
<1> QED BY ONLY <1>1, <1>3, Zenon

LEMMA DecodedEndless ==
  ASSUME NEW section, NEW p, NEW unit, NEW d, NEW length, NEW a, NEW q, NEW o,
         Sections!Rounds(section, p, unit)[MaxLoops + 1] = State(d, length, a, q, o, FALSE)
  PROVE  GivesOut(Sections!Decoded(section, p, unit), <<>>, -1, o)
<1>1. PICK e \in BOOLEAN : e = FALSE
  OBVIOUS
<1>2. Sections!Rounds(section, p, unit)[MaxLoops + 1] = State(d, length, a, q, o, e)
  BY <1>1, Zenon
<1>3. GivesOut(Sections!Decoded(section, p, unit), IF e THEN d ELSE <<>>, IF e THEN length ELSE -1, o)
  BY ONLY <1>2, DecodedIs, Zenon
<1> QED BY ONLY <1>1, <1>3, Zenon

\* What comes out of any packets: sections in the order of their last bytes.
Ends(b) == b.s > 0 /\ b.k = b.t - 1

Outs(p, o, a) ==
  /\ o \in Seq(Nat)
  /\ \A i \in DOMAIN o : o[i] > 0 => \E j \in 1 .. a : Ends(p[j]) /\ p[j].s = o[i]
  /\ \A i, j \in DOMAIN o : i < j /\ o[i] > 0 /\ o[j] > 0 => o[i] < o[j]

EndsInOrder(p) ==
  \A i, j \in 1 .. Payload : i < j /\ Ends(p[i]) /\ Ends(p[j]) => p[i].s < p[j].s

\* The state of the loop between two rounds.
Orderly(p, d, length, a, q, o, e) ==
  /\ a \in 0 .. Payload /\ e \in BOOLEAN /\ Outs(p, o, a)
  /\ \/ d = <<>> /\ length = -1
     \/ Pending(d, length) /\ (a < Payload => Stands(d, a, q))

IsGood(p, st) ==
  \E d, length, a, q, o, e : st = State(d, length, a, q, o, e) /\ Orderly(p, d, length, a, q, o, e)

LEMMA OutsStay ==
  ASSUME NEW p, NEW o, NEW a \in Int, NEW b \in Int, a <= b, Outs(p, o, a)
  PROVE  Outs(p, o, b)
<1>1. \A j \in 1 .. a : j \in 1 .. b
  OBVIOUS
<1> QED BY <1>1, Zenon DEF Outs

LEMMA OutsGrow ==
  ASSUME NEW p, NEW o, NEW a \in Nat, NEW b \in Nat, a < b, b <= Payload, Outs(p, o, a), EndsInOrder(p),
         NEW x \in Nat, x > 0 => Ends(p[b]) /\ p[b].s = x
  PROVE  Outs(p, Append(o, x), b)
<1>1. PICK n \in Nat : n = Len(o)
  BY DEF Outs
<1>2. PICK r : r = Append(o, x)
  OBVIOUS
<1>3. o \in Seq(Nat)
  BY DEF Outs
<1>4. /\ r \in Seq(Nat) /\ Len(r) = n + 1 /\ r[n + 1] = x /\ DOMAIN r = 1 .. n + 1 /\ DOMAIN o = 1 .. n
      /\ \A i \in 1 .. n : r[i] = o[i]
  BY ONLY <1>1, <1>2, <1>3, x \in Nat, SMT
<1>5. ASSUME NEW i \in 1 .. n, o[i] > 0, x > 0 PROVE o[i] < x
  <2>1. PICK j \in 1 .. a : Ends(p[j]) /\ p[j].s = o[i]
    BY <1>4, <1>5, Zenon DEF Outs
  <2>2. j \in 1 .. Payload /\ b \in 1 .. Payload /\ j < b
    BY SizesAre
  <2>3. p[j].s < p[b].s
    BY <1>5, <2>1, <2>2 DEF EndsInOrder
  <2> QED BY <1>5, <2>1, <2>3
<1>6. ASSUME NEW i \in DOMAIN r, r[i] > 0 PROVE \E j \in 1 .. b : Ends(p[j]) /\ p[j].s = r[i]
  <2>1. CASE i = n + 1
    <3>1. b \in 1 .. b
      OBVIOUS
    <3> QED BY <1>4, <1>6, <2>1, <3>1
  <2>2. CASE i # n + 1
    <3>1. i \in 1 .. n
      BY <1>4, <2>2
    <3>2. PICK j \in 1 .. a : Ends(p[j]) /\ p[j].s = o[i]
      BY <1>4, <1>6, <3>1, Zenon DEF Outs
    <3>3. j \in 1 .. b
      OBVIOUS
    <3> QED BY <1>4, <3>1, <3>2, <3>3, Zenon
  <2> QED BY <2>1, <2>2
<1>7. ASSUME NEW i \in DOMAIN r, NEW j \in DOMAIN r, i < j, r[i] > 0, r[j] > 0 PROVE r[i] < r[j]
  <2>1. i \in 1 .. n /\ j \in 1 .. n + 1 /\ r[i] = o[i]
    BY <1>4, <1>7
  <2>2. CASE j = n + 1
    BY <1>4, <1>5, <1>7, <2>1, <2>2
  <2>3. CASE j # n + 1
    <3>1. j \in 1 .. n /\ r[j] = o[j]
      BY <1>4, <2>1, <2>3
    <3> QED BY <1>4, <1>7, <2>1, <3>1, Zenon DEF Outs
  <2> QED BY <2>2, <2>3
<1> QED BY <1>2, <1>4, <1>6, <1>7, Zenon DEF Outs

\* What the CRC says.
LEMMA SectionIsWhole ==
  ASSUME NEW d \in Seq(TheBytes), NEW D \in Nat, D = Len(d), D > 0, NEW length \in Int, D = length + 3,
         Sections!IsWhole([data |-> d, length |-> length])
  PROVE  /\ d[1].s > 0 /\ d[1].t = D
         /\ \A i \in 1 .. D : d[i].s = d[1].s /\ d[i].t = d[1].t /\ d[i].k = i - 1
<1>1. PICK section : section = [data |-> d, length |-> length]
  OBVIOUS
<1>2. section.data = d /\ section.length = length
  BY <1>1
<1>3. d[1].s > 0 /\ d[1].t = D /\ SubSeq(d, 1, d[1].t) = Sections!SectionBytes(d[1].s, d[1].t, 0, d[1].t)
  <2>1. Sections!IsWhole(section)
    BY <1>1, Zenon
  <2>2. PICK first : first = d[1]
    OBVIOUS
  <2>3. first.s > 0 /\ length + 3 = first.t /\ SubSeq(d, 1, first.t) = Sections!SectionBytes(first.s, first.t, 0, first.t)
    BY <1>2, <2>1, <2>2, Zenon DEF Sections!IsWhole
  <2> QED BY <2>2, <2>3
<1>4. SubSeq(d, 1, D) = d
  BY ONLY d \in Seq(TheBytes), D = Len(d), D \in Nat, SMT
<1>5. PICK s, t : s = d[1].s /\ t = d[1].t
  OBVIOUS
<1>6. d = [i \in 1 .. D |-> [s |-> s, k |-> 0 + i - 1, t |-> t]]
  BY <1>3, <1>4, <1>5, Zenon DEF Sections!SectionBytes
<1>7. ASSUME NEW i \in 1 .. D PROVE d[i].s = s /\ d[i].t = t /\ d[i].k = i - 1
  <2>1. d[i] = [s |-> s, k |-> 0 + i - 1, t |-> t]
    BY <1>6, Zenon
  <2> QED BY <2>1
<1> QED BY <1>3, <1>5, <1>7, Zenon

LEMMA AfterIsGood ==
  ASSUME NEW p, EndsInOrder(p), NEW d \in Seq(TheBytes), NEW D \in Nat, D = Len(d), D > 0, NEW length \in Int,
         \/ length = -1 /\ D < 8 /\ (D >= 5 => Sections!LengthOf(d[2], d[3]) >= D - 3)
         \/ length > 0 /\ D <= length + 3,
         NEW before \in Nat, NEW a \in Nat, before <= a, a <= Payload, D < 3 => a = Payload,
         NEW o, Outs(p, o, before),
         D >= 8 /\ D = length + 3 => before < a /\ d[D] = p[a]
  PROVE  IsGood(p, After(d, length, a, o))
<1>1. PICK N \in Nat : N = Payload /\ N >= 16
  BY SizesAre
<1>2. Outs(p, o, a)
  BY OutsStay
<1>3. a \in 0 .. Payload /\ TRUE \in BOOLEAN /\ FALSE \in BOOLEAN
  BY <1>1
<1>4. CASE ~(D >= 8 /\ D = length + 3)
  <2>1. Pending(d, length)
    BY <1>4 DEF Pending
  <2>2. a < Payload => Stands(d, a, 0)
    BY <1>1 DEF Stands
  <2>3. Orderly(p, d, length, a, 0, o, FALSE)
    BY <1>2, <1>3, <2>1, <2>2, Zenon DEF Orderly
  <2>4. After(d, length, a, o) = State(d, length, a, 0, o, FALSE)
    BY <1>4, Zenon DEF After
  <2> QED BY <2>3, <2>4, Zenon DEF IsGood
<1>5. CASE D >= 8 /\ D = length + 3
  <2>1. PICK section : section = [data |-> d, length |-> length]
    OBVIOUS
  <2>2. CASE Sections!IsWhole(section)
    <3>1. PICK s : s = d[1].s
      OBVIOUS
    <3>2. d[1].s > 0 /\ d[1].t = D /\ d[D].s = d[1].s /\ d[D].t = d[1].t /\ d[D].k = D - 1
      <4>1. D \in 1 .. D
        OBVIOUS
      <4>2. /\ d[1].s > 0 /\ d[1].t = D
            /\ \A i \in 1 .. D : d[i].s = d[1].s /\ d[i].t = d[1].t /\ d[i].k = i - 1
        BY <1>5, <2>1, <2>2, SectionIsWhole
      <4> QED BY <4>1, <4>2, Zenon
    <3>3. s \in Nat /\ Ends(p[a]) /\ p[a].s = s
      <4>1. d[1] \in TheBytes
        OBVIOUS
      <4>2. d[1].s \in Int
        BY <4>1 DEF TheBytes
      <4> QED BY <1>5, <3>1, <3>2, <4>2 DEF Ends
    <3>4. Outs(p, Append(o, s), a)
      BY <1>5, <3>3, OutsGrow
    <3>5. Orderly(p, <<>>, -1, a, 0, Append(o, s), FALSE)
      BY <1>3, <3>4, Zenon DEF Orderly
    <3>6. After(d, length, a, o) = State(<<>>, -1, a, 0, Append(o, s), FALSE)
      BY <1>5, <2>1, <2>2, <3>1, Zenon DEF After
    <3> QED BY <3>5, <3>6, Zenon DEF IsGood
  <2>3. CASE ~Sections!IsWhole(section) /\ Sections!Unchecked(section)
    <3>4. Outs(p, Append(o, 0), a)
      BY <1>5, OutsGrow
    <3>5. Orderly(p, <<>>, -1, a, 0, Append(o, 0), FALSE)
      BY <1>3, <3>4, Zenon DEF Orderly
    <3>6. After(d, length, a, o) = State(<<>>, -1, a, 0, Append(o, 0), FALSE)
      BY <1>5, <2>1, <2>3, Zenon DEF After
    <3> QED BY <3>5, <3>6, Zenon DEF IsGood
  <2>4. CASE ~Sections!IsWhole(section) /\ ~Sections!Unchecked(section)
    <3>5. Orderly(p, <<>>, -1, a, 0, o, TRUE)
      BY <1>2, <1>3, Zenon DEF Orderly
    <3>6. After(d, length, a, o) = State(<<>>, -1, a, 0, o, TRUE)
      BY <1>5, <2>1, <2>4, Zenon DEF After
    <3> QED BY <3>5, <3>6, Zenon DEF IsGood
  <2> QED BY <2>2, <2>3, <2>4
<1> QED BY <1>4, <1>5

\* The bytes of x and the n next ones.
JoinedWith(p, x, a, n) == x \o Sections!BytesOf(p, a, n)

LEMMA JoinedWithIs ==
  ASSUME NEW p \in Seq(TheBytes), Len(p) = Payload, NEW x \in Seq(TheBytes),
         NEW a \in Nat, NEW n \in Nat, a + n <= Payload
  PROVE  /\ JoinedWith(p, x, a, n) \in Seq(TheBytes) /\ Len(JoinedWith(p, x, a, n)) = Len(x) + n
         /\ \A i \in 1 .. Len(x) : JoinedWith(p, x, a, n)[i] = x[i]
         /\ \A i \in 1 .. n : JoinedWith(p, x, a, n)[Len(x) + i] = p[a + i]
<1>1. PICK b \in Seq(TheBytes) : b = Sections!BytesOf(p, a, n) /\ Len(b) = n /\ \A i \in 1 .. n : b[i] = p[a + i]
  BY TakenIs, Zenon
<1>5. PICK X \in Nat : X = Len(x)
  OBVIOUS
<1>6. PICK d : d = JoinedWith(p, x, a, n)
  OBVIOUS
<1>2. /\ d \in Seq(TheBytes) /\ Len(d) = X + n
      /\ \A i \in 1 .. X + n : d[i] = IF i <= X THEN x[i] ELSE b[i - X]
  <2>1. /\ x \o b \in Seq(TheBytes) /\ Len(x \o b) = Len(x) + Len(b)
        /\ \A i \in 1 .. Len(x) + Len(b) : (x \o b)[i] = IF i <= Len(x) THEN x[i] ELSE b[i - Len(x)]
    BY ConcatProperties, Zenon
  <2>2. d = x \o b
    BY <1>1, <1>6, Zenon DEF JoinedWith
  <2> QED BY <1>1, <1>5, <2>1, <2>2, Zenon
<1>3. \A i \in 1 .. X : d[i] = x[i]
  BY ONLY <1>2, X \in Nat, n \in Nat
<1>4. ASSUME NEW i \in 1 .. n PROVE d[X + i] = p[a + i]
  <2>1. X + i \in 1 .. X + n /\ ~(X + i <= X) /\ (X + i) - X = i
    OBVIOUS
  <2>2. d[X + i] = b[i]
    BY <1>2, <2>1, Zenon
  <2> QED BY <1>1, <2>2, Zenon
<1> QED BY <1>2, <1>3, <1>4, <1>5, <1>6, Zenon

LEMMA RoundIsGood ==
  ASSUME NEW p \in Seq(TheBytes), Len(p) = Payload, EndsInOrder(p), NEW unit \in BOOLEAN, NEW st, IsGood(p, st)
  PROVE  IsGood(p, Sections!Round(st, p, unit))
<1>1. PICK d, length, a, q, o, e : st = State(d, length, a, q, o, e) /\ Orderly(p, d, length, a, q, o, e)
  BY DEF IsGood
<1>2. PICK N \in Nat : N = Payload /\ N >= 16
  BY SizesAre
<1>3. a \in 0 .. N /\ a \in Nat /\ e \in BOOLEAN /\ Outs(p, o, a)
  BY <1>1, <1>2 DEF Orderly
<1>4. CASE e = TRUE \/ a >= Payload
  <2>1. Sections!Round(st, p, unit) = State(d, length, a, q, o, TRUE)
    BY <1>1, <1>4, RoundEnds, Zenon
  <2>2. Orderly(p, d, length, a, q, o, TRUE)
    BY <1>1, Zenon DEF Orderly
  <2> QED BY <2>1, <2>2, Zenon DEF IsGood
<1>5. CASE e = FALSE /\ a < Payload
  <2>1. st = State(d, length, a, q, o, FALSE)
    BY <1>1, <1>5, Zenon
  <2>2. CASE d = <<>> /\ length = -1 /\ ~(unit /\ Sections!ByteAt(p[a + 1]) # 255)
    <3>1. Sections!Round(st, p, unit) = State(<<>>, -1, a, q, o, TRUE)
      <4>1. st = State(<<>>, -1, a, q, o, FALSE)
        BY <2>1, <2>2, Zenon
      <4>2. Skips(p, unit, a)
        BY <2>2 DEF Skips
      <4> QED BY ONLY <4>1, <4>2, RoundSkips, Zenon
    <3>2. Orderly(p, <<>>, -1, a, q, o, TRUE)
      BY <1>1, <2>2, Zenon DEF Orderly
    <3> QED BY <3>1, <3>2, Zenon DEF IsGood
  <2>3. CASE d = <<>> /\ length = -1 /\ unit /\ Sections!ByteAt(p[a + 1]) # 255
    <3>1. PICK n : n = Taken(p, a)
      OBVIOUS
    <3>2. PICK b : b = Sections!BytesOf(p, a, n)
      OBVIOUS
    <3>3. PICK m : m = Sections!LengthOf(p[a + 2], p[a + 3])
      OBVIOUS
    <3>4. PICK l : l = IF n >= 8 THEN m ELSE -1
      OBVIOUS
    <3>5. a \in 0 .. Payload - 1
      BY <1>2, <1>3, <1>5
    <3>6. Sections!Round(st, p, unit) = After(b, l, a + n, o)
      <4>1. Sections!Round(st, p, unit) = StartedAt(p, a, o)
        <5>1. unit = TRUE /\ st = State(<<>>, -1, a, q, o, FALSE)
          BY <2>1, <2>3, Zenon
        <5> QED BY <2>3, <3>5, <5>1, RoundStarts, Zenon
      <4> QED BY <3>1, <3>2, <3>3, <3>4, <4>1, Zenon DEF StartedAt
    <3>7. n \in 1 .. N - a /\ (n < 3 => a + n = N) /\ (n >= 5 => m \in Nat /\ m >= n - 3)
      BY <1>2, <3>1, <3>3, <3>5, TakenFits
    <3>8. b \in Seq(TheBytes) /\ Len(b) = n /\ \A i \in 1 .. n : b[i] = p[a + i]
      <4>1. n \in Nat /\ a + n <= Payload
        BY <1>2, <1>3, <3>7
      <4> QED BY <1>3, <3>2, <4>1, TakenIs, Zenon
    <3>9. l \in Int /\ (\/ (l = -1 /\ n < 8 /\ (n >= 5 => Sections!LengthOf(b[2], b[3]) >= n - 3))
                        \/ (l > 0 /\ n <= l + 3))
      <4>1. n >= 5 => b[2] = p[a + 2] /\ b[3] = p[a + 3]
        BY ONLY <1>2, <1>3, <3>7, <3>8
      <4>2. n >= 5 => Sections!LengthOf(b[2], b[3]) = m
        BY <3>3, <4>1
      <4> QED BY ONLY <1>2, <1>3, <3>4, <3>7, <4>2
    <3>10. b[n] = p[a + n] /\ n \in Nat /\ a + n \in Nat /\ a <= a + n /\ a < a + n /\ a + n <= N /\ n > 0
      BY ONLY <1>2, <1>3, <3>7, <3>8
    <3>11. IsGood(p, After(b, l, a + n, o))
      BY <1>2, <1>3, <3>7, <3>8, <3>9, <3>10, AfterIsGood
    <3> QED BY <3>6, <3>11
  <2>4. CASE Pending(d, length) /\ Stands(d, a, q)
    <3>1. PICK known : known = Known(d, length, p, a)
      OBVIOUS
    <3>2. PICK D \in Nat : D = Len(d) /\ D > 0
      BY <2>4 DEF Pending
    <3>3. PICK m : m = Amount(a, q - a)
      OBVIOUS
    <3>4. PICK n : n = Amount(a, known - D)
      OBVIOUS
    <3>5. PICK next : next = Sections!Round(State(d, length, a, q, o, FALSE), p, unit)
      OBVIOUS
    <3>6. PICK isCut : isCut <=> (q # 0 /\ a + (known - Len(d)) > q)
      OBVIOUS
    <3>7. d \in Seq(TheBytes)
      BY <2>4 DEF Pending
    <3>8. known \in Nat /\ (length > 0 => known = length)
      BY <2>4, <3>1, CalcIs
    <3>13. n = Amount(a, known - Len(d))
      BY <3>2, <3>4, Zenon
    <3>9. /\ known = 0 => next = State(<<>>, -1, a, q, o, TRUE)
          /\ known > 0 /\ isCut =>
               /\ m \in 3 .. Payload - a
               /\ next = After(d \o Sections!BytesOf(p, a, m), Len(d) + m - 1, q, o)
          /\ known > 0 /\ ~isCut =>
               /\ n \in 0 .. Payload - a /\ Len(d) + n <= known + 3
               /\ a + n = Payload \/ Len(d) + n = known + 3
               /\ next = After(d \o Sections!BytesOf(p, a, n), known, a + n, o)
      <4>1. Continues(p, d, a, q, o, known, next)
        BY <2>4, <3>1, <3>5, RoundContinues, Zenon
      <4> QED BY ONLY <3>3, <3>6, <3>13, <4>1, Zenon DEF Continues
    <3>10. CASE known = 0
      <4>1. Orderly(p, <<>>, -1, a, q, o, TRUE)
        BY <1>1, Zenon DEF Orderly
      <4> QED BY <2>1, <3>5, <3>9, <3>10, <4>1, Zenon DEF IsGood
    <3>11. CASE known > 0 /\ isCut
      <4>1. m \in 3 .. N - a /\ m \in Nat /\ a + m <= N
        BY <1>2, <1>3, <3>9, <3>11
      <4>2. PICK x : x = d \o Sections!BytesOf(p, a, m)
        OBVIOUS
      <4>3. x \in Seq(TheBytes) /\ Len(x) = D + m
        <5>1. x = JoinedWith(p, d, a, m)
          BY <4>2 DEF JoinedWith
        <5>2. a + m <= Payload
          BY <1>2, <4>1
        <5>3. /\ JoinedWith(p, d, a, m) \in Seq(TheBytes) /\ Len(JoinedWith(p, d, a, m)) = Len(d) + m
              /\ \A i \in 1 .. m : JoinedWith(p, d, a, m)[Len(d) + i] = p[a + i]
          <6>1. a \in Nat /\ m \in Nat
            BY <1>3, <4>1
          <6> QED BY ONLY p \in Seq(TheBytes), Len(p) = Payload, <3>7, <5>2, <6>1, JoinedWithIs, Zenon
        <5> QED BY ONLY <3>2, <5>1, <5>3, Zenon
      <4>4. q \in Nat /\ a <= q /\ q <= N
        <5>1. q # 0 /\ a = 1 /\ q \in 0 .. N - 1
          BY <1>2, <2>4, <3>6, <3>11 DEF Stands
        <5> QED BY <1>2, <5>1
      <4>5. PICK l \in Int : l = D + m - 1 /\ l > 0 /\ D + m = l + 1
        <5>1. D + m - 1 \in Int /\ D + m - 1 > 0 /\ D + m = (D + m - 1) + 1
          BY ONLY <3>2, <4>1, SMT
        <5> QED BY <5>1
      <4>6. D + m \in Nat /\ D + m > 0 /\ D + m <= l + 3 /\ ~(D + m = l + 3) /\ ~(D + m < 3)
        BY ONLY <3>2, <4>1, <4>5
      <4>7. IsGood(p, After(x, l, q, o))
        BY <1>2, <1>3, <4>3, <4>4, <4>5, <4>6, AfterIsGood
      <4>8. next = After(x, l, q, o)
        BY <3>2, <3>9, <3>11, <4>2, <4>5
      <4> QED BY <2>1, <3>5, <4>7, <4>8, Zenon
    <3>12. CASE known > 0 /\ ~isCut
      <4>1. n \in 0 .. N - a /\ n \in Nat /\ a + n <= N /\ D + n <= known + 3 /\ (a + n = N \/ D + n = known + 3)
        BY <1>2, <1>3, <3>2, <3>9, <3>12
      <4>2. PICK x : x = d \o Sections!BytesOf(p, a, n)
        OBVIOUS
      <4>3. x \in Seq(TheBytes) /\ Len(x) = D + n /\ \A i \in 1 .. n : x[D + i] = p[a + i]
        <5>1. x = JoinedWith(p, d, a, n)
          BY <4>2 DEF JoinedWith
        <5>2. a + n <= Payload
          BY <1>2, <4>1
        <5>3. /\ JoinedWith(p, d, a, n) \in Seq(TheBytes) /\ Len(JoinedWith(p, d, a, n)) = Len(d) + n
              /\ \A i \in 1 .. n : JoinedWith(p, d, a, n)[Len(d) + i] = p[a + i]
          <6>1. a \in Nat /\ n \in Nat
            BY <1>3, <4>1
          <6> QED BY ONLY p \in Seq(TheBytes), Len(p) = Payload, <3>7, <5>2, <6>1, JoinedWithIs, Zenon
        <5> QED BY ONLY <3>2, <5>1, <5>3, Zenon
      <4>4. D + n >= 8 /\ D + n = known + 3 => n > 0
        BY <2>4, <3>2, <3>8, <4>1 DEF Pending
      <4>5. n > 0 => x[D + n] = p[a + n]
        BY ONLY <4>1, <4>3
      <4>6. /\ D + n \in Nat /\ D + n > 0 /\ known \in Int /\ a + n \in Nat /\ a <= a + n
            /\ D + n < 3 => a + n = N
            /\ D + n >= 8 /\ D + n = known + 3 => a < a + n
        BY ONLY <1>3, <3>2, <3>8, <3>12, <4>1, <4>4
      <4>7. IsGood(p, After(x, known, a + n, o))
        BY <1>2, <1>3, <3>12, <4>1, <4>3, <4>4, <4>5, <4>6, AfterIsGood
      <4>8. next = After(x, known, a + n, o)
        BY <3>9, <3>12, <4>2
      <4> QED BY <2>1, <3>5, <4>7, <4>8, Zenon
    <3> QED BY <3>8, <3>10, <3>11, <3>12
  <2> QED BY <1>1, <1>5, <2>2, <2>3, <2>4, Zenon DEF Orderly
<1>6. (e = TRUE \/ a >= Payload) \/ (e = FALSE /\ a < Payload)
  BY <1>2, <1>3
<1> QED BY <1>4, <1>5, <1>6, Zenon

\* Whatever the packets are.
LEMMA GoodComesOut ==
  ASSUME NEW p \in Seq(TheBytes), Len(p) = Payload, EndsInOrder(p), NEW unit \in BOOLEAN,
         unit => Sections!ByteAt(p[1]) + 1 \in 1 .. Payload - 1,
         NEW d, NEW length, (d = <<>> /\ length = -1) \/ Pending(d, length),
         NEW decoded, decoded = Sections!Decoded([data |-> d, length |-> length], p, unit)
  PROVE  /\ Outs(p, decoded.out, Payload)
         /\ \/ decoded.section.data = <<>> /\ decoded.section.length = -1
            \/ Pending(decoded.section.data, decoded.section.length)
<1> DEFINE section == [data |-> d, length |-> length]
           N == MaxLoops + 1
           f == Sections!Rounds(section, p, unit)
           Bad == {k \in 0 .. N : ~IsGood(p, f[k])}
<1>1. N \in Nat /\ Payload \in Nat /\ Payload >= 16
  BY SizesAre
<1>2. IsGood(p, f[0])
  <2>1. PICK q : q = Sections!ByteAt(p[1]) + 1
    OBVIOUS
  <2>2. PICK a : a = IF ~unit THEN 0 ELSE IF d = <<>> THEN q ELSE 1
    OBVIOUS
  <2>3. PICK b : b = IF unit THEN q ELSE 0
    OBVIOUS
  <2>4. f[0] = State(d, length, a, b, <<>>, FALSE)
    <3>1. f[0] = Sections!First(section, p, unit)
      BY RoundsAre, Zenon
    <3>2. Sections!First(section, p, unit)
            = State(d, length, IF ~unit THEN 0 ELSE IF d = <<>> THEN q ELSE 1, IF unit THEN q ELSE 0, <<>>, FALSE)
      BY <2>1, FirstIs, Zenon
    <3> QED BY ONLY <2>2, <2>3, <3>1, <3>2, Zenon
  <2>5. a \in 0 .. Payload - 1 /\ b \in 0 .. Payload - 1 /\ a \in 0 .. Payload
    BY <1>1, <2>1, <2>2, <2>3
  <2>6. Pending(d, length) => Stands(d, a, b)
    <3>1. Pending(d, length) => d # <<>>
      BY DEF Pending
    <3>2. d # <<>> => a <= 1 /\ (b # 0 => a = 1)
      BY <2>2, <2>3
    <3> QED BY <2>5, <3>1, <3>2, Zenon DEF Stands
  <2>7. Outs(p, <<>>, a)
    BY DEF Outs
  <2>8. Orderly(p, d, length, a, b, <<>>, FALSE)
    BY <2>5, <2>6, <2>7, Zenon DEF Orderly
  <2> QED BY <2>4, <2>8, Zenon DEF IsGood
<1>3. ASSUME Bad # {} PROVE FALSE
  <2>1. PICK k \in Bad : \A j \in Bad : k <= j
    <3>1. Bad \subseteq Nat
      BY <1>1
    <3> HIDE DEF Bad
    <3> QED BY <1>3, <3>1, LeastOf
  <2>2. k \in 0 .. N /\ ~IsGood(p, f[k])
    OBVIOUS
  <2> HIDE DEF f
  <2>3. k # 0
    BY <1>2, <2>2
  <2>4. k - 1 \in 0 .. N /\ ~(k <= k - 1) /\ k \in 1 .. N
    <3> HIDE DEF N, Bad
    <3> QED BY ONLY <1>1, <2>2, <2>3, SMT
  <2>5. IsGood(p, f[k - 1])
    <3>1. k - 1 \notin Bad
      <4> HIDE DEF Bad
      <4> QED BY <2>1, <2>4
    <3> QED BY <2>4, <3>1
  <2>6. f[k] = Sections!Round(f[k - 1], p, unit)
    BY <2>4, RoundsAre, Zenon DEF f
  <2> QED BY <2>2, <2>5, <2>6, RoundIsGood, Zenon
<1>4. IsGood(p, f[N])
  BY <1>1, <1>3
<1>5. PICK dd, ll, a, q, o, e : f[N] = State(dd, ll, a, q, o, e) /\ Orderly(p, dd, ll, a, q, o, e)
  BY <1>4 DEF IsGood
<1>6. GivesOut(decoded, IF e THEN dd ELSE <<>>, IF e THEN ll ELSE -1, o)
  <2>1. e \in BOOLEAN /\ Sections!Rounds(section, p, unit)[MaxLoops + 1] = State(dd, ll, a, q, o, e)
    BY <1>5, Zenon DEF Orderly
  <2> HIDE DEF section
  <2>2. GivesOut(Sections!Decoded(section, p, unit), IF e THEN dd ELSE <<>>, IF e THEN ll ELSE -1, o)
    BY ONLY <2>1, DecodedIs, Zenon
  <2> QED BY <2>2, Zenon DEF section
<1>7. a <= Payload /\ a \in Int /\ Outs(p, o, a)
  BY <1>1, <1>5 DEF Orderly
<1>8. Outs(p, o, Payload)
  BY <1>1, <1>7, OutsStay
<1> QED BY <1>5, <1>6, <1>8, Zenon DEF Orderly, GivesOut

LEMMA EndsEnded ==
  ASSUME NEW section, NEW p, NEW unit, NEW n \in 0 .. MaxLoops + 1,
         NEW d, NEW length, NEW a, NEW q, NEW o,
         Sections!Rounds(section, p, unit)[n] = State(d, length, a, q, o, TRUE)
  PROVE  GivesOut(Sections!Decoded(section, p, unit), d, length, o)
<1>1. Sections!Round(Sections!Rounds(section, p, unit)[n], p, unit) = Sections!Rounds(section, p, unit)[n]
  BY EndedStays, Zenon
<1>2. Sections!Rounds(section, p, unit)[MaxLoops + 1] = Sections!Rounds(section, p, unit)[n]
  BY <1>1, RoundsSettle, Zenon
<1>3. Sections!Rounds(section, p, unit)[MaxLoops + 1] = State(d, length, a, q, o, TRUE)
  BY <1>2, Zenon
<1> QED BY <1>3, DecodedEnded, Zenon

LEMMA EndsWithPacket ==
  ASSUME NEW section, NEW p, NEW unit, NEW n \in 0 .. MaxLoops,
         NEW d, NEW length, NEW a, NEW q, NEW o, NEW e, a >= Payload,
         Sections!Rounds(section, p, unit)[n] = State(d, length, a, q, o, e)
  PROVE  GivesOut(Sections!Decoded(section, p, unit), d, length, o)
<1>1. n + 1 \in 0 .. MaxLoops + 1
  BY SizesAre
<1>2. Sections!Rounds(section, p, unit)[n + 1] = Sections!Round(Sections!Rounds(section, p, unit)[n], p, unit)
  BY NextRound, Zenon
<1>3. Sections!Rounds(section, p, unit)[n + 1] = State(d, length, a, q, o, TRUE)
  BY <1>2, PacketEnds, Zenon
<1> QED BY <1>1, <1>3, EndsEnded, Zenon

LEMMA EndsStuck ==
  ASSUME NEW section, NEW p, NEW unit, NEW n \in 0 .. MaxLoops,
         NEW d, NEW length, NEW a, NEW q, NEW o,
         Sections!Rounds(section, p, unit)[n] = State(d, length, a, q, o, FALSE),
         Sections!Round(State(d, length, a, q, o, FALSE), p, unit) = State(d, length, a, q, o, FALSE)
  PROVE  GivesOut(Sections!Decoded(section, p, unit), <<>>, -1, o)
<1>1. n \in 0 .. MaxLoops + 1
  BY SizesAre
<1>2. Sections!Round(Sections!Rounds(section, p, unit)[n], p, unit) = Sections!Rounds(section, p, unit)[n]
  BY Zenon
<1>3. Sections!Rounds(section, p, unit)[MaxLoops + 1] = Sections!Rounds(section, p, unit)[n]
  BY <1>1, <1>2, RoundsSettle, Zenon
<1>4. Sections!Rounds(section, p, unit)[MaxLoops + 1] = State(d, length, a, q, o, FALSE)
  BY <1>3, Zenon
<1> QED BY <1>4, DecodedEndless, Zenon

LEMMA EndsSkipping ==
  ASSUME NEW section, NEW p, NEW unit, NEW n \in 0 .. MaxLoops,
         NEW a, NEW q, NEW o, Skips(p, unit, a),
         Sections!Rounds(section, p, unit)[n] = State(<<>>, -1, a, q, o, FALSE)
  PROVE  GivesOut(Sections!Decoded(section, p, unit), <<>>, -1, o)
<1>1. n + 1 \in 0 .. MaxLoops + 1
  BY SizesAre
<1>2. Sections!Rounds(section, p, unit)[n + 1] = Sections!Round(Sections!Rounds(section, p, unit)[n], p, unit)
  BY NextRound, Zenon
<1>3. Sections!Round(State(<<>>, -1, a, q, o, FALSE), p, unit) = State(<<>>, -1, a, q, o, TRUE)
  BY RoundSkips, Zenon
<1>4. Sections!Rounds(section, p, unit)[n + 1] = State(<<>>, -1, a, q, o, TRUE)
  BY <1>2, <1>3, Zenon
<1> QED BY <1>1, <1>4, EndsEnded, Zenon

\* A section that is out of step: not the beginning of one, or what comes is not the next byte of it.
Begins(d) == d[1].s > 0 /\ \A i \in 1 .. Len(d) : d[i].s = d[1].s /\ d[i].k = i - 1
Misses(p, d) == Begins(d) => \A j \in 1 .. Payload : ~(p[j].s = d[1].s /\ p[j].k = Len(d))
Checked(d) == Len(d) >= 2 /\ Sections!ByteAt(d[2]) >= 128

LEMMA MissedIsWrong ==
  ASSUME NEW p \in Seq(TheBytes), Len(p) = Payload, NEW x \in Seq(TheBytes), Len(x) > 0,
         NEW a \in Nat, NEW n \in Nat, a + n <= Payload, n > 0, Misses(p, x)
  PROVE  ~Begins(JoinedWith(p, x, a, n))
<1>1. PICK d : d = JoinedWith(p, x, a, n)
  OBVIOUS
<1>2. PICK X \in Nat : X = Len(x) /\ X > 0
  OBVIOUS
<1>3. /\ Len(d) = X + n /\ \A i \in 1 .. X : d[i] = x[i]
      /\ \A i \in 1 .. n : d[X + i] = p[a + i]
  <2>1. /\ Len(JoinedWith(p, x, a, n)) = Len(x) + n
        /\ \A i \in 1 .. Len(x) : JoinedWith(p, x, a, n)[i] = x[i]
        /\ \A i \in 1 .. n : JoinedWith(p, x, a, n)[Len(x) + i] = p[a + i]
    BY ONLY p \in Seq(TheBytes), Len(p) = Payload, x \in Seq(TheBytes), a \in Nat, n \in Nat, a + n <= Payload,
            JoinedWithIs, Zenon
  <2> QED BY ONLY <1>1, <1>2, <2>1, Zenon
<1>4. 1 \in 1 .. n /\ 1 \in 1 .. X /\ X + 1 \in 1 .. X + n /\ a + 1 \in 1 .. Payload /\ (X + 1) - 1 = X
      /\ \A i \in 1 .. X : i \in 1 .. X + n
  BY ONLY <1>2, a \in Nat, n \in Nat, a + n <= Payload, n > 0, SizesAre
<1>5. d[1] = x[1] /\ d[X + 1] = p[a + 1]
  BY <1>3, <1>4, Zenon
<1>6. ASSUME Begins(d) PROVE FALSE
  <2>1. Begins(x)
    <3>1. \A i \in 1 .. X : x[i].s = x[1].s /\ x[i].k = i - 1
      BY <1>3, <1>4, <1>5, <1>6, Zenon DEF Begins
    <3>2. x[1].s > 0
      BY <1>5, <1>6, Zenon DEF Begins
    <3> QED BY <1>2, <3>1, <3>2, Zenon DEF Begins
  <2>2. p[a + 1].s = x[1].s /\ p[a + 1].k = X
    BY <1>3, <1>4, <1>5, <1>6, Zenon DEF Begins
  <2> QED BY <1>2, <1>4, <2>1, <2>2, Zenon DEF Misses
<1> QED BY <1>1, <1>6

LEMMA WrongStaysWrong ==
  ASSUME NEW p \in Seq(TheBytes), Len(p) = Payload, NEW x \in Seq(TheBytes), Len(x) > 0,
         NEW a \in Nat, NEW n \in Nat, a + n <= Payload, ~Begins(x)
  PROVE  ~Begins(JoinedWith(p, x, a, n))
<1>1. PICK d : d = JoinedWith(p, x, a, n)
  OBVIOUS
<1>2. PICK X \in Nat : X = Len(x) /\ X > 0
  OBVIOUS
<1>3. Len(d) = X + n /\ \A i \in 1 .. X : d[i] = x[i]
  <2>1. /\ Len(JoinedWith(p, x, a, n)) = Len(x) + n
        /\ \A i \in 1 .. Len(x) : JoinedWith(p, x, a, n)[i] = x[i]
        /\ \A i \in 1 .. n : JoinedWith(p, x, a, n)[Len(x) + i] = p[a + i]
    BY ONLY p \in Seq(TheBytes), Len(p) = Payload, x \in Seq(TheBytes), a \in Nat, n \in Nat, a + n <= Payload,
            JoinedWithIs, Zenon
  <2> QED BY ONLY <1>1, <1>2, <2>1, Zenon
<1>4. 1 \in 1 .. X /\ \A i \in 1 .. X : i \in 1 .. X + n
  BY ONLY <1>2, n \in Nat
<1>5. ASSUME Begins(d) PROVE FALSE
  <2>1. d[1] = x[1]
    BY <1>3, <1>4, Zenon
  <2>2. \A i \in 1 .. X : x[i].s = x[1].s /\ x[i].k = i - 1
    BY <1>3, <1>4, <1>5, <2>1, Zenon DEF Begins
  <2>3. x[1].s > 0
    BY <1>5, <2>1, Zenon DEF Begins
  <2> QED BY <1>2, <2>2, <2>3, Zenon DEF Begins
<1> QED BY <1>1, <1>5

LEMMA CheckedStays ==
  ASSUME NEW p \in Seq(TheBytes), Len(p) = Payload, NEW x \in Seq(TheBytes), Checked(x),
         NEW a \in Nat, NEW n \in Nat, a + n <= Payload
  PROVE  Checked(JoinedWith(p, x, a, n))
<1>1. PICK d : d = JoinedWith(p, x, a, n)
  OBVIOUS
<1>2. PICK X \in Nat : X = Len(x) /\ X >= 2
  BY DEF Checked
<1>3. Len(d) = X + n /\ \A i \in 1 .. X : d[i] = x[i]
  <2>1. /\ Len(JoinedWith(p, x, a, n)) = Len(x) + n
        /\ \A i \in 1 .. Len(x) : JoinedWith(p, x, a, n)[i] = x[i]
        /\ \A i \in 1 .. n : JoinedWith(p, x, a, n)[Len(x) + i] = p[a + i]
    BY ONLY p \in Seq(TheBytes), Len(p) = Payload, x \in Seq(TheBytes), a \in Nat, n \in Nat, a + n <= Payload,
            JoinedWithIs, Zenon
  <2> QED BY ONLY <1>1, <1>2, <2>1, Zenon
<1>4. 2 \in 1 .. X /\ X + n >= 2
  BY ONLY <1>2, n \in Nat
<1>5. d[2] = x[2]
  BY <1>3, <1>4, Zenon
<1> QED BY <1>1, <1>3, <1>4, <1>5, Zenon DEF Checked

\* Such a section is not taken for a whole one.
LEMMA WrongIsGivenUp ==
  ASSUME NEW d \in Seq(TheBytes), NEW length \in Int, Len(d) >= 8, Len(d) = length + 3,
         ~Begins(d), Checked(d), NEW a, NEW o
  PROVE  After(d, length, a, o) = State(<<>>, -1, a, 0, o, TRUE)
<1>1. PICK section : section = [data |-> d, length |-> length]
  OBVIOUS
<1>2. ~Sections!IsWhole(section)
  <2>1. SUFFICES ASSUME Sections!IsWhole(section) PROVE FALSE
    OBVIOUS
  <2>2. PICK D \in Nat : D = Len(d) /\ D > 0
    OBVIOUS
  <2>3. d[1].s > 0 /\ \A i \in 1 .. D : d[i].s = d[1].s /\ d[i].t = d[1].t /\ d[i].k = i - 1
    BY <1>1, <2>1, <2>2, SectionIsWhole
  <2> QED BY <2>2, <2>3, Zenon DEF Begins
<1>3. ~Sections!Unchecked(section)
  <2>1. section.data = d
    BY <1>1
  <2>2. d[2] \in TheBytes
    <3>1. 2 \in 1 .. Len(d)
      OBVIOUS
    <3> QED BY <3>1
  <2>3. Sections!ByteAt(d[2]) \in Nat
    BY <2>2, ByteIs
  <2> QED BY <2>1, <2>3 DEF Sections!Unchecked, Checked
<1> QED BY <1>1, <1>2, <1>3, Zenon DEF After

\* A short one that is all there and is not looked at: the loop turns until it gives up.
IsStuck(p, unit, d, length, a, o) ==
  Sections!Round(State(d, length, a, 0, o, FALSE), p, unit) = State(d, length, a, 0, o, FALSE)

LEMMA StaysStuck ==
  ASSUME NEW p \in Seq(TheBytes), Len(p) = Payload, NEW unit, NEW d, NEW length \in Nat, NEW a \in 0 .. Payload - 1,
         NEW o, Pending(d, length), length > 0, Len(d) = length + 3, Len(d) < 8
  PROVE  IsStuck(p, unit, d, length, a, o)
<1>1. PICK N \in Nat : N = Payload /\ N >= 16
  BY SizesAre
<1>2. PICK D \in Nat : D = Len(d) /\ d \in Seq(TheBytes)
  BY DEF Pending
<1>3. Stands(d, a, 0)
  <2>1. ~(Len(d) < 3) /\ 0 \in 0 .. Payload - 1
    BY <1>1, <1>2
  <2> QED BY <2>1, Zenon DEF Stands
<1>4. PICK known : known = Known(d, length, p, a)
  OBVIOUS
<1>5. known = length
  BY <1>3, <1>4, CalcIs
<1>6. PICK next : next = Sections!Round(State(d, length, a, 0, o, FALSE), p, unit)
  OBVIOUS
<1>7. Continues(p, d, a, 0, o, known, next)
  BY <1>3, <1>4, <1>6, RoundContinues, Zenon
<1>8. PICK n : n = Amount(a, known - Len(d))
  OBVIOUS
<1>9. /\ n \in 0 .. N - a /\ Len(d) + n <= known + 3
      /\ next = After(d \o Sections!BytesOf(p, a, n), known, a + n, o)
  <2>1. known > 0
    BY <1>5
  <2>2. 0 = 0
    OBVIOUS
  <2> QED BY <1>1, <1>7, <1>8, <2>1, <2>2, Zenon DEF Continues
<1>10. n = 0 /\ a + n = a /\ a \in Nat /\ a + 0 <= N
  BY <1>1, <1>2, <1>5, <1>9
<1>11. d \o Sections!BytesOf(p, a, 0) = d
  <2>1. PICK b : b = Sections!BytesOf(p, a, 0)
    OBVIOUS
  <2>2. b \in Seq(TheBytes) /\ Len(b) = 0
    BY <1>1, <1>10, <2>1, TakenIs
  <2>3. b = <<>>
    BY ONLY <2>2
  <2> QED BY ONLY <1>2, <2>1, <2>3
<1>12. next = After(d, length, a, o)
  BY <1>5, <1>9, <1>10, <1>11, Zenon
<1>13. ~(Len(d) >= 8)
  BY <1>2
<1> QED BY <1>6, <1>12, <1>13, Zenon DEF After, IsStuck

\* One more round for a section that is out of step: it is given up, cut off at the next one's
\* beginning, or goes on to its end or that of the packet.
IsCutOff(p, d, length, a, q, o, next) ==
  \E known \in Nat, m \in 3 .. Payload - a :
    /\ q # 0 /\ (length > 0 => known = length) /\ a + (known - Len(d)) > q /\ m = Amount(a, q - a)
    /\ next = State(JoinedWith(p, d, a, m), Len(d) + m - 1, q, 0, o, FALSE)

GoesOn(p, d, length, a, q, o, next) ==
  \E known \in Nat, n \in 0 .. Payload - a :
    /\ known > 0 /\ (length > 0 => known = length) /\ ~(q # 0 /\ a + (known - Len(d)) > q)
    /\ next = State(JoinedWith(p, d, a, n), known, a + n, 0, o, FALSE)
    /\ \/ Len(d) + n = known + 3 /\ Len(d) + n < 8
       \/ Len(d) + n < known + 3 /\ a + n = Payload

IsGivenUp(o, next) == \E a, q : next = State(<<>>, -1, a, q, o, TRUE)

LEMMA MissedRound ==
  ASSUME NEW p \in Seq(TheBytes), Len(p) = Payload, NEW unit, NEW d, NEW length, NEW a, NEW q, NEW o,
         Pending(d, length), Stands(d, a, q), Checked(d), Misses(p, d)
  PROVE  LET next == Sections!Round(State(d, length, a, q, o, FALSE), p, unit)
         IN  IsGivenUp(o, next) \/ IsCutOff(p, d, length, a, q, o, next) \/ GoesOn(p, d, length, a, q, o, next)
<1>1. PICK N \in Nat : N = Payload /\ N >= 16
  BY SizesAre
<1>2. PICK D \in Nat : D = Len(d) /\ D > 0 /\ d \in Seq(TheBytes) /\ D >= 2
  BY DEF Pending, Checked
<1>3. a \in Nat /\ a \in 0 .. N - 1 /\ q \in 0 .. N - 1
  BY <1>1 DEF Stands
<1>4. PICK known : known = Known(d, length, p, a)
  OBVIOUS
<1>5. known \in Nat /\ (length > 0 => known = length)
  BY <1>4, CalcIs
<1>6. PICK next : next = Sections!Round(State(d, length, a, q, o, FALSE), p, unit)
  OBVIOUS
<1>7. Continues(p, d, a, q, o, known, next)
  BY <1>4, <1>6, RoundContinues, Zenon
<1>8. PICK m : m = Amount(a, q - a)
  OBVIOUS
<1>9. PICK n : n = Amount(a, known - Len(d))
  OBVIOUS
<1>10. PICK isCut : isCut <=> (q # 0 /\ a + (known - Len(d)) > q)
  OBVIOUS
<1>11. /\ known = 0 => next = State(<<>>, -1, a, q, o, TRUE)
       /\ known > 0 /\ isCut => m \in 3 .. Payload - a /\ next = After(JoinedWith(p, d, a, m), Len(d) + m - 1, q, o)
       /\ known > 0 /\ ~isCut =>
            /\ n \in 0 .. Payload - a /\ Len(d) + n <= known + 3
            /\ a + n = Payload \/ Len(d) + n = known + 3
            /\ next = After(JoinedWith(p, d, a, n), known, a + n, o)
  BY <1>7, <1>8, <1>9, <1>10, Zenon DEF Continues, JoinedWith
<1>12. CASE known = 0
  BY <1>6, <1>11, <1>12, Zenon DEF IsGivenUp
<1>13. CASE known > 0 /\ isCut
  <2>1. m \in 3 .. Payload - a
    BY <1>11, <1>13
  <2>2. PICK x : x = JoinedWith(p, d, a, m)
    OBVIOUS
  <2>3. m \in Nat /\ a + m <= Payload
    BY <1>1, <1>3, <2>1
  <2>4. Len(x) = D + m
    BY <1>2, <1>3, <2>2, <2>3, JoinedWithIs
  <2>5. ~(Len(x) >= 8 /\ Len(x) = (Len(d) + m - 1) + 3)
    BY <1>2, <2>3, <2>4
  <2>6. next = After(x, Len(d) + m - 1, q, o)
    BY <1>11, <1>13, <2>2, Zenon
  <2>7. next = State(x, Len(d) + m - 1, q, 0, o, FALSE)
    BY ONLY <2>5, <2>6, Zenon DEF After
  <2>8. q # 0 /\ a + (known - Len(d)) > q
    BY <1>10, <1>13
  <2>9. IsCutOff(p, d, length, a, q, o, next)
    BY ONLY <1>5, <1>8, <2>1, <2>2, <2>7, <2>8, Zenon DEF IsCutOff
  <2> QED BY <1>6, <2>9, Zenon
<1>14. CASE known > 0 /\ ~isCut
  <2>1. /\ n \in 0 .. Payload - a /\ Len(d) + n <= known + 3
        /\ a + n = Payload \/ Len(d) + n = known + 3
        /\ next = After(JoinedWith(p, d, a, n), known, a + n, o)
    BY <1>11, <1>14, Zenon
  <2>2. PICK x : x = JoinedWith(p, d, a, n)
    OBVIOUS
  <2>3. n \in Nat /\ a + n <= Payload
    BY <1>1, <1>3, <2>1
  <2>4. x \in Seq(TheBytes) /\ Len(x) = D + n
    BY <1>2, <1>3, <2>2, <2>3, JoinedWithIs
  <2>5. CASE D + n >= 8 /\ D + n = known + 3
    <3>1. n > 0
      <4>1. D >= 8 => length > 0 /\ D < length + 3
        BY <1>2 DEF Pending
      <4> QED BY <1>2, <1>5, <2>3, <2>5, <4>1
    <3>2. ~Begins(x)
      BY <1>2, <1>3, <2>2, <2>3, <3>1, MissedIsWrong
    <3>3. Checked(x)
      BY <1>2, <1>3, <2>2, <2>3, CheckedStays
    <3>4. known \in Int /\ Len(x) >= 8 /\ Len(x) = known + 3
      BY <1>5, <2>4, <2>5
    <3>5. After(x, known, a + n, o) = State(<<>>, -1, a + n, 0, o, TRUE)
      BY <2>4, <3>2, <3>3, <3>4, WrongIsGivenUp, Zenon
    <3> QED BY <1>6, <2>1, <2>2, <3>5, Zenon DEF IsGivenUp
  <2>6. CASE ~(D + n >= 8 /\ D + n = known + 3)
    <3>1. next = State(x, known, a + n, 0, o, FALSE)
      <4>1. ~(Len(x) >= 8 /\ Len(x) = known + 3)
        BY <2>4, <2>6
      <4> QED BY <2>1, <2>2, <4>1, Zenon DEF After
    <3>2. \/ Len(d) + n = known + 3 /\ Len(d) + n < 8
          \/ Len(d) + n < known + 3 /\ a + n = Payload
      BY <1>1, <1>2, <1>3, <1>5, <2>1, <2>3, <2>6
    <3>3. known \in Nat /\ known > 0 /\ (length > 0 => known = length) /\ ~(q # 0 /\ a + (known - Len(d)) > q)
      BY <1>5, <1>10, <1>14, Zenon
    <3>4. GoesOn(p, d, length, a, q, o, next)
      BY ONLY <2>1, <2>2, <3>1, <3>2, <3>3, Zenon DEF GoesOn
    <3> QED BY <1>6, <3>4, Zenon
  <2> QED BY <2>5, <2>6
<1>15. known = 0 \/ (known > 0 /\ isCut) \/ (known > 0 /\ ~isCut)
  BY <1>5
<1> QED BY <1>12, <1>13, <1>14, <1>15, Zenon

\* What it comes to when it is neither given up nor cut off: nothing, or it waits for the next packet.
Waits(d, length, a, q, dd, ll) ==
  /\ dd \in Seq(TheBytes) /\ Len(dd) = Len(d) + (Payload - a)
  /\ Checked(dd) /\ ~Begins(dd)
  /\ ll \in Nat /\ ll > 0 /\ Len(dd) < ll + 3 /\ (length > 0 => ll = length)
  /\ ~(q # 0 /\ a + (ll - Len(d)) > q)

LEMMA GoesOnToTheEnd ==
  ASSUME NEW p \in Seq(TheBytes), Len(p) = Payload, NEW unit, NEW section, NEW k \in 0 .. MaxLoops,
         NEW d, NEW length, NEW a, NEW q, NEW o,
         Pending(d, length), Stands(d, a, q), Checked(d), Misses(p, d), Len(d) < 8 => a + 8 <= Payload,
         GoesOn(p, d, length, a, q, o, Sections!Rounds(section, p, unit)[k])
  PROVE  \/ GivesOut(Sections!Decoded(section, p, unit), <<>>, -1, o)
         \/ \E dd, ll : GivesOut(Sections!Decoded(section, p, unit), dd, ll, o) /\ Waits(d, length, a, q, dd, ll)
<1>1. PICK N \in Nat : N = Payload /\ N >= 16
  BY SizesAre
<1>2. PICK D \in Nat : D = Len(d) /\ D > 0 /\ d \in Seq(TheBytes) /\ D >= 2
  BY DEF Pending, Checked
<1>3. a \in Nat /\ a \in 0 .. N - 1
  BY <1>1 DEF Stands
<1>4. PICK next : next = Sections!Rounds(section, p, unit)[k]
  OBVIOUS
<1>5. PICK known \in Nat, n \in 0 .. Payload - a :
        /\ known > 0 /\ (length > 0 => known = length) /\ ~(q # 0 /\ a + (known - Len(d)) > q)
        /\ next = State(JoinedWith(p, d, a, n), known, a + n, 0, o, FALSE)
        /\ \/ Len(d) + n = known + 3 /\ Len(d) + n < 8
           \/ Len(d) + n < known + 3 /\ a + n = Payload
  BY <1>4, Zenon DEF GoesOn
<1>6. PICK x : x = JoinedWith(p, d, a, n)
  OBVIOUS
<1>7. n \in Nat /\ a + n <= Payload
  BY <1>1, <1>3
<1>8. x \in Seq(TheBytes) /\ Len(x) = D + n
  BY <1>2, <1>3, <1>6, <1>7, JoinedWithIs
<1>9. Checked(x)
  BY <1>2, <1>3, <1>6, <1>7, CheckedStays
<1>10. CASE Len(d) + n = known + 3 /\ Len(d) + n < 8
  <2>1. a + n \in 0 .. Payload - 1
    BY <1>1, <1>2, <1>3, <1>7, <1>10
  <2>2. known \in Nat /\ known > 0 /\ Len(x) = known + 3 /\ Len(x) < 8
    BY <1>2, <1>5, <1>8, <1>10
  <2>3. Pending(x, known)
    <3>1. x \in Seq(TheBytes) /\ Len(x) > 0 /\ known \in Int /\ known > 0 /\ Len(x) <= known + 3 /\ ~(Len(x) >= 8)
      BY <1>8, <2>2
    <3> QED BY <3>1, Zenon DEF Pending
  <2>4. PICK b \in 0 .. Payload - 1 : b = a + n
    BY <2>1
  <2>5. IsStuck(p, unit, x, known, b, o)
    BY ONLY p \in Seq(TheBytes), Len(p) = Payload, b \in 0 .. Payload - 1, <2>2, <2>3, StaysStuck, Zenon
  <2>6. Sections!Rounds(section, p, unit)[k] = State(x, known, b, 0, o, FALSE)
    BY <1>4, <1>5, <1>6, <2>4, Zenon
  <2> QED BY <2>5, <2>6, EndsStuck, Zenon DEF IsStuck
<1>11. CASE Len(d) + n < known + 3 /\ a + n = Payload
  <2>1. Sections!Rounds(section, p, unit)[k] = State(x, known, a + n, 0, o, FALSE) /\ a + n >= Payload
    <3>1. a + n >= Payload
      BY <1>1, <1>11
    <3> QED BY <1>4, <1>5, <1>6, <3>1, Zenon
  <2>2. GivesOut(Sections!Decoded(section, p, unit), x, known, o)
    BY <2>1, EndsWithPacket, Zenon
  <2>3. n > 0 /\ n = Payload - a
    BY <1>1, <1>3, <1>7, <1>11
  <2>4. ~Begins(x)
    BY <1>2, <1>3, <1>6, <1>7, <2>3, MissedIsWrong
  <2>5. Len(x) = Len(d) + (Payload - a) /\ Len(x) < known + 3
    BY <1>1, <1>2, <1>3, <1>8, <1>11, <2>3
  <2>6. Waits(d, length, a, q, x, known)
    BY <1>5, <1>8, <1>9, <2>4, <2>5, Zenon DEF Waits
  <2> QED BY <2>2, <2>6, Zenon
<1> QED BY <1>5, <1>10, <1>11, Zenon

OneByOne(f, p, unit) ==
  /\ f[1] = Sections!Round(f[0], p, unit) /\ f[2] = Sections!Round(f[1], p, unit)
  /\ f[3] = Sections!Round(f[2], p, unit)

LEMMA FirstRounds ==
  ASSUME NEW section, NEW p, NEW unit
  PROVE  OneByOne(Sections!Rounds(section, p, unit), p, unit)
<1>6. PICK f : f = Sections!Rounds(section, p, unit)
  OBVIOUS
<1>1. /\ 1 \in 1 .. MaxLoops + 1 /\ 2 \in 1 .. MaxLoops + 1 /\ 3 \in 1 .. MaxLoops + 1
      /\ 1 - 1 = 0 /\ 2 - 1 = 1 /\ 3 - 1 = 2
  BY SizesAre
<1>2. \A i \in 1 .. MaxLoops + 1 : f[i] = Sections!Round(f[i - 1], p, unit)
  BY <1>6, RoundsAre, Zenon
<1>3. f[1] = Sections!Round(f[1 - 1], p, unit)
  BY ONLY <1>1, <1>2, Zenon
<1>4. f[2] = Sections!Round(f[2 - 1], p, unit)
  BY ONLY <1>1, <1>2, Zenon
<1>5. f[3] = Sections!Round(f[3 - 1], p, unit)
  BY ONLY <1>1, <1>2, Zenon
<1> QED BY ONLY <1>1, <1>3, <1>4, <1>5, <1>6, Zenon DEF OneByOne

\* Where the loop begins when a section goes on.
PlaceIn(unit) == IF unit THEN 1 ELSE 0
PointerIn(p, unit) == IF unit THEN Sections!ByteAt(p[1]) + 1 ELSE 0

LEMMA BeginsWith ==
  ASSUME NEW p, NEW unit \in BOOLEAN, NEW d, NEW length, d # <<>>
  PROVE  Sections!Rounds([data |-> d, length |-> length], p, unit)[0]
           = State(d, length, PlaceIn(unit), PointerIn(p, unit), <<>>, FALSE)
<1>1. PICK q : q = Sections!ByteAt(p[1]) + 1
  OBVIOUS
<1>2. Sections!First([data |-> d, length |-> length], p, unit)
        = State(d, length, IF ~unit THEN 0 ELSE IF d = <<>> THEN q ELSE 1, IF unit THEN q ELSE 0, <<>>, FALSE)
  BY <1>1, FirstIs, Zenon
<1>3. PICK a, b : a = (IF ~unit THEN 0 ELSE IF d = <<>> THEN q ELSE 1) /\ b = IF unit THEN q ELSE 0
  OBVIOUS
<1>4. a = PlaceIn(unit) /\ b = PointerIn(p, unit)
  BY <1>1, <1>3, Zenon DEF PlaceIn, PointerIn
<1> QED BY <1>2, <1>3, <1>4, RoundsAre, Zenon

\* The pointer field points into the packet.
Points(p, unit) == unit => Sections!ByteAt(p[1]) + 1 \in 1 .. Payload - 1

LEMMA PlaceIs ==
  ASSUME NEW p, NEW unit \in BOOLEAN, Points(p, unit)
  PROVE  /\ PlaceIn(unit) \in 0 .. 1 /\ PointerIn(p, unit) \in 0 .. Payload - 1
         /\ unit => PointerIn(p, unit) # 0 /\ PlaceIn(unit) = 1
         /\ ~unit => PointerIn(p, unit) = 0
<1>1. PICK N \in Nat : N = Payload /\ N >= 16
  BY SizesAre
<1>2. PICK q : q = Sections!ByteAt(p[1]) + 1
  OBVIOUS
<1>3. CASE unit
  <2>1. q \in 1 .. N - 1
    BY <1>1, <1>2, <1>3 DEF Points
  <2>2. PlaceIn(unit) = 1 /\ PointerIn(p, unit) = q
    BY <1>2, <1>3, Zenon DEF PlaceIn, PointerIn
  <2>3. q \in 0 .. N - 1 /\ q # 0 /\ 1 \in 0 .. 1
    BY <1>1, <2>1
  <2> QED BY <1>1, <1>3, <2>2, <2>3, Zenon
<1>4. CASE ~unit
  <2>1. PlaceIn(unit) = 0 /\ PointerIn(p, unit) = 0
    BY <1>4, Zenon DEF PlaceIn, PointerIn
  <2>2. 0 \in 0 .. N - 1 /\ 0 \in 0 .. 1
    BY <1>1
  <2> QED BY <1>1, <1>4, <2>1, <2>2, Zenon
<1> QED BY <1>3, <1>4

LEMMA StandsFirst ==
  ASSUME NEW p, NEW unit \in BOOLEAN, Points(p, unit), NEW d
  PROVE  Stands(d, PlaceIn(unit), PointerIn(p, unit))
<1>1. PICK N \in Nat : N = Payload /\ N >= 16
  BY SizesAre
<1>2. PICK a, q : a = PlaceIn(unit) /\ q = PointerIn(p, unit)
  OBVIOUS
<1>3. a \in 0 .. 1 /\ q \in 0 .. Payload - 1 /\ (unit => a = 1) /\ (~unit => q = 0)
  BY <1>2, PlaceIs, Zenon
<1>4. a \in 0 .. Payload - 1 /\ a <= 1
  BY <1>1, <1>3
<1> QED BY <1>2, <1>3, <1>4, Zenon DEF Stands

\* It ends with one or two bytes that it has too many: the next packet ends it.
AtItsEnd(d, length) == Len(d) >= 8 /\ length > 0 /\ Len(d) - length \in {1, 2}

IsOutOfStep(unit, dd, ll) == Checked(dd) /\ ~Begins(dd) /\ (unit => AtItsEnd(dd, ll))

LEMMA StaysOutOfStep ==
  ASSUME NEW p \in Seq(TheBytes), Len(p) = Payload, NEW unit \in BOOLEAN, Points(p, unit),
         NEW d, NEW length, Pending(d, length), Checked(d), Misses(p, d)
  PROVE  LET decoded == Sections!Decoded([data |-> d, length |-> length], p, unit)
         IN  \/ GivesOut(decoded, <<>>, -1, <<>>)
             \/ \E dd, ll : GivesOut(decoded, dd, ll, <<>>) /\ IsOutOfStep(unit, dd, ll)
<1>1. PICK N \in Nat : N = Payload /\ N >= 16
  BY SizesAre
<1>2. PICK D \in Nat : D = Len(d) /\ D >= 2 /\ d \in Seq(TheBytes) /\ d # <<>>
  BY DEF Pending, Checked
<1>3. PICK section : section = [data |-> d, length |-> length]
  OBVIOUS
<1>4. PICK decoded : decoded = Sections!Decoded(section, p, unit)
  OBVIOUS
<1>5. PICK a, q, o : a = PlaceIn(unit) /\ q = PointerIn(p, unit) /\ o = <<>>
  OBVIOUS
<1>6. a \in 0 .. 1 /\ q \in 0 .. Payload - 1 /\ (unit => q # 0 /\ a = 1) /\ (~unit => q = 0)
  BY <1>5, PlaceIs, Zenon
<1>7. Stands(d, a, q)
  BY <1>5, StandsFirst, Zenon
<1>8. PICK f : f = Sections!Rounds(section, p, unit)
  OBVIOUS
<1>9. f[0] = State(d, length, a, q, o, FALSE)
  BY <1>2, <1>3, <1>5, <1>8, BeginsWith, Zenon
<1>10. 0 \in 0 .. MaxLoops /\ 1 \in 0 .. MaxLoops /\ 1 \in 0 .. MaxLoops + 1 /\ 2 \in 0 .. MaxLoops + 1
       /\ 2 \in 0 .. MaxLoops
  BY SizesAre
<1>11. f[1] = Sections!Round(f[0], p, unit) /\ f[2] = Sections!Round(f[1], p, unit)
  BY <1>8, FirstRounds, Zenon DEF OneByOne
<1>12. IsGivenUp(o, f[1]) \/ IsCutOff(p, d, length, a, q, o, f[1]) \/ GoesOn(p, d, length, a, q, o, f[1])
  BY <1>7, <1>9, <1>11, MissedRound, Zenon
<1>13. CASE IsGivenUp(o, f[1])
  <2>1. PICK b, r : f[1] = State(<<>>, -1, b, r, o, TRUE)
    BY <1>13, Zenon DEF IsGivenUp
  <2>2. GivesOut(decoded, <<>>, -1, o)
    BY <1>4, <1>8, <1>10, <2>1, EndsEnded, Zenon
  <2> QED BY <1>3, <1>4, <1>5, <2>2, Zenon
<1>14. CASE GoesOn(p, d, length, a, q, o, f[1])
  <2>1. Len(d) < 8 => a + 8 <= Payload
    BY <1>1, <1>6
  <2>2. \/ GivesOut(decoded, <<>>, -1, o)
        \/ \E dd, ll : GivesOut(decoded, dd, ll, o) /\ Waits(d, length, a, q, dd, ll)
    BY <1>4, <1>7, <1>8, <1>10, <1>14, <2>1, GoesOnToTheEnd, Zenon
  <2>3. CASE GivesOut(decoded, <<>>, -1, o)
    BY <1>3, <1>4, <1>5, <2>3, Zenon
  <2>4. ASSUME NEW dd, NEW ll, GivesOut(decoded, dd, ll, o), Waits(d, length, a, q, dd, ll)
        PROVE  IsOutOfStep(unit, dd, ll)
    <3>1. /\ dd \in Seq(TheBytes) /\ Len(dd) = D + (N - a) /\ ll \in Nat /\ ll > 0 /\ Len(dd) < ll + 3
          /\ ~(q # 0 /\ a + (ll - D) > q) /\ Checked(dd) /\ ~Begins(dd)
      BY <1>1, <1>2, <2>4, Zenon DEF Waits
    <3>3. N \in Nat /\ D \in Nat /\ N = Payload /\ N >= 16 /\ D >= 2
      BY <1>1, <1>2
    <3>4. PICK X : X = Len(dd)
      OBVIOUS
    <3>5. X = D + (N - a) /\ X < ll + 3 /\ ll \in Nat /\ ~(q # 0 /\ a + (ll - D) > q) /\ q \in 0 .. N - 1
      BY <1>6, <3>1, <3>3, <3>4, Zenon
    <3>6. unit => a = 1 /\ q # 0
      BY <1>6, Zenon
    <3>7. unit => X >= 8 /\ X - ll \in {1, 2}
      BY ONLY <3>3, <3>5, <3>6
    <3>2. unit => Len(dd) >= 8 /\ Len(dd) - ll \in {1, 2}
      BY <3>4, <3>7, Zenon
    <3> QED BY <3>1, <3>2, Zenon DEF IsOutOfStep, AtItsEnd
  <2> QED BY <1>3, <1>4, <1>5, <2>2, <2>3, <2>4, Zenon
<1>15. CASE IsCutOff(p, d, length, a, q, o, f[1])
  <2>1. PICK m \in 3 .. Payload - a :
          /\ q # 0 /\ m = Amount(a, q - a)
          /\ f[1] = State(JoinedWith(p, d, a, m), Len(d) + m - 1, q, 0, o, FALSE)
    BY <1>15, Zenon DEF IsCutOff
  <2>2. a = 1
    BY <1>6, <2>1
  <2>3. m = IF q < N - 3 THEN q + 2 ELSE N - 1
    BY <1>1, <1>6, <2>1, <2>2 DEF Amount
  <2>4. PICK x : x = JoinedWith(p, d, a, m)
    OBVIOUS
  <2>5. m \in Nat /\ a \in Nat /\ a + m <= Payload /\ m > 0
    BY <1>1, <2>1, <2>2
  <2>6. x \in Seq(TheBytes) /\ Len(x) = D + m
    BY <1>2, <2>4, <2>5, JoinedWithIs
  <2>7. ~Begins(x)
    BY <1>2, <2>4, <2>5, MissedIsWrong
  <2>8. Checked(x)
    BY <1>2, <2>4, <2>5, CheckedStays
  <2>9. PICK l \in Nat : l = D + m - 1 /\ l > 0
    <3>1. D + m - 1 \in Nat /\ D + m - 1 > 0
      BY <1>2, <2>5
    <3> QED BY <3>1, Zenon
  <2>10. Pending(x, l)
    <3>1. Len(x) > 0 /\ l \in Int /\ Len(x) <= l + 3 /\ Len(x) < l + 3
      BY <1>2, <2>5, <2>6, <2>9
    <3> QED BY <2>6, <2>9, <3>1, Zenon DEF Pending
  <2>11. Stands(x, q, 0)
    <3>1. ~(Len(x) < 3) /\ 0 \in 0 .. Payload - 1
      BY <1>1, <1>2, <2>5, <2>6
    <3> QED BY <1>6, <3>1, Zenon DEF Stands
  <2>12. Misses(p, x)
    BY <2>7, Zenon DEF Misses
  <2>13. f[1] = State(x, l, q, 0, o, FALSE)
    BY <1>2, <2>1, <2>4, <2>9, Zenon
  <2>14. IsGivenUp(o, f[2]) \/ IsCutOff(p, x, l, q, 0, o, f[2]) \/ GoesOn(p, x, l, q, 0, o, f[2])
    BY <1>11, <2>8, <2>10, <2>11, <2>12, <2>13, MissedRound, Zenon
  <2>15. ~IsCutOff(p, x, l, q, 0, o, f[2])
    BY Zenon DEF IsCutOff
  <2>16. CASE IsGivenUp(o, f[2])
    <3>1. PICK b, r : f[2] = State(<<>>, -1, b, r, o, TRUE)
      BY <2>16, Zenon DEF IsGivenUp
    <3>2. GivesOut(decoded, <<>>, -1, o)
      BY <1>4, <1>8, <1>10, <3>1, EndsEnded, Zenon
    <3> QED BY <1>3, <1>4, <1>5, <3>2, Zenon
  <2>17. CASE GoesOn(p, x, l, q, 0, o, f[2])
    <3>1. Len(x) < 8 => q + 8 <= Payload
      BY <1>1, <1>2, <1>6, <2>3, <2>6
    <3>2. \/ GivesOut(decoded, <<>>, -1, o)
          \/ \E dd, ll : GivesOut(decoded, dd, ll, o) /\ Waits(x, l, q, 0, dd, ll)
      BY <1>4, <1>8, <1>10, <2>8, <2>10, <2>11, <2>12, <2>17, <3>1, GoesOnToTheEnd, Zenon
    <3>3. CASE GivesOut(decoded, <<>>, -1, o)
      BY <1>3, <1>4, <1>5, <3>3, Zenon
    <3>4. ASSUME NEW dd, NEW ll, GivesOut(decoded, dd, ll, o), Waits(x, l, q, 0, dd, ll)
          PROVE  IsOutOfStep(unit, dd, ll)
      <4>1. /\ dd \in Seq(TheBytes) /\ Len(dd) = Len(x) + (N - q) /\ Len(dd) < ll + 3
            /\ Checked(dd) /\ ~Begins(dd) /\ (l > 0 => ll = l)
        BY <1>1, <3>4, Zenon DEF Waits
      <4>2. ll = D + m - 1 /\ ll > 0
        BY <2>9, <4>1
      <4>4. N \in Nat /\ D \in Nat /\ N = Payload /\ N >= 16 /\ D >= 2 /\ m \in Nat
        BY <1>1, <1>2, <2>5
      <4>5. PICK X : X = Len(dd)
        OBVIOUS
      <4>6. X = (D + m) + (N - q) /\ X < ll + 3 /\ q \in 0 .. N - 1
        BY <1>6, <2>6, <4>1, <4>4, <4>5, Zenon
      <4>7. X >= 8 /\ X - ll \in {1, 2}
        BY ONLY <2>3, <4>2, <4>4, <4>6
      <4>3. Len(dd) >= 8 /\ Len(dd) - ll \in {1, 2}
        BY <4>5, <4>7, Zenon
      <4> QED BY <4>1, <4>2, <4>3, Zenon DEF IsOutOfStep, AtItsEnd
    <3> QED BY <1>3, <1>4, <1>5, <3>2, <3>3, <3>4, Zenon
  <2> QED BY <2>14, <2>15, <2>16, <2>17, Zenon
<1> QED BY <1>12, <1>13, <1>14, <1>15, Zenon

LEMMA NextEndsIt ==
  ASSUME NEW p \in Seq(TheBytes), Len(p) = Payload, NEW unit \in BOOLEAN, Points(p, unit),
         NEW d, NEW length, Pending(d, length), Checked(d), Misses(p, d), AtItsEnd(d, length)
  PROVE  GivesOut(Sections!Decoded([data |-> d, length |-> length], p, unit), <<>>, -1, <<>>)
<1>1. PICK N \in Nat : N = Payload /\ N >= 16
  BY SizesAre
<1>2. PICK D \in Nat : D = Len(d) /\ D >= 8 /\ d \in Seq(TheBytes) /\ d # <<>>
  BY DEF Pending, AtItsEnd
<1>16. PICK l \in Nat : l = length /\ l > 0 /\ D - l \in {1, 2}
  <2>1. length \in Nat
    BY DEF Pending, AtItsEnd
  <2> QED BY <1>2, <2>1 DEF AtItsEnd
<1>3. PICK section : section = [data |-> d, length |-> length]
  OBVIOUS
<1>4. PICK decoded : decoded = Sections!Decoded(section, p, unit)
  OBVIOUS
<1>5. PICK a, q, o : a = PlaceIn(unit) /\ q = PointerIn(p, unit) /\ o = <<>>
  OBVIOUS
<1>6. a \in 0 .. 1 /\ q \in 0 .. Payload - 1 /\ (unit => q # 0 /\ a = 1) /\ (~unit => q = 0)
  BY <1>5, PlaceIs, Zenon
<1>7. Stands(d, a, q)
  BY <1>5, StandsFirst, Zenon
<1>8. PICK f : f = Sections!Rounds(section, p, unit)
  OBVIOUS
<1>9. f[0] = State(d, length, a, q, o, FALSE)
  BY <1>2, <1>3, <1>5, <1>8, BeginsWith, Zenon
<1>10. 1 \in 0 .. MaxLoops + 1
  BY SizesAre
<1>11. f[1] = Sections!Round(f[0], p, unit)
  BY <1>8, FirstRounds, Zenon DEF OneByOne
<1>12. IsGivenUp(o, f[1]) \/ IsCutOff(p, d, length, a, q, o, f[1]) \/ GoesOn(p, d, length, a, q, o, f[1])
  BY <1>7, <1>9, <1>11, MissedRound, Zenon
<1>13. CASE IsGivenUp(o, f[1])
  <2>1. PICK b, r : f[1] = State(<<>>, -1, b, r, o, TRUE)
    BY <1>13, Zenon DEF IsGivenUp
  <2>2. GivesOut(decoded, <<>>, -1, o)
    BY <1>4, <1>8, <1>10, <2>1, EndsEnded, Zenon
  <2> QED BY <1>3, <1>4, <1>5, <2>2, Zenon
<1>14. CASE GoesOn(p, d, length, a, q, o, f[1])
  <2>1. PICK known \in Nat, n \in 0 .. Payload - a :
          /\ (length > 0 => known = length)
          /\ \/ Len(d) + n = known + 3 /\ Len(d) + n < 8
             \/ Len(d) + n < known + 3 /\ a + n = Payload
    BY <1>14, Zenon DEF GoesOn
  <2>2. known = l /\ n \in Nat
    BY <1>1, <1>6, <1>16, <2>1
  <2>3. D + n < l + 3 /\ a + n = N
    BY <1>1, <1>2, <1>6, <1>16, <2>1, <2>2
  <2> QED BY <1>1, <1>2, <1>6, <1>16, <2>2, <2>3
<1>15. CASE IsCutOff(p, d, length, a, q, o, f[1])
  <2>1. PICK known \in Nat : q # 0 /\ (length > 0 => known = length) /\ a + (known - Len(d)) > q
    BY <1>15, Zenon DEF IsCutOff
  <2>2. known = l /\ a = 1
    BY <1>6, <1>16, <2>1
  <2>3. q \in 0 .. N - 1 /\ 1 + (l - D) > q /\ q # 0
    BY <1>1, <1>2, <1>6, <2>1, <2>2, Zenon
  <2>4. N \in Nat /\ l \in Nat /\ D \in Nat /\ D - l \in {1, 2}
    BY <1>16
  <2>5. FALSE
    BY ONLY <2>3, <2>4
  <2> QED BY <2>5
<1> QED BY <1>12, <1>13, <1>14, <1>15, Zenon

\* A packet that carries n bytes of a section, from its byte from on, at a.
Carries(p, a, s, t, from, n) == \A i \in 1 .. n : p[a + i] = [s |-> s, k |-> from + i - 1, t |-> t]

IsPart(b, s, t, from, n) ==
  b \in Seq(TheBytes) /\ Len(b) = n /\ \A i \in 1 .. n : b[i] = [s |-> s, k |-> from + i - 1, t |-> t]

HasPart(s, t, from, n) ==
  from \in Nat /\ n \in Nat /\ (n > 0 => s \in 1 .. MaxSections /\ t \in Totals /\ from + n <= t)

LEMMA SectionBytesAre ==
  ASSUME NEW s, NEW t, NEW from, NEW n, HasPart(s, t, from, n)
  PROVE  IsPart(Sections!SectionBytes(s, t, from, n), s, t, from, n)
<1>8. from \in Nat /\ n \in Nat /\ (n > 0 => s \in 1 .. MaxSections /\ t \in Totals /\ from + n <= t)
  BY DEF HasPart
<1>1. ASSUME NEW i \in 1 .. n PROVE [s |-> s, k |-> from + i - 1, t |-> t] \in TheBytes
  <2>1. s \in 1 .. MaxSections /\ t \in Totals /\ from + n <= t /\ s \in Int /\ t \in Int /\ from \in Nat /\ n \in Nat
    BY <1>1, <1>8, TotalIs
  <2>2. PICK k \in Nat : k = from + i - 1 /\ k < t
    <3>1. from + i - 1 \in Nat /\ from + i - 1 < t
      BY <2>1
    <3> QED BY <3>1, Zenon
  <2>3. PICK b : b = [s |-> s, k |-> k, t |-> t]
    OBVIOUS
  <2>4. b \in [s : Int, k : Nat, t : Int] /\ b.s = s /\ b.k = k /\ b.t = t
    BY ONLY <2>1, k \in Nat, <2>3
  <2>5. b \in TheBytes
    BY <2>1, <2>2, <2>4, Zenon DEF TheBytes
  <2> QED BY <2>2, <2>3, <2>5, Zenon
<1>2. PICK b : b = [i \in 1 .. n |-> [s |-> s, k |-> from + i - 1, t |-> t]]
  OBVIOUS
<1>3. \A i \in 1 .. n : b[i] = [s |-> s, k |-> from + i - 1, t |-> t]
  BY <1>2, Zenon
<1>4. \A i \in 1 .. n : b[i] \in TheBytes
  BY <1>1, <1>3, Zenon
<1>5. b = [i \in 1 .. n |-> b[i]]
  BY <1>2, <1>3, Zenon
<1>6. b \in Seq(TheBytes) /\ Len(b) = n
  BY ONLY <1>4, <1>5, <1>8, SMT
<1>7. Sections!SectionBytes(s, t, from, n) = b
  BY <1>2, Zenon DEF Sections!SectionBytes
<1> QED BY <1>3, <1>6, <1>7, Zenon DEF IsPart

IsCarried(p, a, s, t, from, n) ==
  /\ p \in Seq(TheBytes) /\ Len(p) = Payload /\ a \in Nat /\ n \in Nat /\ a + n <= Payload
  /\ s \in 1 .. MaxSections /\ t \in Totals /\ from \in Nat /\ from + n <= t
  /\ Carries(p, a, s, t, from, n)

LEMMA CarriedIs ==
  ASSUME NEW p, NEW a, NEW n, NEW s, NEW t, NEW from, IsCarried(p, a, s, t, from, n)
  PROVE  Sections!BytesOf(p, a, n) = Sections!SectionBytes(s, t, from, n)
<1>1. PICK x : x = Sections!BytesOf(p, a, n)
  OBVIOUS
<1>2. PICK y : y = Sections!SectionBytes(s, t, from, n)
  OBVIOUS
<1>3. x \in Seq(TheBytes) /\ Len(x) = n /\ \A i \in 1 .. n : x[i] = p[a + i]
  BY <1>1, TakenIs, Zenon DEF IsCarried
<1>4. HasPart(s, t, from, n)
  BY Zenon DEF HasPart, IsCarried
<1>5. y \in Seq(TheBytes) /\ Len(y) = n /\ \A i \in 1 .. n : y[i] = [s |-> s, k |-> from + i - 1, t |-> t]
  <2>1. IsPart(y, s, t, from, n)
    BY <1>2, <1>4, SectionBytesAre, Zenon
  <2> QED BY <2>1, Zenon DEF IsPart
<1>6. \A i \in 1 .. n : x[i] = y[i]
  BY <1>3, <1>5, Zenon DEF Carries, IsCarried
<1>7. x = y
  BY <1>3, <1>5, <1>6, SeqEqual, Zenon
<1> QED BY <1>1, <1>2, <1>7

\* The beginning of a section and the n bytes that follow it.
GrowsBy(p, a, s, t, from, n) ==
  JoinedWith(p, Sections!SectionBytes(s, t, 0, from), a, n) = Sections!SectionBytes(s, t, 0, from + n)

LEMMA CarriedOn ==
  ASSUME NEW p, NEW a, NEW n, NEW s, NEW t, NEW from, IsCarried(p, a, s, t, from, n)
  PROVE  GrowsBy(p, a, s, t, from, n)
<1>10. /\ p \in Seq(TheBytes) /\ Len(p) = Payload /\ a \in Nat /\ n \in Nat /\ a + n <= Payload
       /\ s \in 1 .. MaxSections /\ t \in Totals /\ from \in Nat /\ from + n <= t
       /\ Carries(p, a, s, t, from, n)
  BY Zenon DEF IsCarried
<1>1. PICK x : x = Sections!SectionBytes(s, t, 0, from)
  OBVIOUS
<1>2. PICK y : y = Sections!SectionBytes(s, t, 0, from + n)
  OBVIOUS
<1>3. PICK z : z = JoinedWith(p, x, a, n)
  OBVIOUS
<1>4. HasPart(s, t, 0, from) /\ HasPart(s, t, 0, from + n)
  <2>1. 0 \in Nat /\ t \in Nat /\ from + n \in Nat /\ 0 + from <= t /\ 0 + (from + n) <= t
    BY <1>10, TotalIs
  <2> QED BY <1>10, <2>1, Zenon DEF HasPart
<1>5. x \in Seq(TheBytes) /\ Len(x) = from /\ \A i \in 1 .. from : x[i] = [s |-> s, k |-> 0 + i - 1, t |-> t]
  <2>1. IsPart(x, s, t, 0, from)
    BY <1>1, <1>4, SectionBytesAre, Zenon
  <2> QED BY <2>1, Zenon DEF IsPart
<1>6. y \in Seq(TheBytes) /\ Len(y) = from + n
      /\ \A i \in 1 .. from + n : y[i] = [s |-> s, k |-> 0 + i - 1, t |-> t]
  <2>1. IsPart(y, s, t, 0, from + n)
    BY <1>2, <1>4, SectionBytesAre, Zenon
  <2> QED BY <2>1, Zenon DEF IsPart
<1>7. z \in Seq(TheBytes) /\ Len(z) = from + n /\ (\A i \in 1 .. from : z[i] = x[i])
      /\ \A i \in 1 .. n : z[from + i] = p[a + i]
  <2>1. /\ JoinedWith(p, x, a, n) \in Seq(TheBytes) /\ Len(JoinedWith(p, x, a, n)) = Len(x) + n
        /\ \A i \in 1 .. Len(x) : JoinedWith(p, x, a, n)[i] = x[i]
        /\ \A i \in 1 .. n : JoinedWith(p, x, a, n)[Len(x) + i] = p[a + i]
    <3>1. p \in Seq(TheBytes) /\ Len(p) = Payload /\ a \in Nat /\ n \in Nat /\ a + n <= Payload
      BY <1>10, Zenon
    <3> QED BY ONLY <1>5, <3>1, JoinedWithIs, Zenon
  <2> QED BY ONLY <1>3, <1>5, <2>1, Zenon
<1>8. ASSUME NEW i \in 1 .. from + n PROVE z[i] = y[i]
  <2>1. CASE i <= from
    <3>1. i \in 1 .. from
      BY <1>10, <2>1
    <3> QED BY <1>5, <1>6, <1>7, <3>1, Zenon
  <2>2. CASE i > from
    <3>1. PICK j \in 1 .. n : i = from + j
      <4>1. i - from \in 1 .. n /\ i = from + (i - from)
        BY <1>10, <2>2
      <4> QED BY <4>1, Zenon
    <3>2. z[i] = [s |-> s, k |-> from + j - 1, t |-> t]
      BY <1>7, <1>10, <3>1, Zenon DEF Carries
    <3>3. 0 + i - 1 = from + j - 1
      BY <1>10, <3>1
    <3> QED BY <1>6, <3>2, <3>3, Zenon
  <2>3. i <= from \/ i > from
    BY <1>10
  <2> QED BY <2>1, <2>2, <2>3, Zenon
<1>9. z = y
  BY <1>6, <1>7, <1>8, SeqEqual, Zenon
<1> QED BY <1>1, <1>2, <1>3, <1>9, Zenon DEF GrowsBy

\* What the header says, as long as it is there.
LengthWith(t, n) == IF n < 8 THEN -1 ELSE t - 3

LEMMA WholeWhenComplete ==
  ASSUME NEW s \in 1 .. MaxSections, NEW t \in Totals
  PROVE  Sections!IsWhole([data |-> Sections!SectionBytes(s, t, 0, t), length |-> t - 3])
<1>1. PICK d : d = Sections!SectionBytes(s, t, 0, t)
  OBVIOUS
<1>2. PICK l : l = t - 3
  OBVIOUS
<1>3. PICK section : section = [data |-> d, length |-> l]
  OBVIOUS
<1>4. section.data = d /\ section.length = l
  BY ONLY <1>3
<1>5. t \in Nat /\ t >= 12 /\ l + 3 = t /\ s > 0 /\ 1 \in 1 .. t
  BY <1>2, TotalIs, SizesAre
<1>6. d \in Seq(TheBytes) /\ Len(d) = t /\ \A i \in 1 .. t : d[i] = [s |-> s, k |-> 0 + i - 1, t |-> t]
  <2>1. HasPart(s, t, 0, t)
    <3>1. 0 \in Nat /\ 0 + t <= t
      BY <1>5
    <3> QED BY <1>5, <3>1, Zenon DEF HasPart
  <2>2. IsPart(d, s, t, 0, t)
    BY <1>1, <2>1, SectionBytesAre, Zenon
  <2> QED BY <2>2, Zenon DEF IsPart
<1>7. PICK first : first = d[1]
  OBVIOUS
<1>8. first.s = s /\ first.t = t
  <2>1. first = [s |-> s, k |-> 0 + 1 - 1, t |-> t]
    BY <1>5, <1>6, <1>7, Zenon
  <2> QED BY ONLY <2>1
<1>9. SubSeq(d, 1, t) = d
  BY ONLY <1>5, <1>6, SMT
<1>10. Sections!IsWhole(section)
  BY <1>1, <1>4, <1>5, <1>7, <1>8, <1>9, Zenon DEF Sections!IsWhole
<1> QED BY <1>1, <1>2, <1>3, <1>10, Zenon

\* All of a section, or what there is of it.
AfterPart(s, t, n, a, o) ==
  IF n = t THEN State(<<>>, -1, a, 0, Append(o, s), FALSE)
  ELSE State(Sections!SectionBytes(s, t, 0, n), LengthWith(t, n), a, 0, o, FALSE)

LEMMA PartIsKept ==
  ASSUME NEW s \in 1 .. MaxSections, NEW t \in Totals, NEW n \in 1 .. t, NEW a, NEW o
  PROVE  After(Sections!SectionBytes(s, t, 0, n), LengthWith(t, n), a, o) = AfterPart(s, t, n, a, o)
<1>8. PICK length : length = LengthWith(t, n)
  OBVIOUS
<1>1. PICK d : d = Sections!SectionBytes(s, t, 0, n)
  OBVIOUS
<1>2. PICK section : section = [data |-> d, length |-> length]
  OBVIOUS
<1>3. t \in Nat /\ t >= 12 /\ n \in Nat /\ n <= t /\ 1 \in 1 .. n
  BY TotalIs
<1>4. Len(d) = n /\ \A i \in 1 .. n : d[i] = [s |-> s, k |-> 0 + i - 1, t |-> t]
  <2>1. HasPart(s, t, 0, n)
    <3>1. 0 \in Nat /\ 0 + n <= t
      BY <1>3
    <3> QED BY <1>3, <3>1, Zenon DEF HasPart
  <2>2. IsPart(d, s, t, 0, n)
    BY <1>1, <2>1, SectionBytesAre, Zenon
  <2> QED BY <2>2, Zenon DEF IsPart
<1>5. length = IF n < 8 THEN -1 ELSE t - 3
  BY <1>8, Zenon DEF LengthWith
<1>6. CASE n = t
  <2>1. Len(d) >= 8 /\ Len(d) = length + 3 /\ length = t - 3
    BY <1>3, <1>4, <1>5, <1>6
  <2>2. Sections!IsWhole(section)
    BY <1>1, <1>2, <1>6, <2>1, WholeWhenComplete, Zenon
  <2>3. d[1].s = s
    <3>1. d[1] = [s |-> s, k |-> 0 + 1 - 1, t |-> t]
      BY <1>3, <1>4, Zenon
    <3>2. PICK b : b = d[1]
      OBVIOUS
    <3>3. b.s = s
      BY ONLY <3>1, <3>2
    <3> QED BY <3>2, <3>3
  <2>4. After(d, length, a, o) = State(<<>>, -1, a, 0, Append(o, s), FALSE)
    BY <1>2, <2>1, <2>2, <2>3, Zenon DEF After
  <2> QED BY <1>1, <1>6, <1>8, <2>4, Zenon DEF AfterPart
<1>7. CASE n # t
  <2>1. ~(Len(d) >= 8 /\ Len(d) = length + 3)
    BY <1>3, <1>4, <1>5, <1>7
  <2>2. After(d, length, a, o) = State(d, length, a, 0, o, FALSE)
    BY <2>1, Zenon DEF After
  <2> QED BY <1>1, <1>7, <1>8, <2>2, Zenon DEF AfterPart
<1> QED BY <1>6, <1>7

\* What there is of a section in the rest of the packet.
Share(t, space) == IF t <= space THEN t ELSE space

IsANew(p, s, t, a, n) ==
  /\ p \in Seq(TheBytes) /\ Len(p) = Payload /\ s \in 1 .. MaxSections /\ t \in Totals /\ a \in 0 .. Payload - 1
  /\ n = Share(t, Payload - a) /\ Carries(p, a, s, t, 0, n)

IsTaken(p, s, t, a, n, q, o) ==
  Sections!Round(State(<<>>, -1, a, q, o, FALSE), p, TRUE) = AfterPart(s, t, n, a + n, o)

LEMMA SectionStarts ==
  ASSUME NEW p, NEW s, NEW t, NEW a, NEW n, NEW q, NEW o, IsANew(p, s, t, a, n)
  PROVE  IsTaken(p, s, t, a, n, q, o)
<1> SUFFICES ASSUME p \in Seq(TheBytes), Len(p) = Payload, s \in 1 .. MaxSections, t \in Totals,
                    a \in 0 .. Payload - 1, n = Share(t, Payload - a), Carries(p, a, s, t, 0, n)
             PROVE  Sections!Round(State(<<>>, -1, a, q, o, FALSE), p, TRUE) = AfterPart(s, t, n, a + n, o)
  BY Zenon DEF IsANew, IsTaken
<1>1. PICK N \in Nat : N = Payload /\ N >= 16
  BY SizesAre
<1>2. n = Share(t, Payload - a)
  OBVIOUS
<1>3. t \in Nat /\ t >= 12 /\ a \in Nat /\ a < N
  BY <1>1, TotalIs
<1>4. n \in 1 .. t /\ n \in Nat /\ a + n <= N /\ n = IF t <= N - a THEN t ELSE N - a
  BY <1>1, <1>2, <1>3 DEF Share
<1>5. \A i \in 1 .. n : p[a + i] = [s |-> s, k |-> 0 + i - 1, t |-> t]
  BY <1>2, Zenon DEF Carries
<1>6. Sections!ByteAt(p[a + 1]) # 255
  <2>1. 1 \in 1 .. n /\ a + 1 \in 1 .. N /\ s > 0 /\ 0 + 1 - 1 = 0
    BY <1>1, <1>3, <1>4
  <2>2. PICK b \in TheBytes : b = p[a + 1]
    BY <1>1, <2>1
  <2>3. b = [s |-> s, k |-> 0 + 1 - 1, t |-> t]
    BY <1>5, <2>1, <2>2, Zenon
  <2>4. b.s = s /\ b.k = 0
    BY ONLY <2>3
  <2>5. b.s > 0 /\ b.k = 0
    BY <2>1, <2>4, Zenon
  <2> QED BY <2>2, <2>5, ByteIs
<1>7. n >= 3 => Sections!LengthOf(p[a + 2], p[a + 3]) = t - 3
  <2>1. SUFFICES ASSUME n >= 3 PROVE Sections!LengthOf(p[a + 2], p[a + 3]) = t - 3
    OBVIOUS
  <2>2. 2 \in 1 .. n /\ 3 \in 1 .. n /\ 0 + 2 - 1 = 1 /\ 0 + 3 - 1 = 2
    BY <1>4, <2>1
  <2>3. p[a + 2] = [s |-> s, k |-> 1, t |-> t] /\ p[a + 3] = [s |-> s, k |-> 2, t |-> t]
    BY <1>5, <2>2, Zenon
  <2> QED BY <2>3, LengthIs
<1>8. Taken(p, a) = n
  <2>1. CASE a < N - 4
    <3>1. n >= 3
      BY <1>1, <1>3, <1>4, <2>1
    <3>2. Sections!LengthOf(p[a + 2], p[a + 3]) = t - 3
      BY <1>7, <3>1
    <3>3. Taken(p, a) = IF a + (t - 3) < N - 3 THEN (t - 3) + 3 ELSE N - a
      BY <1>1, <2>1, <3>2, TakenFits
    <3> QED BY <1>1, <1>3, <1>4, <3>3
  <2>2. CASE a >= N - 4
    <3>1. Taken(p, a) = N - a
      BY <1>1, <2>2, TakenFits
    <3> QED BY <1>1, <1>3, <1>4, <2>2, <3>1
  <2> QED BY <1>1, <1>3, <2>1, <2>2
<1>9. Sections!Round(State(<<>>, -1, a, q, o, FALSE), p, TRUE) = StartedAt(p, a, o)
  BY <1>6, RoundStarts, Zenon
<1>10. PICK l : l = IF n >= 8 THEN Sections!LengthOf(p[a + 2], p[a + 3]) ELSE -1
  OBVIOUS
<1>11. l = LengthWith(t, n)
  BY <1>3, <1>4, <1>7, <1>10 DEF LengthWith
<1>12. Sections!BytesOf(p, a, n) = Sections!SectionBytes(s, t, 0, n)
  <2>1. PICK from \in Nat : from = 0
    OBVIOUS
  <2>2. a \in Nat /\ n \in Nat /\ a + n <= Payload /\ from + n <= t
    BY <1>1, <1>3, <1>4, <2>1
  <2>3. IsCarried(p, a, s, t, from, n)
    BY <1>2, <2>1, <2>2, Zenon DEF IsCarried
  <2>4. Sections!BytesOf(p, a, n) = Sections!SectionBytes(s, t, from, n)
    BY ONLY <2>3, CarriedIs, Zenon
  <2> QED BY <2>1, <2>4, Zenon
<1>13. StartedAt(p, a, o) = After(Sections!SectionBytes(s, t, 0, n), l, a + n, o)
  BY <1>8, <1>10, <1>12, Zenon DEF StartedAt
<1>14. After(Sections!SectionBytes(s, t, 0, n), l, a + n, o) = AfterPart(s, t, n, a + n, o)
  BY <1>4, <1>11, PartIsKept, Zenon
<1> QED BY <1>2, <1>9, <1>13, <1>14, Zenon

\* A section in step: the bytes that have been sent of it.
LEMMA InStepIsPending ==
  ASSUME NEW s \in 1 .. MaxSections, NEW t \in Totals, NEW n \in 1 .. t - 1
  PROVE  Pending(Sections!SectionBytes(s, t, 0, n), LengthWith(t, n))
<1>1. PICK d, l : d = Sections!SectionBytes(s, t, 0, n) /\ l = LengthWith(t, n)
  OBVIOUS
<1>2. t \in Nat /\ t >= 12 /\ n \in Nat /\ n < t /\ n > 0
  BY TotalIs
<1>3. d \in Seq(TheBytes) /\ Len(d) = n /\ \A i \in 1 .. n : d[i] = [s |-> s, k |-> 0 + i - 1, t |-> t]
  <2>1. HasPart(s, t, 0, n)
    <3>1. 0 \in Nat /\ 0 + n <= t
      BY <1>2
    <3> QED BY <1>2, <3>1, Zenon DEF HasPart
  <2>2. IsPart(d, s, t, 0, n)
    BY <1>1, <2>1, SectionBytesAre, Zenon
  <2> QED BY <2>2, Zenon DEF IsPart
<1>4. l = IF n < 8 THEN -1 ELSE t - 3
  BY <1>1, Zenon DEF LengthWith
<1>5. n >= 5 => Sections!LengthOf(d[2], d[3]) = t - 3
  <2>1. SUFFICES ASSUME n >= 5 PROVE Sections!LengthOf(d[2], d[3]) = t - 3
    OBVIOUS
  <2>2. 2 \in 1 .. n /\ 3 \in 1 .. n /\ 0 + 2 - 1 = 1 /\ 0 + 3 - 1 = 2
    BY <1>2, <2>1
  <2>3. d[2] = [s |-> s, k |-> 1, t |-> t] /\ d[3] = [s |-> s, k |-> 2, t |-> t]
    BY <1>3, <2>2, Zenon
  <2> QED BY <2>3, LengthIs
<1>6. /\ Len(d) > 0 /\ l \in Int
      /\ \/ l = -1 /\ Len(d) < 8 /\ (Len(d) >= 5 => Sections!LengthOf(d[2], d[3]) >= Len(d) - 3)
         \/ l > 0 /\ Len(d) <= l + 3 /\ (Len(d) >= 8 => Len(d) < l + 3)
  BY <1>2, <1>3, <1>4, <1>5
<1> QED BY <1>1, <1>3, <1>6, Zenon DEF Pending

IsRestOf(p, s, t, sentOf, a, q, n) ==
  /\ p \in Seq(TheBytes) /\ Len(p) = Payload /\ s \in 1 .. MaxSections /\ t \in Totals /\ sentOf \in 1 .. t - 1
  /\ a \in 0 .. 1 /\ q \in 0 .. Payload - 1 /\ (q # 0 => a = 1 /\ q = (t - sentOf) + 1)
  /\ n = Share(t - sentOf, Payload - a) /\ Carries(p, a, s, t, sentOf, n)

IsAdded(p, unit, s, t, sentOf, a, q, n, o) ==
  Sections!Round(State(Sections!SectionBytes(s, t, 0, sentOf), LengthWith(t, sentOf), a, q, o, FALSE), p, unit)
    = AfterPart(s, t, sentOf + n, a + n, o)

LEMMA SectionGoesOn ==
  ASSUME NEW p, NEW unit, NEW s, NEW t, NEW sentOf, NEW a, NEW q, NEW n, NEW o, IsRestOf(p, s, t, sentOf, a, q, n)
  PROVE  IsAdded(p, unit, s, t, sentOf, a, q, n, o)
<1> SUFFICES ASSUME p \in Seq(TheBytes), Len(p) = Payload, s \in 1 .. MaxSections, t \in Totals, sentOf \in 1 .. t - 1,
                    a \in 0 .. 1, q \in 0 .. Payload - 1, q # 0 => a = 1 /\ q = (t - sentOf) + 1,
                    n = Share(t - sentOf, Payload - a), Carries(p, a, s, t, sentOf, n)
             PROVE  Sections!Round(State(Sections!SectionBytes(s, t, 0, sentOf), LengthWith(t, sentOf), a, q, o, FALSE),
                                   p, unit)
                      = AfterPart(s, t, sentOf + n, a + n, o)
  BY Zenon DEF IsRestOf, IsAdded
<1>1. PICK N \in Nat : N = Payload /\ N >= 16
  BY SizesAre
<1>2. n = Share(t - sentOf, Payload - a)
  OBVIOUS
<1>3. PICK d, l : d = Sections!SectionBytes(s, t, 0, sentOf) /\ l = LengthWith(t, sentOf)
  OBVIOUS
<1>4. t \in Nat /\ t >= 12 /\ sentOf \in Nat /\ sentOf > 0 /\ sentOf < t /\ a \in Nat
  BY TotalIs
<1>5. n = IF t - sentOf <= N - a THEN t - sentOf ELSE N - a
  BY <1>1, <1>2, Zenon DEF Share
<1>6. n \in Nat /\ n > 0 /\ a + n <= N /\ sentOf + n <= t /\ sentOf + n >= 12
  BY <1>1, <1>4, <1>5
<1>7. \A i \in 1 .. n : p[a + i] = [s |-> s, k |-> sentOf + i - 1, t |-> t]
  BY <1>2, Zenon DEF Carries
<1>8. d \in Seq(TheBytes) /\ Len(d) = sentOf /\ \A i \in 1 .. sentOf : d[i] = [s |-> s, k |-> 0 + i - 1, t |-> t]
  <2>1. HasPart(s, t, 0, sentOf)
    <3>1. 0 \in Nat /\ 0 + sentOf <= t
      BY <1>4
    <3> QED BY <1>4, <3>1, Zenon DEF HasPart
  <2>2. IsPart(d, s, t, 0, sentOf)
    BY <1>3, <2>1, SectionBytesAre, Zenon
  <2> QED BY <2>2, Zenon DEF IsPart
<1>9. Pending(d, l)
  BY <1>3, InStepIsPending, Zenon
<1>10. Stands(d, a, q)
  <2>1. a \in 0 .. Payload - 1 /\ a <= 1
    BY <1>1
  <2> QED BY <2>1, Zenon DEF Stands
<1>11. PICK known : known = Known(d, l, p, a)
  OBVIOUS
<1>12. known = t - 3
  <2>1. CASE sentOf >= 8
    <3>1. l = t - 3 /\ l > 0
      BY <1>3, <1>4, <2>1 DEF LengthWith
    <3>2. l > 0 => known = l
      BY <1>9, <1>10, <1>11, CalcIs
    <3> QED BY <3>1, <3>2
  <2>2. CASE sentOf < 8
    <3>1. l = -1
      BY <1>3, <1>4, <2>2 DEF LengthWith
    <3>2. PICK section : section = [data |-> d, length |-> l]
      OBVIOUS
    <3>3. section.data = d /\ section.length = l
      BY ONLY <3>2
    <3>4. PICK m : m = Len(section.data)
      OBVIOUS
    <3>5. m = sentOf
      BY <1>8, <3>3, <3>4
    <3>6. known = IF section.length # -1 THEN section.length
                  ELSE CASE m = 1 -> Sections!LengthOf(p[a + 1], p[a + 2])
                         [] m = 2 -> Sections!LengthOf(section.data[2], p[a + 1])
                         [] OTHER -> Sections!LengthOf(section.data[2], section.data[3])
      <4>1. known = Sections!CalcSectionLength(section, p, a)
        BY <1>11, <3>2, Zenon DEF Known
      <4> QED BY ONLY <3>4, <4>1, SMT DEF Sections!CalcSectionLength, Sections!Unknown
    <3>7. CASE sentOf = 1
      <4>1. known = Sections!LengthOf(p[a + 1], p[a + 2])
        BY ONLY <3>1, <3>3, <3>5, <3>6, <3>7, SMT
      <4>2. 1 \in 1 .. n /\ 2 \in 1 .. n /\ sentOf + 1 - 1 = 1 /\ sentOf + 2 - 1 = 2
        BY <1>1, <1>4, <1>5, <3>7
      <4>3. p[a + 1] = [s |-> s, k |-> 1, t |-> t] /\ p[a + 2] = [s |-> s, k |-> 2, t |-> t]
        BY <1>7, <4>2, Zenon
      <4> QED BY <4>1, <4>3, LengthIs
    <3>8. CASE sentOf = 2
      <4>1. known = Sections!LengthOf(d[2], p[a + 1])
        BY ONLY <3>1, <3>3, <3>5, <3>6, <3>8, SMT
      <4>2. 1 \in 1 .. n /\ 2 \in 1 .. sentOf /\ sentOf + 1 - 1 = 2 /\ 0 + 2 - 1 = 1
        BY <1>6, <3>8
      <4>3. d[2] = [s |-> s, k |-> 1, t |-> t] /\ p[a + 1] = [s |-> s, k |-> 2, t |-> t]
        BY <1>7, <1>8, <4>2, Zenon
      <4> QED BY <4>1, <4>3, LengthIs
    <3>9. CASE sentOf # 1 /\ sentOf # 2
      <4>1. known = Sections!LengthOf(d[2], d[3])
        BY ONLY <3>1, <3>3, <3>5, <3>6, <3>9, SMT
      <4>2. 2 \in 1 .. sentOf /\ 3 \in 1 .. sentOf /\ 0 + 2 - 1 = 1 /\ 0 + 3 - 1 = 2
        BY <1>4, <3>9
      <4>3. d[2] = [s |-> s, k |-> 1, t |-> t] /\ d[3] = [s |-> s, k |-> 2, t |-> t]
        BY <1>8, <4>2, Zenon
      <4> QED BY <4>1, <4>3, LengthIs
    <3> QED BY <3>7, <3>8, <3>9
  <2>3. sentOf >= 8 \/ sentOf < 8
    BY <1>4
  <2> QED BY <2>1, <2>2, <2>3, Zenon
<1>13. PICK next : next = Sections!Round(State(d, l, a, q, o, FALSE), p, unit)
  OBVIOUS
<1>14. Continues(p, d, a, q, o, known, next)
  BY <1>9, <1>10, <1>11, <1>13, RoundContinues, Zenon
<1>15. PICK m : m = Amount(a, known - Len(d))
  OBVIOUS
<1>16. m = n
  <2>1. PICK D : D = Len(d)
    OBVIOUS
  <2>2. D = sentOf
    BY <1>8, <2>1
  <2>3. m = IF a + (known - D) < Payload - 3 THEN (known - D) + 3 ELSE Payload - a
    BY <1>15, <2>1, Zenon DEF Amount
  <2> QED BY ONLY <1>1, <1>4, <1>5, <1>12, <2>2, <2>3
<1>17. next = After(JoinedWith(p, d, a, n), known, a + n, o)
  <2>1. known > 0 /\ ~(q # 0 /\ a + (known - Len(d)) > q)
    BY <1>1, <1>4, <1>8, <1>12
  <2> QED BY <1>14, <1>15, <1>16, <2>1, Zenon DEF Continues, JoinedWith
<1>18. IsCarried(p, a, s, t, sentOf, n)
  BY <1>1, <1>2, <1>4, <1>6, Zenon DEF IsCarried
<1>19. JoinedWith(p, d, a, n) = Sections!SectionBytes(s, t, 0, sentOf + n)
  <2>1. GrowsBy(p, a, s, t, sentOf, n)
    BY ONLY <1>18, CarriedOn, Zenon
  <2> QED BY <1>3, <2>1, Zenon DEF GrowsBy
<1>20. PICK m2 \in 1 .. t : m2 = sentOf + n
  <2>1. sentOf + n \in 1 .. t
    BY <1>4, <1>6
  <2> QED BY <2>1, Zenon
<1>21. known = LengthWith(t, m2)
  BY <1>6, <1>12, <1>20, TotalIs DEF LengthWith
<1>22. PICK b : b = a + n
  OBVIOUS
<1>23. After(Sections!SectionBytes(s, t, 0, m2), LengthWith(t, m2), b, o) = AfterPart(s, t, m2, b, o)
  BY ONLY s \in 1 .. MaxSections, t \in Totals, m2 \in 1 .. t, PartIsKept, Zenon
<1>24. next = AfterPart(s, t, m2, b, o)
  BY ONLY <1>17, <1>19, <1>20, <1>21, <1>22, <1>23, Zenon
<1> QED BY ONLY <1>2, <1>3, <1>13, <1>20, <1>22, <1>24, Zenon

\* The end of a packet, or its stuffing, after a section.
Leaves(decoded, s, t, n, o) ==
  IF n = t THEN GivesOut(decoded, <<>>, -1, Append(o, s))
  ELSE GivesOut(decoded, Sections!SectionBytes(s, t, 0, n), LengthWith(t, n), o)

LEMMA PartEnds ==
  ASSUME NEW section, NEW p, NEW unit, NEW k \in 0 .. MaxLoops, NEW s, NEW t, NEW n, NEW a \in Nat, NEW o,
         Sections!Rounds(section, p, unit)[k] = AfterPart(s, t, n, a, o),
         n = t /\ a < Payload => Skips(p, unit, a), n # t => a >= Payload
  PROVE  Leaves(Sections!Decoded(section, p, unit), s, t, n, o)
<1>1. PICK decoded : decoded = Sections!Decoded(section, p, unit)
  OBVIOUS
<1>2. a < Payload \/ a >= Payload
  BY SizesAre
<1>3. CASE n = t /\ a < Payload
  <2>1. Sections!Rounds(section, p, unit)[k] = State(<<>>, -1, a, 0, Append(o, s), FALSE)
    BY <1>3, Zenon DEF AfterPart
  <2>2. GivesOut(decoded, <<>>, -1, Append(o, s))
    BY <1>1, <1>3, <2>1, EndsSkipping, Zenon
  <2> QED BY <1>1, <1>3, <2>2, Zenon DEF Leaves
<1>4. CASE n = t /\ a >= Payload
  <2>1. Sections!Rounds(section, p, unit)[k] = State(<<>>, -1, a, 0, Append(o, s), FALSE)
    BY <1>4, Zenon DEF AfterPart
  <2>2. GivesOut(decoded, <<>>, -1, Append(o, s))
    BY <1>1, <1>4, <2>1, EndsWithPacket, Zenon
  <2> QED BY <1>1, <1>4, <2>2, Zenon DEF Leaves
<1>5. CASE n # t
  <2>1. Sections!Rounds(section, p, unit)[k]
          = State(Sections!SectionBytes(s, t, 0, n), LengthWith(t, n), a, 0, o, FALSE)
    BY <1>5, Zenon DEF AfterPart
  <2>2. GivesOut(decoded, Sections!SectionBytes(s, t, 0, n), LengthWith(t, n), o)
    BY <1>1, <1>5, <2>1, EndsWithPacket, Zenon
  <2> QED BY <1>1, <1>5, <2>2, Zenon DEF Leaves
<1> QED BY <1>2, <1>3, <1>4, <1>5, Zenon

\* What has been sent.
SentInv ==
  /\ totals \in Seq(Totals) /\ Len(totals) <= MaxSections /\ sent \in Nat
  /\ Len(totals) = 0 => sent = 0
  /\ Len(totals) > 0 => sent \in 1 .. totals[Len(totals)]

LEMMA LeftIs ==
  ASSUME SentInv
  PROVE  /\ Len(totals) \in Nat /\ Len(totals) <= MaxSections /\ Sections!Left \in Nat /\ sent \in Nat
         /\ Len(totals) = 0 => Sections!Left = 0
         /\ Len(totals) > 0 =>
              /\ totals[Len(totals)] \in Totals /\ Sections!Left = totals[Len(totals)] - sent
              /\ Len(totals) \in 1 .. MaxSections /\ sent \in 1 .. totals[Len(totals)]
<1>1. PICK T \in Nat : T = Len(totals) /\ totals \in Seq(Totals) /\ T <= MaxSections
  BY DEF SentInv
<1>2. CASE T = 0
  <2>1. totals = <<>>
    <3>1. Len(totals) = 0 /\ totals \in Seq(Totals)
      BY <1>1, <1>2
    <3> QED BY <3>1, EmptySeq
  <2>2. Sections!Left = 0
    BY <2>1, Zenon DEF Sections!Left
  <2> QED BY <1>1, <1>2, <2>2 DEF SentInv
<1>3. CASE T > 0
  <2>1. totals # <<>> /\ T \in 1 .. T
    BY <1>1, <1>3
  <2>2. Sections!Left = totals[Len(totals)] - sent
    BY <2>1, Zenon DEF Sections!Left
  <2>3. PICK t \in Totals : t = totals[Len(totals)]
    BY <1>1, <2>1
  <2>4. t \in Nat /\ sent \in 1 .. t
    BY <1>1, <1>3, <2>3, TotalIs DEF SentInv
  <2>5. T \in 1 .. MaxSections
    BY <1>1, <1>3, SizesAre
  <2>6. t - sent \in Nat /\ sent \in Nat
    BY <2>4
  <2> QED BY <1>1, <1>3, <2>2, <2>3, <2>4, <2>5, <2>6
<1> QED BY <1>1, <1>2, <1>3

\* One sequence after another.
IsBehind(z, x, y, m, n) ==
  z \in Seq(TheBytes) /\ Len(z) = m + n /\ \A i \in 1 .. m + n : z[i] = IF i <= m THEN x[i] ELSE y[i - m]

LEMMA BehindIs ==
  ASSUME NEW x \in Seq(TheBytes), NEW y \in Seq(TheBytes)
  PROVE  IsBehind(x \o y, x, y, Len(x), Len(y))
BY ConcatProperties, Zenon DEF IsBehind

LaidOut(p, x1, x2, x3, x4) ==
  LET n1 == Len(x1)
      n2 == n1 + Len(x2)
      n3 == n2 + Len(x3)
      n4 == n3 + Len(x4)
  IN  \A j \in 1 .. Payload :
        p[j] = IF j <= n1 THEN x1[j] ELSE IF j <= n2 THEN x2[j - n1] ELSE IF j <= n3 THEN x3[j - n2]
               ELSE IF j <= n4 THEN x4[j - n3] ELSE [s |-> -1, k |-> 255, t |-> 0]

LEMMA StuffingIs ==
  ASSUME NEW n \in Nat
  PROVE  /\ Sections!Stuffing(n) \in Seq(TheBytes) /\ Len(Sections!Stuffing(n)) = n
         /\ \A i \in 1 .. n : Sections!Stuffing(n)[i] = [s |-> -1, k |-> 255, t |-> 0]
<1>1. PICK b : b = [s |-> -1, k |-> 255, t |-> 0]
  OBVIOUS
<1>2. b \in [s : Int, k : Nat, t : Int] /\ ~(b.s > 0)
  BY ONLY <1>1
<1>3. b \in TheBytes
  BY <1>2, Zenon DEF TheBytes
<1>4. PICK q : q = [i \in 1 .. n |-> b]
  OBVIOUS
<1>5. q \in Seq(TheBytes) /\ Len(q) = n
  BY ONLY <1>3, <1>4, n \in Nat, SMT
<1>6. \A i \in 1 .. n : q[i] = b
  BY <1>4, Zenon
<1>7. Sections!Stuffing(n) = q
  BY <1>1, <1>4, Zenon DEF Sections!Stuffing
<1> QED BY <1>1, <1>5, <1>6, <1>7, Zenon

LEMMA PacketIsLaidOut ==
  ASSUME NEW x1 \in Seq(TheBytes), NEW x2 \in Seq(TheBytes), NEW x3 \in Seq(TheBytes), NEW x4 \in Seq(TheBytes)
  PROVE  LET p == SubSeq((x1 \o x2 \o x3 \o x4) \o Sections!Stuffing(Payload), 1, Payload)
         IN  p \in Seq(TheBytes) /\ Len(p) = Payload /\ LaidOut(p, x1, x2, x3, x4)
<1>1. PICK N \in Nat : N = Payload
  BY SizesAre
<1>2. PICK n1, n2, n3, n4 : n1 = Len(x1) /\ n2 = Len(x2) /\ n3 = Len(x3) /\ n4 = Len(x4)
  OBVIOUS
<1>3. n1 \in Nat /\ n2 \in Nat /\ n3 \in Nat /\ n4 \in Nat
  BY <1>2
<1>4. PICK u : u = [s |-> -1, k |-> 255, t |-> 0]
  OBVIOUS
<1>5. PICK y : y = Sections!Stuffing(Payload)
  OBVIOUS
<1>6. y \in Seq(TheBytes) /\ Len(y) = N /\ \A i \in 1 .. N : y[i] = u
  BY <1>1, <1>4, <1>5, StuffingIs, Zenon
<1>7. PICK z2 : z2 = x1 \o x2
  OBVIOUS
<1>8. /\ z2 \in Seq(TheBytes) /\ Len(z2) = n1 + n2
      /\ \A i \in 1 .. n1 + n2 : z2[i] = IF i <= n1 THEN x1[i] ELSE x2[i - n1]
  <2>1. IsBehind(z2, x1, x2, Len(x1), Len(x2))
    BY <1>2, <1>3, <1>7, BehindIs, Zenon
  <2>2. Len(x1) = n1 /\ Len(x2) = n2
    BY <1>2, <1>3, <1>7
  <2> QED BY <2>1, <2>2, Zenon DEF IsBehind
<1>9. PICK m2 \in Nat : m2 = n1 + n2
  BY <1>3
<1>10. PICK z3 : z3 = z2 \o x3
  OBVIOUS
<1>11. /\ z3 \in Seq(TheBytes) /\ Len(z3) = m2 + n3
       /\ \A i \in 1 .. m2 + n3 : z3[i] = IF i <= m2 THEN z2[i] ELSE x3[i - m2]
  <2>1. IsBehind(z3, z2, x3, Len(z2), Len(x3))
    BY <1>2, <1>3, <1>8, <1>9, <1>10, BehindIs, Zenon
  <2>2. Len(z2) = m2 /\ Len(x3) = n3
    BY <1>2, <1>3, <1>8, <1>9, <1>10
  <2> QED BY <2>1, <2>2, Zenon DEF IsBehind
<1>12. PICK m3 \in Nat : m3 = m2 + n3
  BY <1>3
<1>13. PICK z4 : z4 = z3 \o x4
  OBVIOUS
<1>14. /\ z4 \in Seq(TheBytes) /\ Len(z4) = m3 + n4
       /\ \A i \in 1 .. m3 + n4 : z4[i] = IF i <= m3 THEN z3[i] ELSE x4[i - m3]
  <2>1. IsBehind(z4, z3, x4, Len(z3), Len(x4))
    BY <1>2, <1>3, <1>11, <1>12, <1>13, BehindIs, Zenon
  <2>2. Len(z3) = m3 /\ Len(x4) = n4
    BY <1>2, <1>3, <1>11, <1>12, <1>13
  <2> QED BY <2>1, <2>2, Zenon DEF IsBehind
<1>15. PICK m4 \in Nat : m4 = m3 + n4
  BY <1>3
<1>16. PICK z5 : z5 = z4 \o y
  OBVIOUS
<1>17. /\ z5 \in Seq(TheBytes) /\ Len(z5) = m4 + N
       /\ \A i \in 1 .. m4 + N : z5[i] = IF i <= m4 THEN z4[i] ELSE y[i - m4]
  <2>1. IsBehind(z5, z4, y, Len(z4), Len(y))
    BY <1>6, <1>14, <1>15, <1>16, BehindIs, Zenon
  <2>2. Len(z4) = m4 /\ Len(y) = N
    BY <1>6, <1>14, <1>15, <1>16
  <2> QED BY <2>1, <2>2, Zenon DEF IsBehind
<1>18. PICK p : p = SubSeq(z5, 1, N)
  OBVIOUS
<1>19. p \in Seq(TheBytes) /\ Len(p) = N /\ \A i \in 1 .. N : p[i] = z5[i]
  BY ONLY <1>17, <1>18, m4 \in Nat, N \in Nat, SMT
<1>20. ASSUME NEW j \in 1 .. N
       PROVE  p[j] = IF j <= n1 THEN x1[j] ELSE IF j <= n1 + n2 THEN x2[j - n1]
                     ELSE IF j <= n1 + n2 + n3 THEN x3[j - (n1 + n2)]
                     ELSE IF j <= n1 + n2 + n3 + n4 THEN x4[j - (n1 + n2 + n3)] ELSE u
  <2>1. p[j] = IF j <= m4 THEN z4[j] ELSE y[j - m4]
    BY <1>17, <1>19
  <2>2. j > m4 => y[j - m4] = u
    BY <1>6
  <2>3. j <= m4 => z4[j] = IF j <= m3 THEN z3[j] ELSE x4[j - m3]
    BY <1>3, <1>14, <1>15
  <2>4. j <= m3 => z3[j] = IF j <= m2 THEN z2[j] ELSE x3[j - m2]
    BY <1>3, <1>11, <1>12
  <2>5. j <= m2 => z2[j] = IF j <= n1 THEN x1[j] ELSE x2[j - n1]
    BY <1>3, <1>8, <1>9
  <2> QED BY ONLY <1>3, <1>9, <1>12, <1>15, <2>1, <2>2, <2>3, <2>4, <2>5, j \in 1 .. N, N \in Nat, SMT
<1>21. LaidOut(p, x1, x2, x3, x4)
  BY <1>1, <1>2, <1>4, <1>20, Zenon DEF LaidOut
<1>22. p = SubSeq((x1 \o x2 \o x3 \o x4) \o Sections!Stuffing(Payload), 1, Payload)
  BY <1>1, <1>5, <1>7, <1>10, <1>13, <1>16, <1>18, Zenon
<1> QED BY <1>1, <1>19, <1>21, <1>22, Zenon

\* The packets that may come next: what is left of the last section, and what begins behind it.
Ready(new) ==
  /\ new \in Sections!News
  /\ IF new = <<>> THEN Sections!Left > 0
     ELSE Sections!Before(new) < Payload /\ Len(totals) + Len(new) <= MaxSections

HasShape(new, c, n1, n2) ==
  \/ new = <<>> /\ c = 0 /\ n1 = 0 /\ n2 = 0 /\ Sections!Left > 0
  \/ /\ n1 \in Totals /\ new = <<n1>> /\ c = 1 /\ n2 = 0
     /\ 1 + Sections!Left < Payload /\ Len(totals) + 1 <= MaxSections
  \/ /\ n1 \in Totals /\ n2 \in Totals /\ new = <<n1, n2>> /\ c = 1
     /\ 1 + Sections!Left + n1 < Payload /\ Len(totals) + 2 <= MaxSections

LEMMA NewsAre ==
  ASSUME SentInv, NEW new, Ready(new)
  PROVE  \E c, n1, n2 : HasShape(new, c, n1, n2)
<1>1. CASE new = <<>>
  <2>1. HasShape(new, 0, 0, 0)
    BY <1>1, Zenon DEF HasShape, Ready
  <2> QED BY <2>1, Zenon
<1>2. CASE \E n1 \in Totals : new = <<n1>>
  <2>1. PICK n1 \in Totals : new = <<n1>>
    BY <1>2
  <2>2. new # <<>> /\ Len(new) = 1
    BY ONLY <2>1
  <2>3. Sections!Before(new) < Payload /\ Len(totals) + Len(new) <= MaxSections
    BY <2>2, Zenon DEF Ready
  <2>4. Sections!Before(new) = 1 + Sections!Left + 0
    BY <2>2 DEF Sections!Before
  <2>5. 1 + Sections!Left < Payload /\ Len(totals) + 1 <= MaxSections
    BY <2>2, <2>3, <2>4, LeftIs
  <2>6. HasShape(new, 1, n1, 0)
    BY <2>1, <2>5, Zenon DEF HasShape
  <2> QED BY <2>6, Zenon
<1>3. CASE new \in Totals \X Totals
  <2>1. PICK n1 \in Totals, n2 \in Totals : new = <<n1, n2>>
    BY <1>3
  <2>2. new # <<>> /\ Len(new) = 2 /\ new[1] = n1
    BY ONLY <2>1
  <2>3. Sections!Before(new) < Payload /\ Len(totals) + Len(new) <= MaxSections
    BY <2>2, Zenon DEF Ready
  <2>4. Sections!Before(new) = 1 + Sections!Left + n1
    BY <2>2 DEF Sections!Before
  <2>5. 1 + Sections!Left + n1 < Payload /\ Len(totals) + 2 <= MaxSections
    BY <2>2, <2>3, <2>4
  <2>6. HasShape(new, 1, n1, n2)
    BY <2>1, <2>5, Zenon DEF HasShape
  <2> QED BY <2>6, Zenon
<1>4. new \in {<<>>} \/ new \in {<<n>> : n \in Totals} \/ new \in Totals \X Totals
  BY Zenon DEF Ready, Sections!News
<1> QED BY <1>1, <1>2, <1>3, <1>4, Zenon

\* Its bytes: the pointer field, the rest from byte k on, the one and the other new section.
IsPacket(p, T, t, k, c, L, n1, n2) ==
  /\ p \in Seq(TheBytes) /\ Len(p) = Payload
  /\ \A j \in 1 .. Payload :
       p[j] = IF j <= c THEN [s |-> 0, k |-> L, t |-> 0]
              ELSE IF j <= c + L THEN [s |-> T, k |-> k + (j - c) - 1, t |-> t]
              ELSE IF j <= c + L + n1 THEN [s |-> T + 1, k |-> j - (c + L) - 1, t |-> n1]
              ELSE IF j <= c + L + n1 + n2 THEN [s |-> T + 2, k |-> j - (c + L + n1) - 1, t |-> n2]
              ELSE [s |-> -1, k |-> 255, t |-> 0]

\* Four parts make a packet.
LEMMA PartsMakeIt ==
  ASSUME NEW x1, NEW x2, NEW x3, NEW x4, NEW T \in Nat, NEW t, NEW k \in Nat, NEW c \in Nat, NEW L \in Nat,
         NEW n1 \in Nat, NEW n2 \in Nat,
         x1 \in Seq(TheBytes), Len(x1) = c, \A i \in 1 .. c : x1[i] = [s |-> 0, k |-> L, t |-> 0],
         IsPart(x2, T, t, k, L), IsPart(x3, T + 1, n1, 0, n1), IsPart(x4, T + 2, n2, 0, n2)
  PROVE  IsPacket(SubSeq((x1 \o x2 \o x3 \o x4) \o Sections!Stuffing(Payload), 1, Payload), T, t, k, c, L, n1, n2)
<1>1. PICK p : p = SubSeq((x1 \o x2 \o x3 \o x4) \o Sections!Stuffing(Payload), 1, Payload)
  OBVIOUS
<1>2. x2 \in Seq(TheBytes) /\ x3 \in Seq(TheBytes) /\ x4 \in Seq(TheBytes)
  BY Zenon DEF IsPart
<1>3. p \in Seq(TheBytes) /\ Len(p) = Payload /\ LaidOut(p, x1, x2, x3, x4)
  BY <1>1, <1>2, PacketIsLaidOut, Zenon
<1>4. PICK N \in Nat : N = Payload
  BY SizesAre
<1>5. PICK u : u = [s |-> -1, k |-> 255, t |-> 0]
  OBVIOUS
<1>6. ASSUME NEW j \in 1 .. N
      PROVE  p[j] = IF j <= c THEN x1[j] ELSE IF j <= c + L THEN x2[j - c] ELSE IF j <= c + L + n1 THEN x3[j - (c + L)]
                    ELSE IF j <= c + L + n1 + n2 THEN x4[j - (c + L + n1)] ELSE u
  <2>1. Len(x2) = L /\ Len(x3) = n1 /\ Len(x4) = n2
    BY Zenon DEF IsPart
  <2> QED BY <1>3, <1>4, <1>5, <2>1, Zenon DEF LaidOut
<1>7. \A i \in 1 .. L : x2[i] = [s |-> T, k |-> k + i - 1, t |-> t]
  BY Zenon DEF IsPart
<1>8. \A i \in 1 .. n1 : x3[i] = [s |-> T + 1, k |-> 0 + i - 1, t |-> n1]
  BY Zenon DEF IsPart
<1>9. \A i \in 1 .. n2 : x4[i] = [s |-> T + 2, k |-> 0 + i - 1, t |-> n2]
  BY Zenon DEF IsPart
<1>10. ASSUME NEW j \in 1 .. N
       PROVE  p[j] = IF j <= c THEN [s |-> 0, k |-> L, t |-> 0]
              ELSE IF j <= c + L THEN [s |-> T, k |-> k + (j - c) - 1, t |-> t]
              ELSE IF j <= c + L + n1 THEN [s |-> T + 1, k |-> j - (c + L) - 1, t |-> n1]
              ELSE IF j <= c + L + n1 + n2 THEN [s |-> T + 2, k |-> j - (c + L + n1) - 1, t |-> n2]
              ELSE u
  <2>1. CASE j <= c
    BY <1>6, <2>1
  <2>2. CASE j > c /\ j <= c + L
    <3>1. p[j] = x2[j - c] /\ j - c \in 1 .. L
      BY <1>6, <2>2
    <3> QED BY <1>7, <2>2, <3>1
  <2>3. CASE j > c + L /\ j <= c + L + n1
    <3>1. p[j] = x3[j - (c + L)] /\ j - (c + L) \in 1 .. n1
      BY <1>6, <2>3
    <3>2. 0 + (j - (c + L)) - 1 = j - (c + L) - 1
      OBVIOUS
    <3>3. p[j] = [s |-> T + 1, k |-> j - (c + L) - 1, t |-> n1]
      BY <1>8, <3>1, <3>2, Zenon
    <3> QED BY <2>3, <3>3
  <2>4. CASE j > c + L + n1 /\ j <= c + L + n1 + n2
    <3>1. p[j] = x4[j - (c + L + n1)] /\ j - (c + L + n1) \in 1 .. n2
      BY <1>6, <2>4
    <3>2. 0 + (j - (c + L + n1)) - 1 = j - (c + L + n1) - 1
      OBVIOUS
    <3>3. p[j] = [s |-> T + 2, k |-> j - (c + L + n1) - 1, t |-> n2]
      BY <1>9, <3>1, <3>2, Zenon
    <3> QED BY <2>4, <3>3
  <2>5. CASE j > c + L + n1 + n2
    BY <1>6, <2>5
  <2> QED BY <2>1, <2>2, <2>3, <2>4, <2>5
<1> QED BY <1>1, <1>3, <1>4, <1>5, <1>10, Zenon DEF IsPacket

LEMMA PacketIs ==
  ASSUME SentInv, NEW new, NEW c, NEW n1, NEW n2, HasShape(new, c, n1, n2)
  PROVE  IsPacket(Sections!PacketOf(new), Len(totals), totals[Len(totals)], sent, c, Sections!Left, n1, n2)
<1>1. PICK T \in Nat, L \in Nat : T = Len(totals) /\ L = Sections!Left
  BY LeftIs
<1>2. PICK t : t = totals[Len(totals)]
  OBVIOUS
<1>3. PICK x1, x2, x3, x4 :
        /\ x1 = IF new = <<>> THEN <<>> ELSE Sections!PointerField(Sections!Left)
        /\ x2 = Sections!SectionBytes(Len(totals), totals[Len(totals)], sent, Sections!Left)
        /\ x3 = IF 1 > Len(new) THEN <<>> ELSE Sections!SectionBytes(Len(totals) + 1, new[1], 0, new[1])
        /\ x4 = IF 2 > Len(new) THEN <<>> ELSE Sections!SectionBytes(Len(totals) + 2, new[2], 0, new[2])
  OBVIOUS
<1>4. Sections!PacketOf(new) = SubSeq((x1 \o x2 \o x3 \o x4) \o Sections!Stuffing(Payload), 1, Payload)
  BY <1>3, Zenon DEF Sections!PacketOf
<1>5. sent \in Nat /\ c \in Nat /\ n1 \in Nat /\ n2 \in Nat
  BY LeftIs, TotalIs DEF HasShape
<1>6. IsPart(x2, T, t, sent, L)
  <2>1. L > 0 => T \in 1 .. MaxSections /\ t \in Totals /\ sent + L <= t
    <3>1. CASE T = 0
      BY <1>1, <3>1, LeftIs
    <3>2. CASE T > 0
      <4>1. t \in Totals /\ L = t - sent /\ T \in 1 .. MaxSections
        BY <1>1, <1>2, <3>2, LeftIs
      <4>2. t \in Nat
        BY <4>1, TotalIs
      <4> QED BY <1>5, <4>1, <4>2
    <3> QED BY <3>1, <3>2
  <2>2. HasPart(T, t, sent, L)
    BY <1>5, <2>1 DEF HasPart
  <2>3. IsPart(Sections!SectionBytes(T, t, sent, L), T, t, sent, L)
    BY <2>2, SectionBytesAre, Zenon
  <2> QED BY <1>1, <1>2, <1>3, <2>3, Zenon
<1>7. x1 \in Seq(TheBytes) /\ Len(x1) = c /\ \A i \in 1 .. c : x1[i] = [s |-> 0, k |-> L, t |-> 0]
  <2>1. CASE new = <<>>
    <3>1. c = 0
      BY <2>1 DEF HasShape
    <3>2. x1 = <<>>
      BY <1>3, <2>1
    <3> QED BY <3>1, <3>2
  <2>2. CASE new # <<>>
    <3>1. c = 1
      BY <2>2 DEF HasShape
    <3>2. PICK b : b = [s |-> 0, k |-> L, t |-> 0]
      OBVIOUS
    <3>3. b \in [s : Int, k : Nat, t : Int] /\ ~(b.s > 0)
      BY <3>2
    <3>4. b \in TheBytes
      BY <3>3, Zenon DEF TheBytes
    <3>5. x1 = <<b>>
      BY <1>1, <1>3, <2>2, <3>2, Zenon DEF Sections!PointerField
    <3>6. x1 \in Seq(TheBytes) /\ Len(x1) = 1 /\ x1[1] = b
      BY ONLY <3>4, <3>5
    <3> QED BY <3>1, <3>2, <3>6
  <2> QED BY <2>1, <2>2
<1>8. \/ new = <<>> /\ n1 = 0 /\ n2 = 0
      \/ n1 \in Totals /\ new = <<n1>> /\ n2 = 0 /\ T + 1 \in 1 .. MaxSections
      \/ n1 \in Totals /\ n2 \in Totals /\ new = <<n1, n2>> /\ T + 1 \in 1 .. MaxSections /\ T + 2 \in 1 .. MaxSections
  BY <1>1, SizesAre DEF HasShape
<1>9. IsPart(<<>>, T + 1, 0, 0, 0) /\ IsPart(<<>>, T + 2, 0, 0, 0)
  BY DEF IsPart
<1>10. IsPart(x3, T + 1, n1, 0, n1)
  <2>1. CASE Len(new) = 0
    <3>1. x3 = <<>> /\ n1 = 0
      BY <1>3, <1>8, <2>1
    <3> QED BY <1>9, <3>1, Zenon
  <2>2. CASE Len(new) # 0
    <3>1. n1 \in Totals /\ new[1] = n1 /\ T + 1 \in 1 .. MaxSections /\ ~(1 > Len(new))
      BY <1>8, <2>2
    <3>2. x3 = Sections!SectionBytes(T + 1, n1, 0, n1)
      BY <1>1, <1>3, <3>1, Zenon
    <3>3. HasPart(T + 1, n1, 0, n1)
      BY <3>1, TotalIs DEF HasPart
    <3>4. IsPart(Sections!SectionBytes(T + 1, n1, 0, n1), T + 1, n1, 0, n1)
      BY <3>3, SectionBytesAre
    <3> QED BY <3>2, <3>4, Zenon
  <2> QED BY <2>1, <2>2
<1>11. IsPart(x4, T + 2, n2, 0, n2)
  <2>1. CASE Len(new) # 2
    <3>1. x4 = <<>> /\ n2 = 0
      BY <1>3, <1>8, <2>1
    <3> QED BY <1>9, <3>1, Zenon
  <2>2. CASE Len(new) = 2
    <3>1. n2 \in Totals /\ new[2] = n2 /\ T + 2 \in 1 .. MaxSections /\ ~(2 > Len(new))
      <4>1. new # <<>> /\ ~(new = <<n1>>)
        BY ONLY <2>2
      <4>2. n2 \in Totals /\ new = <<n1, n2>> /\ T + 2 \in 1 .. MaxSections
        BY ONLY <1>8, <4>1, Zenon
      <4> QED BY ONLY <4>2
    <3>2. x4 = Sections!SectionBytes(T + 2, n2, 0, n2)
      BY <1>1, <1>3, <3>1, Zenon
    <3>3. HasPart(T + 2, n2, 0, n2)
      BY <3>1, TotalIs DEF HasPart
    <3>4. IsPart(Sections!SectionBytes(T + 2, n2, 0, n2), T + 2, n2, 0, n2)
      BY <3>3, SectionBytesAre
    <3> QED BY <3>2, <3>4, Zenon
  <2> QED BY <2>1, <2>2
<1>12. IsPacket(SubSeq((x1 \o x2 \o x3 \o x4) \o Sections!Stuffing(Payload), 1, Payload), T, t, sent, c, L, n1, n2)
  BY <1>5, <1>6, <1>7, <1>10, <1>11, PartsMakeIt
<1> QED BY <1>1, <1>2, <1>4, <1>12, Zenon

\* The sizes of the parts fit together.
HasRoom(T, t, k, c, L, n1, n2) ==
  /\ T \in Nat /\ k \in Nat /\ c \in 0 .. 1 /\ L \in Nat /\ n1 \in Nat /\ n2 \in Nat
  /\ L > 0 => t \in Nat /\ t = k + L /\ T > 0

\* The sections in it.
CarriesAll(p, T, t, k, c, L, n1, n2) ==
  /\ Carries(p, c, T, t, k, Share(L, Payload - c))
  /\ Carries(p, c + L, T + 1, n1, 0, Share(n1, Payload - (c + L)))
  /\ Carries(p, c + L + n1, T + 2, n2, 0, Share(n2, Payload - (c + L + n1)))

LEMMA PacketCarries ==
  ASSUME NEW p, NEW T, NEW t, NEW k, NEW c, NEW L, NEW n1, NEW n2,
         IsPacket(p, T, t, k, c, L, n1, n2), HasRoom(T, t, k, c, L, n1, n2)
  PROVE  CarriesAll(p, T, t, k, c, L, n1, n2)
<1>1. PICK N \in Nat : N = Payload
  BY SizesAre
<1>2. /\ T \in Nat /\ k \in Nat /\ c \in Nat /\ L \in Nat /\ n1 \in Nat /\ n2 \in Nat
  BY DEF HasRoom
<1>3. ASSUME NEW j \in 1 .. N
      PROVE  p[j] = IF j <= c THEN [s |-> 0, k |-> L, t |-> 0]
              ELSE IF j <= c + L THEN [s |-> T, k |-> k + (j - c) - 1, t |-> t]
              ELSE IF j <= c + L + n1 THEN [s |-> T + 1, k |-> j - (c + L) - 1, t |-> n1]
              ELSE IF j <= c + L + n1 + n2 THEN [s |-> T + 2, k |-> j - (c + L + n1) - 1, t |-> n2]
              ELSE [s |-> -1, k |-> 255, t |-> 0]
  BY <1>1, Zenon DEF IsPacket
<1>4. Carries(p, c, T, t, k, Share(L, Payload - c))
  <2>1. ASSUME NEW i \in 1 .. Share(L, Payload - c)
        PROVE  p[c + i] = [s |-> T, k |-> k + i - 1, t |-> t]
    <3>1. c + i \in 1 .. N /\ ~(c + i <= c) /\ c + i <= c + L /\ k + ((c + i) - c) - 1 = k + i - 1
      BY <1>1, <1>2, <2>1 DEF Share
    <3>2. PICK j \in 1 .. N : j = c + i
      BY <3>1
    <3>3. p[j] = [s |-> T, k |-> k + (j - c) - 1, t |-> t]
      BY ONLY <1>3, <3>1, <3>2, Zenon
    <3> QED BY ONLY <3>1, <3>2, <3>3, Zenon
  <2> QED BY <2>1, Zenon DEF Carries
<1>5. Carries(p, c + L, T + 1, n1, 0, Share(n1, Payload - (c + L)))
  <2>1. ASSUME NEW i \in 1 .. Share(n1, Payload - (c + L))
        PROVE  p[c + L + i] = [s |-> T + 1, k |-> 0 + i - 1, t |-> n1]
    <3>1. /\ c + L + i \in 1 .. N /\ ~(c + L + i <= c) /\ ~(c + L + i <= c + L) /\ c + L + i <= c + L + n1
          /\ (c + L + i) - (c + L) - 1 = 0 + i - 1
      BY <1>1, <1>2, <2>1 DEF Share
    <3>2. PICK j \in 1 .. N : j = c + L + i
      BY <3>1
    <3>3. p[j] = [s |-> T + 1, k |-> j - (c + L) - 1, t |-> n1]
      BY ONLY <1>3, <3>1, <3>2, Zenon
    <3> QED BY ONLY <3>1, <3>2, <3>3, Zenon
  <2> QED BY <2>1, Zenon DEF Carries
<1>6. Carries(p, c + L + n1, T + 2, n2, 0, Share(n2, Payload - (c + L + n1)))
  <2>1. ASSUME NEW i \in 1 .. Share(n2, Payload - (c + L + n1))
        PROVE  p[c + L + n1 + i] = [s |-> T + 2, k |-> 0 + i - 1, t |-> n2]
    <3>1. /\ c + L + n1 + i \in 1 .. N /\ ~(c + L + n1 + i <= c) /\ ~(c + L + n1 + i <= c + L)
          /\ ~(c + L + n1 + i <= c + L + n1) /\ c + L + n1 + i <= c + L + n1 + n2
          /\ (c + L + n1 + i) - (c + L + n1) - 1 = 0 + i - 1
      BY <1>1, <1>2, <2>1 DEF Share
    <3>2. PICK j \in 1 .. N : j = c + L + n1 + i
      BY <3>1
    <3>3. p[j] = [s |-> T + 2, k |-> j - (c + L + n1) - 1, t |-> n2]
      BY ONLY <1>3, <3>1, <3>2, Zenon
    <3> QED BY ONLY <3>1, <3>2, <3>3, Zenon
  <2> QED BY <2>1, Zenon DEF Carries
<1> QED BY <1>4, <1>5, <1>6, Zenon DEF CarriesAll

\* Behind them is stuffing.
LEMMA PacketSkips ==
  ASSUME NEW p, NEW T, NEW t, NEW k, NEW c, NEW L, NEW n1, NEW n2,
         IsPacket(p, T, t, k, c, L, n1, n2), HasRoom(T, t, k, c, L, n1, n2),
         NEW unit, NEW b \in Nat, b = c + L + n1 + n2, b < Payload
  PROVE  Skips(p, unit, b)
<1>1. c \in Nat /\ L \in Nat /\ n1 \in Nat /\ n2 \in Nat
  BY DEF HasRoom
<1>2. PICK j \in 1 .. Payload : j = b + 1
  BY SizesAre
<1>3. ~(j <= c) /\ ~(j <= c + L) /\ ~(j <= c + L + n1) /\ ~(j <= c + L + n1 + n2)
  BY <1>1, <1>2
<1>4. p[j] = [s |-> -1, k |-> 255, t |-> 0]
  BY <1>2, <1>3, Zenon DEF IsPacket
<1>5. Sections!ByteAt(p[j]) = 255
  BY <1>4 DEF Sections!ByteAt
<1> QED BY <1>2, <1>5, Zenon DEF Skips

\* The pointer field.
LEMMA PacketPoints ==
  ASSUME NEW p, NEW T, NEW t, NEW k, NEW L, NEW n1, NEW n2,
         IsPacket(p, T, t, k, 1, L, n1, n2), HasRoom(T, t, k, 1, L, n1, n2)
  PROVE  Sections!ByteAt(p[1]) = L
<1>1. 1 \in 1 .. Payload /\ 1 <= 1
  BY SizesAre
<1>2. p[1] = [s |-> 0, k |-> L, t |-> 0]
  BY <1>1, Zenon DEF IsPacket
<1> QED BY <1>2 DEF Sections!ByteAt

\* The sections that it ends, and what else is in it.
EndsAt(b, j, T, c, L, n1, n2) ==
  \/ b.s = T /\ L > 0 /\ j = c + L
  \/ b.s = T + 1 /\ n1 > 0 /\ j = c + L + n1
  \/ b.s = T + 2 /\ n2 > 0 /\ j = c + L + n1 + n2

SaysMore(b, T, k, L) == b.s > 0 => b.s > T \/ (b.s = T /\ b.k >= k /\ L > 0)

LEMMA ByteSays ==
  ASSUME NEW p, NEW T, NEW t, NEW k, NEW c, NEW L, NEW n1, NEW n2,
         IsPacket(p, T, t, k, c, L, n1, n2), HasRoom(T, t, k, c, L, n1, n2), NEW j \in 1 .. Payload
  PROVE  SaysMore(p[j], T, k, L) /\ (Ends(p[j]) => EndsAt(p[j], j, T, c, L, n1, n2))
<1>1. PICK N \in Nat : N = Payload
  BY SizesAre
<1>2. /\ T \in Nat /\ k \in Nat /\ c \in Nat /\ L \in Nat /\ n1 \in Nat /\ n2 \in Nat /\ j \in Nat
  BY SizesAre DEF HasRoom
<1>3. PICK b : b = p[j]
  OBVIOUS
<1>4. b = IF j <= c THEN [s |-> 0, k |-> L, t |-> 0]
              ELSE IF j <= c + L THEN [s |-> T, k |-> k + (j - c) - 1, t |-> t]
              ELSE IF j <= c + L + n1 THEN [s |-> T + 1, k |-> j - (c + L) - 1, t |-> n1]
              ELSE IF j <= c + L + n1 + n2 THEN [s |-> T + 2, k |-> j - (c + L + n1) - 1, t |-> n2]
              ELSE [s |-> -1, k |-> 255, t |-> 0]
  BY <1>3, Zenon DEF IsPacket
<1>5. SaysMore(b, T, k, L) /\ (Ends(b) => EndsAt(b, j, T, c, L, n1, n2))
  <2>1. CASE j <= c
    <3>1. b.s = 0
      BY <1>4, <2>1
    <3> QED BY <3>1 DEF SaysMore, Ends
  <2>2. CASE j > c /\ j <= c + L
    <3>1. b.s = T /\ b.k = k + (j - c) - 1 /\ b.t = t
      BY ONLY <1>2, <1>4, <2>2
    <3>2. L > 0 /\ t = k + L
      BY <1>2, <2>2 DEF HasRoom
    <3> QED BY ONLY <1>2, <2>2, <3>1, <3>2 DEF SaysMore, Ends, EndsAt
  <2>3. CASE j > c + L /\ j <= c + L + n1
    <3>1. b.s = T + 1 /\ b.k = j - (c + L) - 1 /\ b.t = n1
      BY ONLY <1>2, <1>4, <2>3
    <3> QED BY ONLY <1>2, <2>3, <3>1 DEF SaysMore, Ends, EndsAt
  <2>4. CASE j > c + L + n1 /\ j <= c + L + n1 + n2
    <3>1. b.s = T + 2 /\ b.k = j - (c + L + n1) - 1 /\ b.t = n2
      BY ONLY <1>2, <1>4, <2>4
    <3> QED BY ONLY <1>2, <2>4, <3>1 DEF SaysMore, Ends, EndsAt
  <2>5. CASE j > c + L + n1 + n2
    <3>1. b.s = -1
      BY ONLY <1>2, <1>4, <2>5
    <3> QED BY <3>1 DEF SaysMore, Ends
  <2> QED BY <1>2, <2>1, <2>2, <2>3, <2>4, <2>5
<1> QED BY <1>3, <1>5, Zenon

LEMMA PacketEndsInOrder ==
  ASSUME NEW p, NEW T, NEW t, NEW k, NEW c, NEW L, NEW n1, NEW n2,
         IsPacket(p, T, t, k, c, L, n1, n2), HasRoom(T, t, k, c, L, n1, n2)
  PROVE  EndsInOrder(p)
<1>1. ASSUME NEW i \in 1 .. Payload, NEW j \in 1 .. Payload, i < j, Ends(p[i]), Ends(p[j])
      PROVE  p[i].s < p[j].s
  <2>1. PICK x, y : x = p[i].s /\ y = p[j].s
    OBVIOUS
  <2>2. EndsAt(p[i], i, T, c, L, n1, n2) /\ EndsAt(p[j], j, T, c, L, n1, n2)
    BY <1>1, ByteSays, Zenon
  <2>3. /\ (x = T /\ i = c + L) \/ (x = T + 1 /\ i = c + L + n1) \/ (x = T + 2 /\ i = c + L + n1 + n2)
        /\ (y = T /\ j = c + L) \/ (y = T + 1 /\ j = c + L + n1) \/ (y = T + 2 /\ j = c + L + n1 + n2)
    BY ONLY <2>1, <2>2, Zenon DEF EndsAt
  <2>4. T \in Nat /\ c \in Nat /\ L \in Nat /\ n1 \in Nat /\ n2 \in Nat /\ i \in Nat /\ j \in Nat
    BY SizesAre DEF HasRoom
  <2>5. x < y
    BY ONLY <1>1, <2>3, <2>4
  <2> QED BY <2>1, <2>5, Zenon
<1> QED BY <1>1, Zenon DEF EndsInOrder

\* The packet that the server sends.
Packs(T, t, k, c, L, n1, n2) ==
  /\ HasRoom(T, t, k, c, L, n1, n2)
  /\ L > 0 => T \in 1 .. MaxSections /\ t \in Totals /\ k \in 1 .. t - 1
  /\ \/ c = 0 /\ n1 = 0 /\ n2 = 0 /\ L > 0
     \/ c = 1 /\ n1 \in Totals /\ n2 = 0 /\ 1 + L < Payload /\ T + 1 \in 1 .. MaxSections
     \/ /\ c = 1 /\ n1 \in Totals /\ n2 \in Totals /\ 1 + L + n1 < Payload
        /\ T + 1 \in 1 .. MaxSections /\ T + 2 \in 1 .. MaxSections

IsSent(p, T, t, k, c, L, n1, n2) == IsPacket(p, T, t, k, c, L, n1, n2) /\ Packs(T, t, k, c, L, n1, n2)

IsNothing(d, length) == d = <<>> /\ length = -1

\* What there is of the last section is all that has been sent of it.
InStep(d, length, T, t, k, L) ==
  L > 0 /\ d = Sections!SectionBytes(T, t, 0, k) /\ length = LengthWith(t, k)

\* The next round begins a section behind those that have come out.
IsAt(st, a, o) == \E q : st = State(<<>>, -1, a, q, o, FALSE)

\* The last section ends in a packet that begins a new one.
LEMMA RestComes ==
  ASSUME NEW p, NEW T, NEW t, NEW k, NEW L, NEW n1, NEW n2, IsSent(p, T, t, k, 1, L, n1, n2),
         NEW d, NEW length, InStep(d, length, T, t, k, L)
  PROVE  IsAt(Sections!Rounds([data |-> d, length |-> length], p, TRUE)[1], 1 + L, Append(<<>>, T))
<1>1. IsPacket(p, T, t, k, 1, L, n1, n2) /\ Packs(T, t, k, 1, L, n1, n2)
  BY Zenon DEF IsSent
<1>2. HasRoom(T, t, k, 1, L, n1, n2)
  BY <1>1, Zenon DEF Packs
<1>3. L > 0 /\ d = Sections!SectionBytes(T, t, 0, k) /\ length = LengthWith(t, k)
  BY Zenon DEF InStep
<1>4. T \in 1 .. MaxSections /\ t \in Totals /\ k \in 1 .. t - 1
  BY <1>1, <1>3, Zenon DEF Packs
<1>5. L \in Nat /\ t = k + L /\ t \in Nat
  BY <1>2, <1>3 DEF HasRoom
<1>6. 1 + L < Payload /\ Payload \in Nat
  BY <1>1, <1>5, SizesAre, TotalIs DEF Packs
<1>7. p \in Seq(TheBytes) /\ Len(p) = Payload
  BY <1>1, Zenon DEF IsPacket
<1>8. Share(L, Payload - 1) = L
  BY <1>5, <1>6 DEF Share
<1>9. t - k = L
  BY <1>4, <1>5
<1>10. Carries(p, 1, T, t, k, Share(t - k, Payload - 1))
  <2>1. CarriesAll(p, T, t, k, 1, L, n1, n2)
    BY <1>1, <1>2, PacketCarries, Zenon
  <2>2. Carries(p, 1, T, t, k, Share(L, Payload - 1))
    BY <2>1, Zenon DEF CarriesAll
  <2> QED BY <1>9, <2>2, Zenon
<1>11. PICK q \in 0 .. Payload - 1 : q = Sections!ByteAt(p[1]) + 1 /\ q = L + 1
  <2>1. Sections!ByteAt(p[1]) = L
    BY <1>1, <1>2, PacketPoints, Zenon
  <2>2. L + 1 \in 0 .. Payload - 1
    BY <1>5, <1>6
  <2> QED BY <2>1, <2>2, Zenon
<1>12. PICK section : section = [data |-> d, length |-> length]
  OBVIOUS
<1>13. PICK f : f = Sections!Rounds(section, p, TRUE)
  OBVIOUS
<1>14. f[0] = State(d, length, 1, q, <<>>, FALSE)
  <2>1. d # <<>>
    <3>1. Pending(d, length)
      BY <1>3, <1>4, InStepIsPending, Zenon
    <3>2. Len(d) > 0
      BY <3>1 DEF Pending
    <3> QED BY <3>2
  <2>2. f[0] = State(d, length, PlaceIn(TRUE), PointerIn(p, TRUE), <<>>, FALSE)
    BY <1>12, <1>13, <2>1, BeginsWith, Zenon
  <2> QED BY <1>11, <2>2, Zenon DEF PlaceIn, PointerIn
<1>15. f[1] = Sections!Round(f[0], p, TRUE)
  BY <1>13, FirstRounds, Zenon DEF OneByOne
<1>16. Sections!Round(State(d, length, 1, q, <<>>, FALSE), p, TRUE) = AfterPart(T, t, k + L, 1 + L, <<>>)
  <2>1. 1 \in 0 .. 1 /\ (q # 0 => 1 = 1 /\ q = (t - k) + 1)
    BY <1>9, <1>11
  <2>2. IsRestOf(p, T, t, k, 1, q, L)
    BY <1>4, <1>7, <1>8, <1>9, <1>10, <2>1, Zenon DEF IsRestOf
  <2>3. PICK a, o, unit : a = 1 /\ o = <<>> /\ unit = TRUE
    OBVIOUS
  <2>4. IsAdded(p, unit, T, t, k, a, q, L, o)
    BY <2>2, <2>3, SectionGoesOn, Zenon
  <2> QED BY <1>3, <2>3, <2>4, Zenon DEF IsAdded
<1>17. f[1] = State(<<>>, -1, 1 + L, 0, Append(<<>>, T), FALSE)
  BY <1>5, <1>8, <1>9, <1>14, <1>15, <1>16, Zenon DEF AfterPart
<1> QED BY <1>12, <1>13, <1>17, Zenon DEF IsAt

\* Without it, there is only the pointer field.
LEMMA RestIsSkipped ==
  ASSUME NEW p, NEW T, NEW t, NEW k, NEW L, NEW n1, NEW n2, IsSent(p, T, t, k, 1, L, n1, n2)
  PROVE  IsAt(Sections!Rounds([data |-> <<>>, length |-> -1], p, TRUE)[0], 1 + L, <<>>)
<1>1. IsPacket(p, T, t, k, 1, L, n1, n2) /\ HasRoom(T, t, k, 1, L, n1, n2)
  BY Zenon DEF IsSent, Packs
<1>2. Sections!ByteAt(p[1]) = L
  BY <1>1, PacketPoints, Zenon
<1>3. L \in Nat
  BY <1>1 DEF HasRoom
<1>4. Sections!ByteAt(p[1]) + 1 = 1 + L
  BY <1>2, <1>3
<1>5. PICK q : q = 1 + L
  OBVIOUS
<1>6. Sections!First([data |-> <<>>, length |-> -1], p, TRUE) = State(<<>>, -1, q, q, <<>>, FALSE)
  BY <1>4, <1>5, FirstIs, Zenon
<1>7. PICK section : section = [data |-> <<>>, length |-> -1]
  OBVIOUS
<1>8. Sections!Rounds(section, p, TRUE)[0] = Sections!First(section, p, TRUE)
  BY RoundsAre, Zenon
<1> QED BY <1>5, <1>6, <1>7, <1>8, Zenon DEF IsAt

\* A new section.
IsThere(st, s, t, a, n, o) == st = AfterPart(s, t, n, a + n, o)

LEMMA NewComes ==
  ASSUME NEW section, NEW i \in 0 .. MaxLoops, NEW p, NEW s, NEW t, NEW a, NEW n, NEW o,
         IsAt(Sections!Rounds(section, p, TRUE)[i], a, o) /\ IsANew(p, s, t, a, n)
  PROVE  IsThere(Sections!Rounds(section, p, TRUE)[i + 1], s, t, a, n, o)
<1>1. PICK q : Sections!Rounds(section, p, TRUE)[i] = State(<<>>, -1, a, q, o, FALSE)
  BY DEF IsAt
<1>2. Sections!Rounds(section, p, TRUE)[i + 1] = Sections!Round(Sections!Rounds(section, p, TRUE)[i], p, TRUE)
  BY NextRound, Zenon
<1>3. IsTaken(p, s, t, a, n, q, o)
  BY SectionStarts, Zenon
<1> QED BY <1>1, <1>2, <1>3, Zenon DEF IsTaken, IsThere

\* What comes out of a packet that begins sections, behind what is there of the last one.
Results(decoded, T, L, n1, n2, o) ==
  IF n2 = 0 THEN Leaves(decoded, T + 1, n1, Share(n1, Payload - (1 + L)), o)
  ELSE Leaves(decoded, T + 2, n2, Share(n2, Payload - (1 + L + n1)), Append(o, T + 1))

LEMMA NewsCome ==
  ASSUME NEW p, NEW T, NEW t, NEW k, NEW L, NEW n1, NEW n2, IsSent(p, T, t, k, 1, L, n1, n2),
         NEW section, NEW i \in 0 .. 1, NEW o, IsAt(Sections!Rounds(section, p, TRUE)[i], 1 + L, o)
  PROVE  Results(Sections!Decoded(section, p, TRUE), T, L, n1, n2, o)
<1>1. IsPacket(p, T, t, k, 1, L, n1, n2) /\ Packs(T, t, k, 1, L, n1, n2) /\ HasRoom(T, t, k, 1, L, n1, n2)
  BY Zenon DEF IsSent, Packs
<1>2. p \in Seq(TheBytes) /\ Len(p) = Payload
  BY <1>1, Zenon DEF IsPacket
<1>3. T \in Nat /\ L \in Nat /\ n1 \in Totals /\ n1 \in Nat /\ n1 >= 12 /\ n2 \in Nat /\ T + 1 \in 1 .. MaxSections
  BY <1>1, SizesAre, TotalIs DEF Packs, HasRoom
<1>4. CarriesAll(p, T, t, k, 1, L, n1, n2)
  BY <1>1, PacketCarries, Zenon
<1>5. PICK a \in 0 .. Payload - 1 : a = 1 + L
  BY <1>1, <1>3, SizesAre DEF Packs
<1>6. PICK n : n = Share(n1, Payload - a)
  OBVIOUS
<1>7. PICK b : b = a + n
  OBVIOUS
<1>8. n \in Nat /\ b \in Nat /\ b <= Payload /\ (n # n1 => b >= Payload)
  BY <1>3, <1>5, <1>6, <1>7, SizesAre DEF Share
<1>9. i \in 0 .. MaxLoops /\ i + 1 \in 0 .. MaxLoops /\ i + 1 + 1 \in 0 .. MaxLoops
  BY SizesAre
<1>10. PICK f : f = Sections!Rounds(section, p, TRUE)
  OBVIOUS
<1>11. f[i + 1] = AfterPart(T + 1, n1, n, b, o)
  <2>1. Carries(p, a, T + 1, n1, 0, Share(n1, Payload - a))
    BY <1>4, <1>5, Zenon DEF CarriesAll
  <2>2. IsANew(p, T + 1, n1, a, n)
    BY <1>2, <1>3, <1>6, <2>1, Zenon DEF IsANew
  <2>3. IsAt(f[i], a, o)
    BY <1>5, <1>10, Zenon
  <2>4. PICK s : s = T + 1
    OBVIOUS
  <2>5. IsThere(f[i + 1], s, n1, a, n, o)
    BY <1>9, <1>10, <2>2, <2>3, <2>4, NewComes, Zenon
  <2> QED BY <1>7, <2>4, <2>5, Zenon DEF IsThere
<1>12. CASE n2 = 0
  <2>1. n = n1 /\ b < Payload => Skips(p, TRUE, b)
    <3>1. SUFFICES ASSUME n = n1, b < Payload PROVE Skips(p, TRUE, b)
      OBVIOUS
    <3>2. b = 1 + L + n1 + n2
      BY ONLY <1>3, <1>5, <1>7, <1>12, <3>1
    <3> QED BY <1>1, <1>8, <3>1, <3>2, PacketSkips, Zenon
  <2>2. Leaves(Sections!Decoded(section, p, TRUE), T + 1, n1, n, o)
    BY <1>8, <1>9, <1>10, <1>11, <2>1, PartEnds, Zenon
  <2> QED BY <1>5, <1>6, <1>12, <2>2, Zenon DEF Results
<1>13. CASE n2 # 0
  <2>1. n2 \in Totals /\ 1 + L + n1 < Payload /\ T + 2 \in 1 .. MaxSections
    BY <1>1, <1>13 DEF Packs
  <2>2. n = n1 /\ b \in 0 .. Payload - 1 /\ b = 1 + L + n1
    BY <1>3, <1>5, <1>6, <1>7, <2>1, SizesAre DEF Share
  <2>3. f[i + 1] = State(<<>>, -1, b, 0, Append(o, T + 1), FALSE)
    BY <1>11, <2>2, Zenon DEF AfterPart
  <2>4. IsAt(f[i + 1], b, Append(o, T + 1))
    BY <2>3, Zenon DEF IsAt
  <2>5. PICK m : m = Share(n2, Payload - b)
    OBVIOUS
  <2>6. PICK e : e = b + m
    OBVIOUS
  <2>7. m \in Nat /\ e \in Nat /\ e <= Payload /\ (m # n2 => e >= Payload)
    BY <1>3, <2>2, <2>5, <2>6, SizesAre DEF Share
  <2>8. Carries(p, b, T + 2, n2, 0, Share(n2, Payload - b))
    BY <1>4, <2>2, Zenon DEF CarriesAll
  <2>9. PICK j \in 0 .. MaxLoops : j = i + 1
    BY <1>9
  <2>10. PICK o2 : o2 = Append(o, T + 1)
    OBVIOUS
  <2>11. f[j + 1] = AfterPart(T + 2, n2, m, e, o2)
    <3>1. IsANew(p, T + 2, n2, b, m)
      BY <1>2, <2>1, <2>2, <2>5, <2>8, Zenon DEF IsANew
    <3>2. IsAt(f[j], b, o2)
      BY <2>4, <2>9, <2>10, Zenon
    <3>3. PICK s : s = T + 2
      OBVIOUS
    <3>4. IsThere(f[j + 1], s, n2, b, m, o2)
      BY <1>10, <3>1, <3>2, <3>3, NewComes, Zenon
    <3> QED BY <2>6, <3>3, <3>4, Zenon DEF IsThere
  <2>12. m = n2 /\ e < Payload => Skips(p, TRUE, e)
    <3>1. SUFFICES ASSUME m = n2, e < Payload PROVE Skips(p, TRUE, e)
      OBVIOUS
    <3>2. e = 1 + L + n1 + n2
      BY ONLY <1>3, <2>2, <2>6, <3>1
    <3> QED BY <1>1, <2>7, <3>1, <3>2, PacketSkips, Zenon
  <2>13. j + 1 \in 0 .. MaxLoops
    BY <1>9, <2>9
  <2>14. Leaves(Sections!Decoded(section, p, TRUE), T + 2, n2, m, o2)
    BY <1>10, <2>7, <2>11, <2>12, <2>13, PartEnds, Zenon
  <2> QED BY <1>5, <1>13, <2>2, <2>5, <2>10, <2>14, Zenon DEF Results
<1> QED BY <1>12, <1>13

\* What the server has sent, before and after a packet.
IsNow(T, t, k, L) == Len(totals) = T /\ totals[Len(totals)] = t /\ sent = k /\ Sections!Left = L

Moves(T, t, k, c, L, n1, n2, T2, t2, k2, L2) ==
  /\ T2 \in Nat /\ t2 \in Totals /\ k2 \in 1 .. t2 /\ L2 = t2 - k2
  /\ \/ c = 0 /\ T2 = T /\ t2 = t /\ k2 = k + Share(L, Payload)
     \/ c = 1 /\ n2 = 0 /\ T2 = T + 1 /\ t2 = n1 /\ k2 = Share(n1, Payload - (1 + L))
     \/ c = 1 /\ n2 # 0 /\ T2 = T + 2 /\ t2 = n2 /\ k2 = Share(n2, Payload - (1 + L + n1))

LEMMA PacksIs ==
  ASSUME SentInv, NEW new, NEW c, NEW n1, NEW n2, HasShape(new, c, n1, n2), NEW T, NEW t, NEW k, NEW L, IsNow(T, t, k, L)
  PROVE  Packs(T, t, k, c, L, n1, n2)
<1>1. T = Len(totals) /\ t = totals[Len(totals)] /\ k = sent /\ L = Sections!Left
  BY DEF IsNow
<1>2. T \in Nat /\ k \in Nat /\ L \in Nat
  BY <1>1, LeftIs
<1>3. c \in 0 .. 1 /\ n1 \in Nat /\ n2 \in Nat
  BY TotalIs DEF HasShape
<1>4. L > 0 => t \in Totals /\ t \in Nat /\ t = k + L /\ T > 0 /\ T \in 1 .. MaxSections /\ k \in 1 .. t - 1
  <2>1. SUFFICES ASSUME L > 0
                 PROVE  t \in Totals /\ t \in Nat /\ t = k + L /\ T > 0 /\ T \in 1 .. MaxSections /\ k \in 1 .. t - 1
    OBVIOUS
  <2>2. T > 0
    BY <1>1, <1>2, <2>1, LeftIs
  <2>3. t \in Totals /\ L = t - k /\ T \in 1 .. MaxSections /\ k \in 1 .. t
    BY <1>1, <2>2, LeftIs
  <2>4. t \in Nat
    BY <2>3, TotalIs
  <2> QED BY <1>2, <2>1, <2>2, <2>3, <2>4
<1>5. HasRoom(T, t, k, c, L, n1, n2)
  BY <1>2, <1>3, <1>4, Zenon DEF HasRoom
<1>6. \/ c = 0 /\ n1 = 0 /\ n2 = 0 /\ L > 0
      \/ c = 1 /\ n1 \in Totals /\ n2 = 0 /\ 1 + L < Payload /\ T + 1 <= MaxSections
      \/ /\ c = 1 /\ n1 \in Totals /\ n2 \in Totals /\ 1 + L + n1 < Payload /\ T + 2 <= MaxSections
  BY <1>1, Zenon DEF HasShape
<1>7. \/ c = 0 /\ n1 = 0 /\ n2 = 0 /\ L > 0
      \/ c = 1 /\ n1 \in Totals /\ n2 = 0 /\ 1 + L < Payload /\ T + 1 \in 1 .. MaxSections
      \/ /\ c = 1 /\ n1 \in Totals /\ n2 \in Totals /\ 1 + L + n1 < Payload
         /\ T + 1 \in 1 .. MaxSections /\ T + 2 \in 1 .. MaxSections
  BY ONLY <1>2, <1>6, SizesAre
<1> QED BY <1>4, <1>5, <1>7, Zenon DEF Packs

LEMMA SentPacketIs ==
  ASSUME SentInv, NEW new, NEW c, NEW n1, NEW n2, HasShape(new, c, n1, n2), NEW T, NEW t, NEW k, NEW L, IsNow(T, t, k, L)
  PROVE  IsSent(Sections!PacketOf(new), T, t, k, c, L, n1, n2)
BY PacksIs, PacketIs, Zenon DEF IsNow, IsSent

LEMMA JoinedTotals ==
  ASSUME totals \in Seq(Totals), NEW new \in Seq(Totals), NEW t2, NEW T2 \in Nat, T2 = Len(totals) + Len(new),
         IF new = <<>> THEN t2 = totals[Len(totals)] ELSE t2 = new[Len(new)],
         NEW joined, joined = totals \o new
  PROVE  joined \in Seq(Totals) /\ Len(joined) = T2 /\ joined[Len(joined)] = t2
<1>1. joined \in Seq(Totals) /\ Len(joined) = T2
  BY ConcatProperties
<1>2. CASE new = <<>>
  <2>1. joined = totals
    BY <1>2
  <2> QED BY <1>1, <1>2, <2>1
<1>3. CASE new # <<>>
  <2>1. Len(totals) \in Nat /\ Len(new) \in Nat /\ Len(new) > 0
    BY <1>3
  <2>2. Len(joined) \in 1 .. Len(totals) + Len(new) /\ ~(Len(joined) <= Len(totals))
    BY <1>1, <2>1
  <2>3. joined[Len(joined)] = new[Len(joined) - Len(totals)]
    BY <2>2, ConcatProperties
  <2>4. Len(joined) - Len(totals) = Len(new)
    BY <1>1, <2>1
  <2> QED BY <1>1, <1>3, <2>3, <2>4
<1> QED BY <1>2, <1>3

LEMMA BeginIs ==
  ASSUME SentInv, NEW new, NEW c, NEW n1, NEW n2, HasShape(new, c, n1, n2), NEW T, NEW t, NEW k, NEW L, IsNow(T, t, k, L),
         Sections!Begin(new)
  PROVE  SentInv' /\ \E T2, t2, k2, L2 : IsNow(T2, t2, k2, L2)' /\ Moves(T, t, k, c, L, n1, n2, T2, t2, k2, L2)
<1>1. T = Len(totals) /\ t = totals[Len(totals)] /\ k = sent /\ L = Sections!Left /\ totals \in Seq(Totals)
  BY DEF IsNow, SentInv
<1>2. Packs(T, t, k, c, L, n1, n2) /\ HasRoom(T, t, k, c, L, n1, n2)
  BY PacksIs, Zenon DEF Packs
<1>3. T \in Nat /\ k \in Nat /\ L \in Nat /\ T <= MaxSections
  BY <1>1, LeftIs
<1>4. totals' = totals \o new
      /\ LET space == IF new = <<>> THEN Payload ELSE Payload - Sections!Before(new)
             ready == IF new = <<>> THEN Sections!Left ELSE new[Len(new)]
         IN  sent' = (IF new = <<>> THEN sent ELSE 0) + (IF ready < space THEN ready ELSE space)
  BY Zenon DEF Sections!Begin
<1>5. ASSUME NEW T2 \in Nat, NEW t2 \in Totals, NEW k2 \in 1 .. t2, new \in Seq(Totals), T2 = Len(totals) + Len(new),
             IF new = <<>> THEN t2 = totals[Len(totals)] ELSE t2 = new[Len(new)], sent' = k2,
             T2 > 0, T2 <= MaxSections, NEW L2, L2 = t2 - k2
      PROVE  SentInv' /\ IsNow(T2, t2, k2, L2)'
  <2>1. PICK joined : joined = totals' /\ joined = totals \o new
    BY <1>4
  <2>2. joined \in Seq(Totals) /\ Len(joined) = T2 /\ joined[Len(joined)] = t2
    BY <1>1, <1>5, <2>1, JoinedTotals
  <2>3. totals' \in Seq(Totals) /\ Len(totals') = T2 /\ totals'[Len(totals')] = t2
    BY <2>1, <2>2, Zenon
  <2>4. totals' # <<>>
    BY <1>5, <2>3
  <2>5. Sections!Left' = t2 - k2
    BY <1>5, <2>3, <2>4, Zenon DEF Sections!Left
  <2>6. k2 \in Nat /\ T2 # 0
    BY <1>5, TotalIs
  <2>7. SentInv'
    BY <1>5, <2>3, <2>6, Zenon DEF SentInv
  <2> QED BY <1>5, <2>3, <2>5, <2>7, Zenon DEF IsNow
<1>6. CASE new = <<>> /\ c = 0 /\ n1 = 0 /\ n2 = 0 /\ L > 0
  <2>1. new \in Seq(Totals) /\ Len(new) = 0
    BY <1>6
  <2>2. sent' = k + (IF L < Payload THEN L ELSE Payload)
    BY <1>1, <1>4, <1>6, Zenon
  <2>3. t \in Totals /\ t \in Nat /\ t = k + L /\ T > 0 /\ k > 0
    BY <1>2, <1>6, TotalIs DEF Packs, HasRoom
  <2>4. sent' = k + Share(L, Payload)
    BY ONLY <1>3, <2>2, SizesAre DEF Share
  <2>5. sent' \in 1 .. t
    BY ONLY <1>3, <2>2, <2>3, SizesAre
  <2>6. T = Len(totals) + Len(new)
    BY <1>1, <1>3, <2>1
  <2>7. PICK L2 : L2 = t - sent'
    OBVIOUS
  <2>8. PICK k2 \in 1 .. t : k2 = sent'
    BY <2>5
  <2>9. SentInv' /\ IsNow(T, t, k2, L2)'
    BY <1>1, <1>3, <1>5, <1>6, <2>1, <2>3, <2>6, <2>7, <2>8, Zenon
  <2>10. Moves(T, t, k, c, L, n1, n2, T, t, k2, L2)
    BY <1>3, <1>6, <2>3, <2>4, <2>7, <2>8, Zenon DEF Moves
  <2> QED BY <2>9, <2>10, Zenon
<1>7. CASE /\ n1 \in Totals /\ new = <<n1>> /\ c = 1 /\ n2 = 0
           /\ 1 + Sections!Left < Payload /\ Len(totals) + 1 <= MaxSections
  <2>1. new \in Seq(Totals) /\ Len(new) = 1 /\ new[1] = n1 /\ new # <<>>
    BY <1>7
  <2>2. Sections!Before(new) = 1 + L + 0
    BY <1>1, <2>1 DEF Sections!Before
  <2>3. sent' = 0 + (IF n1 < Payload - (1 + L + 0) THEN n1 ELSE Payload - (1 + L + 0))
    BY <1>4, <2>1, <2>2, Zenon
  <2>4. n1 \in Nat /\ n1 >= 12 /\ 1 + L < Payload /\ T + 1 <= MaxSections
    BY <1>1, <1>7, TotalIs
  <2>5. sent' = Share(n1, Payload - (1 + L)) /\ sent' \in 1 .. n1
    BY ONLY <1>3, <2>3, <2>4, SizesAre DEF Share
  <2>6. PICK T2 \in Nat : T2 = T + 1 /\ T2 = Len(totals) + Len(new) /\ T2 > 0 /\ T2 <= MaxSections
    BY <1>1, <1>3, <2>1, <2>4
  <2>7. PICK L2 : L2 = n1 - sent'
    OBVIOUS
  <2>8. PICK k2 \in 1 .. n1 : k2 = sent'
    BY <2>5
  <2>9. SentInv' /\ IsNow(T2, n1, k2, L2)'
    BY <1>5, <1>7, <2>1, <2>6, <2>7, <2>8, Zenon
  <2>10. Moves(T, t, k, c, L, n1, n2, T2, n1, k2, L2)
    BY <1>7, <2>5, <2>6, <2>7, <2>8, Zenon DEF Moves
  <2> QED BY <2>9, <2>10, Zenon
<1>8. CASE /\ n1 \in Totals /\ n2 \in Totals /\ new = <<n1, n2>> /\ c = 1
           /\ 1 + Sections!Left + n1 < Payload /\ Len(totals) + 2 <= MaxSections
  <2>1. new \in Seq(Totals) /\ Len(new) = 2 /\ new[1] = n1 /\ new[2] = n2 /\ new # <<>>
    BY <1>8
  <2>2. Sections!Before(new) = 1 + L + n1
    BY <1>1, <2>1 DEF Sections!Before
  <2>3. sent' = 0 + (IF n2 < Payload - (1 + L + n1) THEN n2 ELSE Payload - (1 + L + n1))
    BY <1>4, <2>1, <2>2, Zenon
  <2>4. n1 \in Nat /\ n2 \in Nat /\ n2 >= 12 /\ 1 + L + n1 < Payload /\ T + 2 <= MaxSections
    BY <1>1, <1>8, TotalIs
  <2>5. sent' = Share(n2, Payload - (1 + L + n1)) /\ sent' \in 1 .. n2 /\ n2 # 0
    BY ONLY <1>3, <2>3, <2>4, SizesAre DEF Share
  <2>6. PICK T2 \in Nat : T2 = T + 2 /\ T2 = Len(totals) + Len(new) /\ T2 > 0 /\ T2 <= MaxSections
    BY <1>1, <1>3, <2>1, <2>4
  <2>7. PICK L2 : L2 = n2 - sent'
    OBVIOUS
  <2>8. PICK k2 \in 1 .. n2 : k2 = sent'
    BY <2>5
  <2>9. SentInv' /\ IsNow(T2, n2, k2, L2)'
    BY <1>5, <1>8, <2>1, <2>6, <2>7, <2>8, Zenon
  <2>10. Moves(T, t, k, c, L, n1, n2, T2, n2, k2, L2)
    BY <1>8, <2>5, <2>6, <2>7, <2>8, Zenon DEF Moves
  <2> QED BY <2>9, <2>10, Zenon
<1> QED BY <1>1, <1>6, <1>7, <1>8 DEF HasShape

\* The sections that should have come before number T2, when the last one of before was in step or not.
Have(o, T, inStep, T2) ==
  /\ o \in Seq(Nat) /\ \A i \in DOMAIN o : o[i] # 0
  /\ \A s \in Nat : s < T2 /\ (s > T \/ (s = T /\ inStep)) => \E i \in DOMAIN o : o[i] = s

\* A packet after which nothing is out of step: a new section always is in step.
IsRight(dd, ll, o, T, c, inStep, T2, t2, k2, L2) ==
  /\ IsNothing(dd, ll) \/ InStep(dd, ll, T2, t2, k2, L2)
  /\ L2 > 0 /\ (c = 1 \/ inStep) => InStep(dd, ll, T2, t2, k2, L2)
  /\ c = 0 /\ ~inStep => IsNothing(dd, ll)
  /\ IF L2 = 0 THEN Have(o, T, inStep, T2 + 1) ELSE Have(o, T, inStep, T2)

ComesRight(decoded, T, c, inStep, T2, t2, k2, L2) ==
  \E dd, ll, o : GivesOut(decoded, dd, ll, o) /\ IsRight(dd, ll, o, T, c, inStep, T2, t2, k2, L2)

LEMMA OneMore ==
  ASSUME NEW T \in Nat, NEW inStep, NEW T2 \in Nat, T2 > 0, NEW o, Have(o, T, inStep, T2)
  PROVE  Have(Append(o, T2), T, inStep, T2 + 1)
<1>1. /\ o \in Seq(Nat) /\ \A i \in DOMAIN o : o[i] # 0
      /\ \A s \in Nat : s < T2 /\ (s > T \/ (s = T /\ inStep)) => \E i \in DOMAIN o : o[i] = s
  BY Zenon DEF Have
<1>2. PICK z : z = Append(o, T2)
  OBVIOUS
<1>3. z \in Seq(Nat) /\ Len(z) = Len(o) + 1 /\ Len(o) \in Nat
  BY <1>1, <1>2
<1>4. \A i \in 1 .. Len(o) : z[i] = o[i]
  BY <1>1, <1>2
<1>5. z[Len(o) + 1] = T2
  BY <1>1, <1>2
<1>6. DOMAIN o = 1 .. Len(o) /\ DOMAIN z = 1 .. Len(o) + 1
  BY <1>1, <1>3
<1>7. ASSUME NEW i \in DOMAIN z PROVE z[i] # 0
  <2>1. i \in 1 .. Len(o) \/ i = Len(o) + 1
    BY <1>3, <1>6
  <2>2. T2 # 0
    OBVIOUS
  <2> QED BY <1>1, <1>4, <1>5, <1>6, <2>1, <2>2, Zenon
<1>8. ASSUME NEW s \in Nat, s < T2 + 1, s > T \/ (s = T /\ inStep) PROVE \E i \in DOMAIN z : z[i] = s
  <2>1. s < T2 \/ s = T2
    BY <1>8
  <2>2. Len(o) + 1 \in DOMAIN z /\ \A i \in DOMAIN o : i \in DOMAIN z
    BY <1>3, <1>6
  <2> QED BY <1>1, <1>4, <1>5, <1>6, <1>8, <2>1, <2>2, Zenon
<1> QED BY <1>2, <1>3, <1>7, <1>8, Zenon DEF Have

LEMMA LeavesRight ==
  ASSUME NEW decoded, NEW T \in Nat, NEW c, NEW inStep, NEW T2 \in Nat, NEW t2 \in Nat, NEW k2 \in 1 .. t2, NEW L2,
         L2 = t2 - k2, T2 > 0, c = 1 \/ inStep, NEW o, Have(o, T, inStep, T2), Leaves(decoded, T2, t2, k2, o)
  PROVE  ComesRight(decoded, T, c, inStep, T2, t2, k2, L2)
<1>1. CASE k2 = t2
  <2>1. L2 = 0 /\ ~(L2 > 0)
    BY <1>1
  <2>2. PICK z : z = Append(o, T2)
    OBVIOUS
  <2>3. GivesOut(decoded, <<>>, -1, z)
    BY <1>1, <2>2, Zenon DEF Leaves
  <2>4. Have(z, T, inStep, T2 + 1)
    BY <2>2, OneMore
  <2>5. IsRight(<<>>, -1, z, T, c, inStep, T2, t2, k2, L2)
    BY <2>1, <2>4, Zenon DEF IsRight, IsNothing
  <2> QED BY <2>3, <2>5, Zenon DEF ComesRight
<1>2. CASE k2 # t2
  <2>1. L2 # 0 /\ L2 > 0
    BY <1>2
  <2>2. PICK dd, ll : dd = Sections!SectionBytes(T2, t2, 0, k2) /\ ll = LengthWith(t2, k2)
    OBVIOUS
  <2>3. GivesOut(decoded, dd, ll, o)
    BY <1>2, <2>2, Zenon DEF Leaves
  <2>4. InStep(dd, ll, T2, t2, k2, L2)
    BY <2>1, <2>2, Zenon DEF InStep
  <2>5. c = 0 /\ ~inStep => IsNothing(dd, ll)
    OBVIOUS
  <2>6. IsRight(dd, ll, o, T, c, inStep, T2, t2, k2, L2)
    BY <2>1, <2>4, <2>5, Zenon DEF IsRight
  <2> QED BY <2>3, <2>6, Zenon DEF ComesRight
<1> QED BY <1>1, <1>2

\* Nothing is behind, so nothing goes wrong.
IsUnit(unit, c) == unit \in BOOLEAN /\ (unit <=> c = 1)

IsKnown(inStep, d, length, T, t, k, L) ==
  inStep \in BOOLEAN /\ IF inStep THEN InStep(d, length, T, t, k, L) ELSE IsNothing(d, length)

LEMMA StaysInStep ==
  ASSUME NEW p, NEW T, NEW t, NEW k, NEW c, NEW L, NEW n1, NEW n2, IsSent(p, T, t, k, c, L, n1, n2),
         NEW T2, NEW t2, NEW k2, NEW L2, Moves(T, t, k, c, L, n1, n2, T2, t2, k2, L2),
         NEW d, NEW length, NEW unit, IsUnit(unit, c), NEW inStep, IsKnown(inStep, d, length, T, t, k, L)
  PROVE  ComesRight(Sections!Decoded([data |-> d, length |-> length], p, unit), T, c, inStep, T2, t2, k2, L2)
<1> SUFFICES ASSUME unit \in BOOLEAN, unit <=> c = 1, inStep \in BOOLEAN,
                    IF inStep THEN InStep(d, length, T, t, k, L) ELSE IsNothing(d, length)
             PROVE  ComesRight(Sections!Decoded([data |-> d, length |-> length], p, unit), T, c, inStep, T2, t2, k2, L2)
  BY Zenon DEF IsUnit, IsKnown
<1>1. IsPacket(p, T, t, k, c, L, n1, n2) /\ Packs(T, t, k, c, L, n1, n2) /\ HasRoom(T, t, k, c, L, n1, n2)
  BY Zenon DEF IsSent, Packs
<1>2. p \in Seq(TheBytes) /\ Len(p) = Payload
  BY <1>1, Zenon DEF IsPacket
<1>3. T \in Nat /\ L \in Nat /\ k \in Nat /\ n1 \in Nat /\ n2 \in Nat /\ c \in 0 .. 1
  BY <1>1 DEF HasRoom
<1>4. T2 \in Nat /\ t2 \in Totals /\ t2 \in Nat /\ k2 \in 1 .. t2 /\ L2 = t2 - k2
  BY TotalIs DEF Moves
<1>5. PICK section, decoded : section = [data |-> d, length |-> length] /\ decoded = Sections!Decoded(section, p, unit)
  OBVIOUS
<1>6. inStep => L > 0 /\ T > 0
  BY <1>1 DEF InStep, HasRoom
<1>7. CASE c = 0 /\ ~inStep
  <2>1. d = <<>> /\ length = -1 /\ unit = FALSE
    BY <1>7 DEF IsNothing
  <2>2. T2 = T
    BY <1>7 DEF Moves
  <2>3. PICK q : q = Sections!ByteAt(p[1]) + 1
    OBVIOUS
  <2>4. Sections!First(section, p, FALSE) = State(<<>>, -1, 0, 0, <<>>, FALSE)
    BY <1>5, <2>1, <2>3, FirstIs, Zenon
  <2>5. Sections!Rounds(section, p, FALSE)[0] = State(<<>>, -1, 0, 0, <<>>, FALSE)
    BY <2>4, RoundsAre, Zenon
  <2>6. PICK i, z, o : i \in 0 .. MaxLoops /\ i = 0 /\ z = 0 /\ o = <<>>
    BY SizesAre
  <2>7. Skips(p, FALSE, z)
    BY Zenon DEF Skips
  <2>8. Sections!Rounds(section, p, FALSE)[i] = State(<<>>, -1, z, z, o, FALSE)
    BY <2>5, <2>6, Zenon
  <2>9. GivesOut(decoded, <<>>, -1, o)
    BY <1>5, <2>1, <2>6, <2>7, <2>8, EndsSkipping, Zenon
  <2>10. Have(o, T, inStep, T2) /\ Have(o, T, inStep, T2 + 1)
    BY <1>3, <1>7, <2>2, <2>6 DEF Have
  <2>11. IsRight(<<>>, -1, o, T, c, inStep, T2, t2, k2, L2)
    <3>1. c # 1
      BY <1>7
    <3> QED BY <1>7, <2>10, <3>1, Zenon DEF IsRight, IsNothing
  <2> QED BY <1>5, <2>9, <2>11, Zenon DEF ComesRight
<1>8. CASE c = 0 /\ inStep
  <2>1. InStep(d, length, T, t, k, L) /\ unit = FALSE /\ L > 0
    BY <1>6, <1>8
  <2>2. T2 = T /\ t2 = t /\ k2 = k + Share(L, Payload)
    BY <1>8 DEF Moves
  <2>3. T \in 1 .. MaxSections /\ t \in Totals /\ k \in 1 .. t - 1 /\ t - k = L
    BY <1>1, <1>3, <1>4, <2>1, <2>2 DEF Packs, HasRoom
  <2>4. PICK n : n = Share(L, Payload)
    OBVIOUS
  <2>5. n \in Nat /\ (n # L => n >= Payload) /\ n <= L
    BY <1>3, <2>4, SizesAre DEF Share
  <2>6. Carries(p, 0, T, t, k, n) /\ n = Share(t - k, Payload - 0)
    <3>1. Payload - 0 = Payload
      BY SizesAre
    <3>2. Carries(p, 0, T, t, k, Share(L, Payload - 0))
      BY <1>1, <1>8, PacketCarries, Zenon DEF CarriesAll
    <3> QED BY <2>3, <2>4, <3>1, <3>2, Zenon
  <2>7. PICK a, q, o : a = 0 /\ q = 0 /\ o = <<>>
    OBVIOUS
  <2>8. IsRestOf(p, T, t, k, a, q, n)
    <3>1. 0 \in 0 .. 1 /\ 0 \in 0 .. Payload - 1
      BY SizesAre
    <3> QED BY <1>2, <2>3, <2>6, <2>7, <3>1, Zenon DEF IsRestOf
  <2>9. IsAdded(p, unit, T, t, k, a, q, n, o)
    BY <2>8, SectionGoesOn, Zenon
  <2>10. d # <<>>
    <3>1. Pending(d, length)
      BY <2>1, <2>3, InStepIsPending, Zenon DEF InStep
    <3>2. Len(d) > 0
      BY <3>1 DEF Pending
    <3> QED BY <3>2
  <2>11. PICK f : f = Sections!Rounds(section, p, unit)
    OBVIOUS
  <2>12. f[0] = State(d, length, 0, 0, <<>>, FALSE)
    <3>1. f[0] = State(d, length, PlaceIn(unit), PointerIn(p, unit), <<>>, FALSE)
      <4>1. unit \in BOOLEAN
        OBVIOUS
      <4>2. Sections!Rounds([data |-> d, length |-> length], p, unit)[0]
              = State(d, length, PlaceIn(unit), PointerIn(p, unit), <<>>, FALSE)
        BY ONLY <2>10, <4>1, BeginsWith, Zenon
      <4> QED BY <1>5, <2>11, <4>2, Zenon
    <3> QED BY <2>1, <3>1, Zenon DEF PlaceIn, PointerIn
  <2>13. f[1] = Sections!Round(f[0], p, unit)
    <3>1. OneByOne(f, p, unit)
      BY <2>11, FirstRounds, Zenon
    <3> QED BY <3>1, Zenon DEF OneByOne
  <2>14. f[1] = AfterPart(T, t, k + n, a + n, o)
    BY <2>1, <2>7, <2>9, <2>12, <2>13, Zenon DEF InStep, IsAdded
  <2>15. PICK b \in Nat : b = a + n
    BY <2>5, <2>7
  <2>16. PICK i \in 0 .. MaxLoops : i = 1
    BY SizesAre
  <2>17. k2 = k + n /\ (k2 # t => b >= Payload)
    <3>1. k2 = k + n
      BY <2>2, <2>4, Zenon
    <3>2. b = n
      BY ONLY <2>5, <2>7, <2>15
    <3>3. t = k + L
      BY <1>3, <1>4, <2>2, <2>3
    <3> QED BY ONLY <1>3, <2>5, <3>1, <3>2, <3>3
  <2>18. Skips(p, unit, b)
    BY <2>1, Zenon DEF Skips
  <2>19. f[i] = AfterPart(T, t, k2, b, o)
    BY <2>14, <2>15, <2>16, <2>17, Zenon
  <2>20. Leaves(decoded, T, t, k2, o)
    BY <1>5, <2>11, <2>17, <2>18, <2>19, PartEnds, Zenon
  <2>21. Have(o, T, inStep, T2)
    BY <1>3, <2>2, <2>7 DEF Have
  <2>22. ComesRight(decoded, T, c, inStep, T2, t2, k2, L2)
    BY <1>3, <1>4, <1>6, <1>8, <2>2, <2>20, <2>21, LeavesRight, Zenon
  <2> QED BY <1>5, <2>22, Zenon
<1>9. CASE c = 1
  <2>1. unit = TRUE /\ n1 \in Totals /\ IsSent(p, T, t, k, 1, L, n1, n2)
    BY <1>1, <1>9 DEF Packs
  <2>2. PICK i, o : /\ i \in 0 .. 1 /\ IsAt(Sections!Rounds(section, p, TRUE)[i], 1 + L, o)
                  /\ Have(o, T, inStep, T + 1)
    <3>1. CASE inStep
      <4>1. InStep(d, length, T, t, k, L)
        BY <3>1
      <4>2. IsAt(Sections!Rounds(section, p, TRUE)[1], 1 + L, Append(<<>>, T))
        BY <1>5, <2>1, <4>1, RestComes, Zenon
      <4>3. Have(<<>>, T, inStep, T)
        BY <1>3 DEF Have
      <4>4. PICK o : o = <<>>
        OBVIOUS
      <4>5. Have(Append(o, T), T, inStep, T + 1)
        BY <1>3, <1>6, <3>1, <4>3, <4>4, OneMore
      <4>6. 1 \in 0 .. 1
        OBVIOUS
      <4> QED BY <4>2, <4>4, <4>5, <4>6, Zenon
    <3>2. CASE ~inStep
      <4>1. IsAt(Sections!Rounds(section, p, TRUE)[0], 1 + L, <<>>)
        <5>1. section = [data |-> <<>>, length |-> -1]
          BY <1>5, <3>2, Zenon DEF IsNothing
        <5> QED BY <2>1, <5>1, RestIsSkipped, Zenon
      <4>2. Have(<<>>, T, inStep, T + 1)
        BY <1>3, <3>2 DEF Have
      <4>3. 0 \in 0 .. 1
        OBVIOUS
      <4> QED BY <4>1, <4>2, <4>3, Zenon
    <3> QED BY <3>1, <3>2
  <2>3. Results(Sections!Decoded(section, p, TRUE), T, L, n1, n2, o)
    BY <2>1, <2>2, NewsCome, Zenon
  <2>4. Results(decoded, T, L, n1, n2, o)
    BY <1>5, <2>1, <2>3, Zenon
  <2>5. CASE n2 = 0
    <3>1. T2 = T + 1 /\ t2 = n1 /\ k2 = Share(n1, Payload - (1 + L))
      BY <1>9, <2>5 DEF Moves
    <3>2. Leaves(decoded, T2, t2, k2, o)
      BY <2>4, <2>5, <3>1, Zenon DEF Results
    <3>3. T2 > 0 /\ Have(o, T, inStep, T2)
      BY <1>3, <2>2, <3>1
    <3>4. ComesRight(decoded, T, c, inStep, T2, t2, k2, L2)
      BY <1>3, <1>4, <1>9, <3>2, <3>3, LeavesRight, Zenon
    <3> QED BY <1>5, <3>4, Zenon
  <2>6. CASE n2 # 0
    <3>1. T2 = T + 2 /\ t2 = n2 /\ k2 = Share(n2, Payload - (1 + L + n1))
      BY <1>9, <2>6 DEF Moves
    <3>2. PICK T1 \in Nat : T1 = T + 1 /\ T1 > 0 /\ T1 + 1 = T2
      BY <1>3, <3>1
    <3>3. PICK z : z = Append(o, T1)
      OBVIOUS
    <3>4. Leaves(decoded, T2, t2, k2, z)
      BY <2>4, <2>6, <3>1, <3>2, <3>3, Zenon DEF Results
    <3>5. Have(z, T, inStep, T2)
      <4>1. Have(o, T, inStep, T1)
        BY <2>2, <3>2
      <4>2. Have(Append(o, T1), T, inStep, T1 + 1)
        BY <1>3, <3>2, <4>1, OneMore
      <4> QED BY <3>2, <3>3, <4>2
    <3>6. T2 > 0
      BY <3>2
    <3>7. ComesRight(decoded, T, c, inStep, T2, t2, k2, L2)
      BY <1>3, <1>4, <1>9, <3>4, <3>5, <3>6, LeavesRight, Zenon
    <3> QED BY <1>5, <3>7, Zenon
  <2> QED BY <2>5, <2>6
<1>10. c = 0 \/ c = 1
  BY <1>3
<1> QED BY <1>7, <1>8, <1>9, <1>10

\* What has come out: sections that have been sent to their ends, in their order.
GotInv(g, T, L) ==
  /\ g \in Seq(Nat)
  /\ \A i \in DOMAIN g : g[i] <= T /\ (g[i] = T /\ T > 0 => L = 0)
  /\ \A i, j \in DOMAIN g : i < j /\ g[i] > 0 /\ g[j] > 0 => g[i] < g[j]

IsNewer(o, T, L, T2, L2) ==
  /\ o \in Seq(Nat)
  /\ \A i \in DOMAIN o : o[i] > 0 => (o[i] > T \/ (o[i] = T /\ L > 0)) /\ o[i] <= T2 /\ (o[i] = T2 => L2 = 0)
  /\ \A i, j \in DOMAIN o : i < j /\ o[i] > 0 /\ o[j] > 0 => o[i] < o[j]

GoesUp(T, L, T2) == T \in Nat /\ T2 \in Nat /\ T2 > 0 /\ L \in Nat /\ T <= T2 /\ (T2 = T => L > 0)

LEMMA MovesUp ==
  ASSUME NEW T, NEW t, NEW k, NEW c, NEW L, NEW n1, NEW n2, Packs(T, t, k, c, L, n1, n2),
         NEW T2, NEW t2, NEW k2, NEW L2, Moves(T, t, k, c, L, n1, n2, T2, t2, k2, L2)
  PROVE  GoesUp(T, L, T2) /\ (T2 = T => k2 > k /\ c = 0) /\ (c = 1 => T2 > T) /\ k \in Nat /\ k2 \in Nat
<1>1. HasRoom(T, t, k, c, L, n1, n2)
  BY Zenon DEF Packs
<1>2. T \in Nat /\ k \in Nat /\ L \in Nat /\ c \in 0 .. 1 /\ T2 \in Nat /\ k2 \in Nat
  BY <1>1, TotalIs DEF HasRoom, Moves
<1>3. c = 0 => L > 0 /\ T > 0
  BY <1>1 DEF Packs, HasRoom
<1>4. \/ c = 0 /\ T2 = T /\ k2 = k + Share(L, Payload)
      \/ c = 1 /\ (T2 = T + 1 \/ T2 = T + 2)
  BY DEF Moves
<1>5. L > 0 => Share(L, Payload) \in Nat /\ Share(L, Payload) > 0
  BY <1>2, SizesAre DEF Share
<1>6. GoesUp(T, L, T2)
  BY <1>2, <1>3, <1>4 DEF GoesUp
<1>7. (T2 = T => k2 > k /\ c = 0) /\ (c = 1 => T2 > T)
  BY ONLY <1>2, <1>3, <1>4, <1>5
<1> QED BY <1>2, <1>6, <1>7

LEMMA OutsAreNew ==
  ASSUME NEW p, NEW T, NEW t, NEW k, NEW c, NEW L, NEW n1, NEW n2, IsSent(p, T, t, k, c, L, n1, n2),
         NEW T2, NEW t2, NEW k2, NEW L2, Moves(T, t, k, c, L, n1, n2, T2, t2, k2, L2),
         NEW o, Outs(p, o, Payload)
  PROVE  IsNewer(o, T, L, T2, L2)
<1>1. IsPacket(p, T, t, k, c, L, n1, n2) /\ Packs(T, t, k, c, L, n1, n2) /\ HasRoom(T, t, k, c, L, n1, n2)
  BY Zenon DEF IsSent, Packs
<1>2. T \in Nat /\ k \in Nat /\ L \in Nat /\ n1 \in Nat /\ n2 \in Nat
  BY <1>1 DEF HasRoom
<1>3. ASSUME NEW i \in DOMAIN o, o[i] > 0
      PROVE  (o[i] > T \/ (o[i] = T /\ L > 0)) /\ o[i] <= T2 /\ (o[i] = T2 => L2 = 0)
  <2>1. PICK j \in 1 .. Payload : Ends(p[j]) /\ p[j].s = o[i]
    BY <1>3, Zenon DEF Outs
  <2>2. PICK x : x = o[i]
    OBVIOUS
  <2>3. EndsAt(p[j], j, T, c, L, n1, n2)
    BY <1>1, <2>1, ByteSays, Zenon
  <2>4. \/ x = T /\ L > 0 /\ j = c + L
        \/ x = T + 1 /\ n1 > 0 /\ j = c + L + n1
        \/ x = T + 2 /\ n2 > 0 /\ j = c + L + n1 + n2
    BY ONLY <2>1, <2>2, <2>3, Zenon DEF EndsAt
  <2>5. PICK N \in Nat : N = Payload
    BY SizesAre
  <2>6. j \in 1 .. N
    BY <2>5
  <2>7. (x > T \/ (x = T /\ L > 0)) /\ x <= T2 /\ (x = T2 => L2 = 0)
    <3>1. CASE c = 0
      <4>1. T2 = T /\ t2 = t /\ k2 = k + Share(L, Payload) /\ L2 = t2 - k2 /\ n1 = 0 /\ n2 = 0 /\ L > 0
        BY <1>1, <3>1 DEF Moves, Packs
      <4>2. t = k + L
        BY <1>1, <4>1 DEF HasRoom
      <4>3. x = T /\ j = L
        BY ONLY <1>2, <2>4, <3>1, <4>1
      <4>4. Share(L, Payload) = L
        BY ONLY <1>2, <2>5, <2>6, <4>3 DEF Share
      <4> QED BY <1>2, <4>1, <4>2, <4>3, <4>4
    <3>2. CASE c = 1 /\ n2 = 0
      <4>1. T2 = T + 1 /\ t2 = n1 /\ k2 = Share(n1, Payload - (1 + L)) /\ L2 = t2 - k2
        BY <3>2 DEF Moves
      <4>2. (x = T /\ L > 0) \/ (x = T + 1 /\ j = 1 + L + n1)
        BY ONLY <1>2, <2>4, <3>2
      <4>3. x = T + 1 => L2 = 0
        BY ONLY <1>2, <2>5, <2>6, <4>1, <4>2 DEF Share
      <4> QED BY ONLY <1>2, <4>1, <4>2, <4>3
    <3>3. CASE c = 1 /\ n2 # 0
      <4>1. T2 = T + 2 /\ t2 = n2 /\ k2 = Share(n2, Payload - (1 + L + n1)) /\ L2 = t2 - k2
        BY <3>3 DEF Moves
      <4>2. (x = T /\ L > 0) \/ x = T + 1 \/ (x = T + 2 /\ j = 1 + L + n1 + n2)
        BY ONLY <1>2, <2>4, <3>3
      <4>3. x = T + 2 => L2 = 0
        BY ONLY <1>2, <2>5, <2>6, <4>1, <4>2 DEF Share
      <4> QED BY ONLY <1>2, <4>1, <4>2, <4>3
    <3> QED BY <3>1, <3>2, <3>3 DEF Moves
  <2> QED BY <2>2, <2>7, Zenon
<1> QED BY <1>3, Zenon DEF IsNewer, Outs

LEMMA GotGrows ==
  ASSUME NEW g, NEW o, NEW T, NEW L, NEW T2, NEW L2, GotInv(g, T, L), IsNewer(o, T, L, T2, L2), GoesUp(T, L, T2)
  PROVE  GotInv(g \o o, T2, L2)
<1>1. /\ g \in Seq(Nat) /\ o \in Seq(Nat) /\ Len(g) \in Nat /\ Len(o) \in Nat
      /\ DOMAIN g = 1 .. Len(g) /\ DOMAIN o = 1 .. Len(o)
  BY DEF GotInv, IsNewer
<1>2. PICK G \in Nat, O \in Nat : G = Len(g) /\ O = Len(o)
  BY <1>1
<1>3. PICK z : z = g \o o
  OBVIOUS
<1>4. z \in Seq(Nat) /\ Len(z) = G + O
  BY <1>1, <1>2, <1>3
<1>5. DOMAIN z = 1 .. G + O
  BY <1>4
<1>6. ASSUME NEW i \in 1 .. G + O PROVE (i \in 1 .. G /\ z[i] = g[i]) \/ (i > G /\ i - G \in 1 .. O /\ z[i] = o[i - G])
  BY <1>1, <1>2, <1>3
<1>7. T \in Nat /\ T2 \in Nat /\ T2 > 0 /\ L \in Nat /\ T <= T2 /\ (T2 = T => L > 0)
  BY Zenon DEF GoesUp
<1>8. ASSUME NEW i \in 1 .. G PROVE g[i] \in Nat /\ g[i] <= T /\ (g[i] = T /\ T > 0 => L = 0)
  BY <1>1, <1>2 DEF GotInv
<1>9. ASSUME NEW i \in 1 .. O
      PROVE  /\ o[i] \in Nat
             /\ o[i] > 0 => (o[i] > T \/ (o[i] = T /\ L > 0)) /\ o[i] <= T2 /\ (o[i] = T2 => L2 = 0)
  BY <1>1, <1>2 DEF IsNewer
<1>10. ASSUME NEW i \in 1 .. G + O PROVE z[i] <= T2 /\ (z[i] = T2 /\ T2 > 0 => L2 = 0)
  <2>1. CASE i \in 1 .. G /\ z[i] = g[i]
    <3>1. PICK x \in Nat : x = z[i] /\ x <= T /\ (x = T /\ T > 0 => L = 0)
      BY <1>8, <2>1
    <3>2. x <= T2 /\ (x = T2 /\ T2 > 0 => L2 = 0)
      BY ONLY <1>7, <3>1, x \in Nat
    <3> QED BY <3>1, <3>2, Zenon
  <2>2. CASE i > G /\ i - G \in 1 .. O /\ z[i] = o[i - G]
    <3>1. PICK x \in Nat : x = z[i] /\ (x > 0 => x <= T2 /\ (x = T2 => L2 = 0))
      BY <1>9, <2>2
    <3>2. x <= T2 /\ (x = T2 /\ T2 > 0 => L2 = 0)
      BY ONLY <1>7, <3>1, x \in Nat
    <3> QED BY <3>1, <3>2, Zenon
  <2> QED BY <1>6, <2>1, <2>2
<1>11. ASSUME NEW i \in 1 .. G + O, NEW j \in 1 .. G + O, i < j, z[i] > 0, z[j] > 0 PROVE z[i] < z[j]
  <2>1. CASE i \in 1 .. G /\ j \in 1 .. G
    <3>1. z[i] = g[i] /\ z[j] = g[j]
      BY <1>6, <2>1
    <3> QED BY <1>1, <1>2, <1>11, <2>1, <3>1, Zenon DEF GotInv
  <2>2. CASE i \in 1 .. G /\ j > G
    <3>1. PICK x \in Nat : x = z[i] /\ x <= T /\ (x = T /\ T > 0 => L = 0)
      BY <1>6, <1>8, <2>2
    <3>2. PICK y \in Nat : y = z[j] /\ (y > 0 => y > T \/ (y = T /\ L > 0))
      BY <1>6, <1>9, <2>2
    <3>3. x > 0 /\ y > 0
      BY <1>11, <3>1, <3>2
    <3>4. x < y
      BY ONLY <1>7, <3>1, <3>2, <3>3, x \in Nat, y \in Nat
    <3> QED BY <3>1, <3>2, <3>4, Zenon
  <2>3. CASE i > G
    <3>1. i - G \in 1 .. O /\ j - G \in 1 .. O /\ z[i] = o[i - G] /\ z[j] = o[j - G] /\ i - G < j - G
      BY <1>6, <1>11, <2>3
    <3> QED BY <1>1, <1>2, <1>11, <3>1, Zenon DEF IsNewer
  <2> QED BY <2>1, <2>2, <2>3
<1> QED BY <1>3, <1>4, <1>5, <1>10, <1>11, Zenon DEF GotInv

LEMMA GotStays ==
  ASSUME NEW g, NEW T, NEW L, NEW T2, NEW L2, GotInv(g, T, L), GoesUp(T, L, T2)
  PROVE  GotInv(g, T2, L2)
<1>1. IsNewer(<<>>, T, L, T2, L2)
  BY DEF IsNewer
<1>2. GotInv(g \o <<>>, T2, L2)
  BY <1>1, GotGrows, Zenon
<1>3. g \in Seq(Nat)
  BY DEF GotInv
<1>4. g \o <<>> = g
  BY <1>3
<1> QED BY <1>2, <1>4, Zenon

\* What is there of a section is not all that has been sent of it.
Doomed(d, T, k) == Begins(d) => d[1].s < T \/ (d[1].s = T /\ k > Len(d))

\* A section whose rest has been lost; its length is only trusted with byte 1 there.
IsLate(d, length, T, k) == Pending(d, length) /\ Checked(d) /\ Doomed(d, T, k)

LEMMA DoomedMisses ==
  ASSUME NEW p, NEW T, NEW t, NEW k, NEW c, NEW L, NEW n1, NEW n2, IsSent(p, T, t, k, c, L, n1, n2),
         NEW d, NEW length, IsLate(d, length, T, k)
  PROVE  Misses(p, d)
<1>1. IsPacket(p, T, t, k, c, L, n1, n2) /\ HasRoom(T, t, k, c, L, n1, n2) /\ Doomed(d, T, k)
  BY Zenon DEF IsSent, Packs, IsLate
<1>2. d \in Seq(TheBytes) /\ Len(d) > 0
  BY DEF IsLate, Pending
<1>3. PICK X \in Nat : X = Len(d)
  BY <1>2
<1>4. d[1] \in TheBytes
  BY <1>2
<1>5. PICK s \in Int : s = d[1].s
  BY <1>4 DEF TheBytes
<1>6. ASSUME Begins(d), NEW j \in 1 .. Payload, p[j].s = d[1].s, p[j].k = Len(d) PROVE FALSE
  <2>1. SaysMore(p[j], T, k, L)
    BY <1>1, ByteSays, Zenon
  <2>2. s > 0
    BY <1>5, <1>6, Zenon DEF Begins
  <2>3. s > T \/ (s = T /\ X >= k)
    BY <1>3, <1>5, <1>6, <2>1, <2>2, Zenon DEF SaysMore
  <2>4. s < T \/ (s = T /\ k > X)
    BY <1>1, <1>3, <1>5, <1>6, Zenon DEF Doomed
  <2>5. T \in Nat /\ k \in Nat
    BY <1>1 DEF HasRoom
  <2> QED BY ONLY <2>3, <2>4, <2>5, s \in Int, X \in Nat
<1> QED BY <1>6, Zenon DEF Misses

LEMMA LateStays ==
  ASSUME NEW T, NEW L, NEW T2, GoesUp(T, L, T2), NEW k \in Nat, NEW k2 \in Nat, T2 = T => k2 > k,
         NEW d, NEW length, IsLate(d, length, T, k)
  PROVE  IsLate(d, length, T2, k2)
<1>1. Pending(d, length) /\ Checked(d) /\ Doomed(d, T, k)
  BY Zenon DEF IsLate
<1>2. d \in Seq(TheBytes) /\ Len(d) > 0
  BY <1>1 DEF Pending
<1>3. PICK X \in Nat : X = Len(d)
  BY <1>2
<1>4. d[1] \in TheBytes
  BY <1>2
<1>5. PICK s \in Int : s = d[1].s
  BY <1>4 DEF TheBytes
<1>6. ASSUME Begins(d) PROVE s < T2 \/ (s = T2 /\ k2 > X)
  <2>1. s < T \/ (s = T /\ k > X)
    BY <1>1, <1>3, <1>5, <1>6, Zenon DEF Doomed
  <2>2. T \in Nat /\ T2 \in Nat /\ T <= T2
    BY DEF GoesUp
  <2>3. k \in Nat /\ k2 \in Nat /\ (T2 = T => k2 > k)
    OBVIOUS
  <2> QED BY ONLY <2>1, <2>2, <2>3, s \in Int, X \in Nat
<1> QED BY <1>1, <1>3, <1>5, <1>6, Zenon DEF IsLate, Doomed

\* A section that is in step and misses a packet.
LEMMA InStepIsLate ==
  ASSUME NEW T, NEW t, NEW k, NEW c, NEW L, NEW n1, NEW n2, Packs(T, t, k, c, L, n1, n2),
         NEW T2 \in Nat, NEW k2 \in Nat, T2 >= T, T2 = T => k2 > k,
         NEW d, NEW length, InStep(d, length, T, t, k, L), k # 1
  PROVE  IsLate(d, length, T2, k2)
<1>1. L > 0 /\ d = Sections!SectionBytes(T, t, 0, k) /\ length = LengthWith(t, k)
  BY Zenon DEF InStep
<1>2. T \in 1 .. MaxSections /\ t \in Totals /\ k \in 1 .. t - 1 /\ T \in Nat /\ k \in Nat /\ t \in Nat
  BY <1>1, TotalIs DEF Packs, HasRoom
<1>3. Pending(d, length)
  BY <1>1, <1>2, InStepIsPending, Zenon
<1>4. d \in Seq(TheBytes) /\ Len(d) = k /\ \A i \in 1 .. k : d[i] = [s |-> T, k |-> 0 + i - 1, t |-> t]
  <2>1. HasPart(T, t, 0, k)
    <3>1. 0 \in Nat /\ 0 + k <= t
      BY <1>2
    <3> QED BY <1>2, <3>1, Zenon DEF HasPart
  <2>2. PICK z : z = 0
    OBVIOUS
  <2>3. IsPart(Sections!SectionBytes(T, t, z, k), T, t, z, k)
    BY <2>1, <2>2, SectionBytesAre, Zenon
  <2> QED BY <1>1, <2>2, <2>3, Zenon DEF IsPart
<1>5. k >= 2 /\ 1 \in 1 .. k /\ 2 \in 1 .. k /\ 0 + 2 - 1 = 1
  BY <1>2
<1>6. PICK b \in TheBytes : b = d[2]
  BY <1>4, <1>5
<1>7. b.s = T /\ b.k = 1
  BY <1>4, <1>5, <1>6
<1>8. Sections!ByteAt(b) >= 128
  BY <1>2, <1>7, ByteIs
<1>9. Checked(d)
  <2>1. Len(d) >= 2
    BY <1>4, <1>5
  <2> QED BY <1>6, <1>8, <2>1, Zenon DEF Checked
<1>10. d[1].s = T
  BY <1>4, <1>5
<1>11. T < T2 \/ (T = T2 /\ k2 > k)
  BY <1>2
<1> QED BY <1>3, <1>4, <1>9, <1>10, <1>11, Zenon DEF IsLate, Doomed

\* What so many packets that begin a section may be misread.
MayMisread(d, length, T, t, k, L, b) ==
  /\ b = 0 => IsNothing(d, length) \/ InStep(d, length, T, t, k, L)
  /\ b = 1 => \/ IsNothing(d, length) \/ InStep(d, length, T, t, k, L)
              \/ IsLate(d, length, T, k) /\ AtItsEnd(d, length)
  /\ b = 2 => IsNothing(d, length) \/ IsLate(d, length, T, k)

NextBehind(c, b) == IF c = 1 /\ b \in {1, 2} THEN b - 1 ELSE b

\* A section out of step after a packet: it goes, or waits for the next one that begins a section.
IsMisread(p, T, k, c, unit, d, length, b, decoded) ==
  /\ \E t, L, n1, n2 : IsSent(p, T, t, k, c, L, n1, n2)
  /\ IsUnit(unit, c) /\ Points(p, unit) /\ IsLate(d, length, T, k)
  /\ decoded = Sections!Decoded([data |-> d, length |-> length], p, unit)
  /\ \/ IsNothing(decoded.section.data, decoded.section.length)
     \/ Pending(decoded.section.data, decoded.section.length)
  /\ b = 2 \/ (b = 1 /\ AtItsEnd(d, length))

IsLeft(decoded, T2, t2, k2, L2, b2) ==
  /\ MayMisread(decoded.section.data, decoded.section.length, T2, t2, k2, L2, b2)
  /\ \A i \in DOMAIN decoded.out : decoded.out[i] # 0

LEMMA LateAfter ==
  ASSUME NEW p, NEW T, NEW k, NEW c, NEW unit, NEW d, NEW length, NEW b, NEW decoded,
         IsMisread(p, T, k, c, unit, d, length, b, decoded), NEW T2, NEW t2, NEW k2, NEW L2
  PROVE  IsLeft(decoded, T2, t2, k2, L2, NextBehind(c, b))
<1>0. PICK t, L, n1, n2 : IsSent(p, T, t, k, c, L, n1, n2)
  BY Zenon DEF IsMisread
<1> SUFFICES ASSUME unit \in BOOLEAN, unit <=> c = 1, Points(p, unit), IsLate(d, length, T, k),
                    decoded = Sections!Decoded([data |-> d, length |-> length], p, unit),
                    IsNothing(decoded.section.data, decoded.section.length)
                      \/ Pending(decoded.section.data, decoded.section.length),
                    b = 2 \/ (b = 1 /\ AtItsEnd(d, length))
             PROVE  /\ MayMisread(decoded.section.data, decoded.section.length, T2, t2, k2, L2, NextBehind(c, b))
                    /\ decoded.out = <<>>
  <2>1. ASSUME decoded.out = <<>> PROVE \A i \in DOMAIN decoded.out : decoded.out[i] # 0
    BY <2>1
  <2> QED BY <2>1, Zenon DEF IsMisread, IsUnit, IsLeft
<1>1. p \in Seq(TheBytes) /\ Len(p) = Payload
  BY <1>0, Zenon DEF IsSent, IsPacket
<1>2. Pending(d, length) /\ Checked(d) /\ Misses(p, d)
  BY <1>0, DoomedMisses, Zenon DEF IsLate
<1>3. c \in 0 .. 1
  BY <1>0 DEF IsSent, Packs, HasRoom
<1>4. PICK n : n = NextBehind(c, b)
  OBVIOUS
<1>5. ASSUME GivesOut(decoded, <<>>, -1, <<>>)
      PROVE  MayMisread(decoded.section.data, decoded.section.length, T2, t2, k2, L2, n) /\ decoded.out = <<>>
  BY <1>5, Zenon DEF GivesOut, MayMisread, IsNothing
<1>6. CASE b = 1 /\ AtItsEnd(d, length)
  <2>1. GivesOut(decoded, <<>>, -1, <<>>)
    BY <1>1, <1>2, <1>6, NextEndsIt, Zenon
  <2> QED BY <1>4, <1>5, <2>1, Zenon
<1>7. CASE b = 2
  <2>1. \/ GivesOut(decoded, <<>>, -1, <<>>)
        \/ \E dd, ll : GivesOut(decoded, dd, ll, <<>>) /\ IsOutOfStep(unit, dd, ll)
    BY <1>1, <1>2, StaysOutOfStep, Zenon
  <2>2. CASE \E dd, ll : GivesOut(decoded, dd, ll, <<>>) /\ IsOutOfStep(unit, dd, ll)
    <3>1. PICK dd, ll : GivesOut(decoded, dd, ll, <<>>) /\ IsOutOfStep(unit, dd, ll)
      BY <2>2
    <3>2. decoded.section.data = dd /\ decoded.section.length = ll /\ decoded.out = <<>>
      BY <3>1, Zenon DEF GivesOut
    <3>3. Checked(dd) /\ ~Begins(dd) /\ (unit => AtItsEnd(dd, ll))
      BY <3>1, Zenon DEF IsOutOfStep
    <3>4. dd # <<>>
      <4>1. Len(dd) >= 2
        BY <3>3, Zenon DEF Checked
      <4> QED BY <4>1
    <3>5. Pending(dd, ll)
      BY <3>2, <3>4, Zenon DEF IsNothing
    <3>6. IsLate(dd, ll, T2, k2)
      BY <3>3, <3>5, Zenon DEF IsLate, Doomed
    <3>7. (c = 1 => n = 1) /\ (c = 0 => n = 2)
      BY <1>4, <1>7 DEF NextBehind
    <3>8. MayMisread(dd, ll, T2, t2, k2, L2, n)
      <4>1. CASE c = 1
        <5>1. n = 1 /\ n # 0 /\ n # 2 /\ unit
          BY <3>7, <4>1
        <5> QED BY <3>3, <3>6, <5>1, Zenon DEF MayMisread
      <4>2. CASE c = 0
        <5>1. n = 2 /\ n # 0 /\ n # 1
          BY <3>7, <4>2
        <5> QED BY <3>6, <5>1, Zenon DEF MayMisread
      <4> QED BY <1>3, <4>1, <4>2
    <3> QED BY <1>4, <3>2, <3>8, Zenon
  <2> QED BY <1>4, <1>5, <2>1, <2>2, Zenon
<1> QED BY <1>6, <1>7

IsRead(c, b, inStep) == (c = 0 \/ c = 1) /\ inStep \in BOOLEAN /\ (b = 0 \/ b = 1 \/ (b = 2 /\ ~inStep))

LEMMA RightAfter ==
  ASSUME NEW T, NEW c, NEW inStep, NEW b, IsRead(c, b, inStep), NEW T2, NEW t2, NEW k2, NEW L2, NEW decoded,
         ComesRight(decoded, T, c, inStep, T2, t2, k2, L2)
  PROVE  IsLeft(decoded, T2, t2, k2, L2, NextBehind(c, b))
<1> SUFFICES ASSUME c = 0 \/ c = 1, inStep \in BOOLEAN, b = 0 \/ b = 1 \/ (b = 2 /\ ~inStep)
             PROVE  /\ MayMisread(decoded.section.data, decoded.section.length, T2, t2, k2, L2, NextBehind(c, b))
                    /\ \A i \in DOMAIN decoded.out : decoded.out[i] # 0
  BY Zenon DEF IsRead, IsLeft
<1>1. PICK dd, ll, o : GivesOut(decoded, dd, ll, o) /\ IsRight(dd, ll, o, T, c, inStep, T2, t2, k2, L2)
  BY Zenon DEF ComesRight
<1>2. decoded.section.data = dd /\ decoded.section.length = ll /\ decoded.out = o
  BY <1>1, Zenon DEF GivesOut
<1>3. /\ IsNothing(dd, ll) \/ InStep(dd, ll, T2, t2, k2, L2)
      /\ c = 0 /\ ~inStep => IsNothing(dd, ll)
      /\ \A i \in DOMAIN o : o[i] # 0
  BY <1>1, Zenon DEF IsRight, Have
<1>4. PICK n : n = NextBehind(c, b)
  OBVIOUS
<1>5. n = 2 => c = 0 /\ ~inStep
  BY <1>4 DEF NextBehind
<1>6. MayMisread(dd, ll, T2, t2, k2, L2, n)
  BY <1>3, <1>5, Zenon DEF MayMisread
<1> QED BY <1>2, <1>3, <1>4, <1>6, Zenon

\* The decoder, for what has been sent.
DecoderIs(T, t, k, L, d, length, g, b, str, gd, du) ==
  /\ IsNothing(d, length) \/ Pending(d, length)
  /\ GotInv(g, T, L)
  /\ b \in 0 .. 3 /\ (b = 3 => str)
  /\ (\E i \in DOMAIN g : g[i] = 0) => str
  /\ MayMisread(d, length, T, t, k, L, b)
  /\ gd => b = 0 /\ (L > 0 => InStep(d, length, T, t, k, L))
  /\ \A s \in du : \E i \in DOMAIN g : g[i] = s

HasBoth(z, g, o) ==
  /\ \A x : (\E i \in DOMAIN z : z[i] = x) <=> (\E i \in DOMAIN g : g[i] = x) \/ (\E i \in DOMAIN o : o[i] = x)

LEMMA BothAreThere ==
  ASSUME NEW g \in Seq(Nat), NEW o \in Seq(Nat)
  PROVE  HasBoth(g \o o, g, o)
<1>1. PICK G \in Nat, O \in Nat : G = Len(g) /\ O = Len(o) /\ DOMAIN g = 1 .. G /\ DOMAIN o = 1 .. O
  OBVIOUS
<1>2. PICK z : z = g \o o
  OBVIOUS
<1>3. z \in Seq(Nat) /\ Len(z) = G + O
  BY <1>1, <1>2
<1>4. DOMAIN z = 1 .. G + O
  BY <1>3
<1>5. ASSUME NEW i \in 1 .. G + O PROVE (i \in 1 .. G /\ z[i] = g[i]) \/ (i - G \in 1 .. O /\ z[i] = o[i - G])
  BY <1>1, <1>2
<1>6. ASSUME NEW i \in 1 .. G PROVE i \in 1 .. G + O /\ z[i] = g[i]
  BY <1>1, <1>2
<1>7. ASSUME NEW i \in 1 .. O PROVE G + i \in 1 .. G + O /\ z[G + i] = o[i]
  BY <1>1, <1>2
<1>8. \A x : (\E i \in 1 .. G + O : z[i] = x) <=> (\E i \in 1 .. G : g[i] = x) \/ (\E i \in 1 .. O : o[i] = x)
  BY <1>5, <1>6, <1>7, Zenon
<1> QED BY <1>1, <1>2, <1>4, <1>8, Zenon DEF HasBoth

\* What should be there after a packet.
IsDue(du, du2, T, L, b, gd, T2, L2) ==
  \A s \in du2 : s \in du \/ /\ s \in Nat /\ s > 0 /\ (s < T2 \/ (s = T2 /\ L2 = 0))
                             /\ IF s > T THEN b = 0 ELSE s = T /\ L > 0 /\ gd

Outcome(decoded, g, T2, t2, k2, L2, b2, str, gd2, du2) ==
  DecoderIs(T2, t2, k2, L2, decoded.section.data, decoded.section.length, g \o decoded.out, b2, str, gd2, du2)

LEMMA PacketArrives ==
  ASSUME NEW p, NEW T, NEW t, NEW k, NEW c, NEW L, NEW n1, NEW n2, IsSent(p, T, t, k, c, L, n1, n2),
         NEW T2, NEW t2, NEW k2, NEW L2, Moves(T, t, k, c, L, n1, n2, T2, t2, k2, L2),
         NEW d, NEW length, NEW g, NEW b, NEW str, NEW gd, NEW du, DecoderIs(T, t, k, L, d, length, g, b, str, gd, du),
         NEW unit \in BOOLEAN, unit <=> c = 1,
         NEW decoded, decoded = Sections!Decoded([data |-> d, length |-> length], p, unit),
         NEW gd2, gd2 => IF c = 0 THEN gd ELSE b = 0, NEW du2, IsDue(du, du2, T, L, b, gd, T2, L2)
  PROVE  Outcome(decoded, g, T2, t2, k2, L2, NextBehind(c, b), str, gd2, du2)
<1>1. IsPacket(p, T, t, k, c, L, n1, n2) /\ Packs(T, t, k, c, L, n1, n2) /\ HasRoom(T, t, k, c, L, n1, n2)
  BY Zenon DEF IsSent, Packs
<1>2. p \in Seq(TheBytes) /\ Len(p) = Payload
  BY <1>1, Zenon DEF IsPacket
<1>3. T \in Nat /\ L \in Nat /\ k \in Nat /\ (c = 0 \/ c = 1) /\ T2 \in Nat /\ k2 \in Nat
  BY <1>1, TotalIs DEF HasRoom, Moves
<1>4. /\ IsNothing(d, length) \/ Pending(d, length)
      /\ GotInv(g, T, L)
      /\ b \in 0 .. 3 /\ (b = 3 => str)
      /\ (\E i \in DOMAIN g : g[i] = 0) => str
      /\ MayMisread(d, length, T, t, k, L, b)
      /\ gd => b = 0 /\ (L > 0 => InStep(d, length, T, t, k, L))
      /\ \A s \in du : \E i \in DOMAIN g : g[i] = s
  BY Zenon DEF DecoderIs
<1>5. unit => Sections!ByteAt(p[1]) + 1 \in 1 .. Payload - 1
  <2>1. SUFFICES ASSUME c = 1 PROVE Sections!ByteAt(p[1]) + 1 \in 1 .. Payload - 1
    OBVIOUS
  <2>2. Sections!ByteAt(p[1]) = L
    BY <1>1, <2>1, PacketPoints, Zenon
  <2>3. 1 + L < Payload
    BY <1>1, <1>3, <2>1, SizesAre, TotalIs DEF Packs
  <2> QED BY <1>3, <2>2, <2>3, SizesAre
<1>6. Points(p, unit)
  BY <1>5, Zenon DEF Points
<1>7. EndsInOrder(p)
  BY <1>1, PacketEndsInOrder, Zenon
<1>8. (d = <<>> /\ length = -1) \/ Pending(d, length)
  BY <1>4, Zenon DEF IsNothing
<1>9. PICK dd, ll, o : dd = decoded.section.data /\ ll = decoded.section.length /\ o = decoded.out
  OBVIOUS
<1>10. Outs(p, o, Payload) /\ (IsNothing(dd, ll) \/ Pending(dd, ll))
  BY <1>2, <1>5, <1>7, <1>8, <1>9, GoodComesOut, Zenon DEF IsNothing
<1>11. IsNewer(o, T, L, T2, L2)
  BY <1>10, OutsAreNew, Zenon
<1>12. GoesUp(T, L, T2)
  BY <1>1, MovesUp, Zenon
<1>13. GotInv(g \o o, T2, L2)
  BY <1>4, <1>11, <1>12, GotGrows, Zenon
<1>14. HasBoth(g \o o, g, o)
  BY <1>4, <1>11, BothAreThere, Zenon DEF GotInv, IsNewer
<1>15. PICK z : z = g \o o
  OBVIOUS
<1>16. PICK inStep \in BOOLEAN : inStep <=> InStep(d, length, T, t, k, L) /\ b # 2
  OBVIOUS
<1>17. PICK n : n = NextBehind(c, b)
  OBVIOUS
<1>18. ASSUME IsNothing(d, length) \/ inStep
       PROVE  ComesRight(decoded, T, c, inStep, T2, t2, k2, L2)
  <2>1. IF inStep THEN InStep(d, length, T, t, k, L) ELSE IsNothing(d, length)
    BY <1>16, <1>18
  <2>2. IsUnit(unit, c) /\ IsKnown(inStep, d, length, T, t, k, L)
    BY <2>1, Zenon DEF IsUnit, IsKnown
  <2>3. ComesRight(Sections!Decoded([data |-> d, length |-> length], p, unit), T, c, inStep, T2, t2, k2, L2)
    BY <2>2, StaysInStep, Zenon
  <2> QED BY <2>3, Zenon
<1>19. \/ b = 3
       \/ (b = 0 \/ b = 1 \/ (b = 2 /\ ~inStep)) /\ (IsNothing(d, length) \/ inStep)
       \/ (b = 2 \/ (b = 1 /\ AtItsEnd(d, length))) /\ IsLate(d, length, T, k)
  BY <1>4, <1>16 DEF MayMisread
<1>20. MayMisread(dd, ll, T2, t2, k2, L2, n) /\ (str \/ \A i \in DOMAIN o : o[i] # 0)
  <2>1. CASE b = 3
    <3>1. n # 0 /\ n # 1 /\ n # 2
      BY <1>17, <2>1 DEF NextBehind
    <3> QED BY <1>4, <2>1, <3>1, Zenon DEF MayMisread
  <2>2. CASE (b = 0 \/ b = 1 \/ (b = 2 /\ ~inStep)) /\ (IsNothing(d, length) \/ inStep)
    <3>1. ComesRight(decoded, T, c, inStep, T2, t2, k2, L2)
      BY <1>18, <2>2
    <3>2. IsRead(c, b, inStep)
      BY <1>3, <2>2, Zenon DEF IsRead
    <3>3. IsLeft(decoded, T2, t2, k2, L2, NextBehind(c, b))
      BY ONLY <3>1, <3>2, RightAfter, Zenon
    <3> QED BY <1>9, <1>17, <3>3, Zenon DEF IsLeft
  <2>3. CASE (b = 2 \/ (b = 1 /\ AtItsEnd(d, length))) /\ IsLate(d, length, T, k)
    <3>1. IsMisread(p, T, k, c, unit, d, length, b, decoded)
      BY <1>6, <1>9, <1>10, <2>3, Zenon DEF IsMisread, IsUnit
    <3>2. IsLeft(decoded, T2, t2, k2, L2, NextBehind(c, b))
      BY ONLY <3>1, LateAfter, Zenon
    <3> QED BY <1>9, <1>17, <3>2, Zenon DEF IsLeft
  <2> QED BY <1>19, <2>1, <2>2, <2>3
<1>21. n \in 0 .. 3 /\ (n = 3 => b = 3) /\ (b = 0 => n = 0)
  BY <1>4, <1>17 DEF NextBehind
<1>22. (\E i \in DOMAIN z : z[i] = 0) => str
  <2>1. PICK x : x = 0
    OBVIOUS
  <2> QED BY <1>4, <1>14, <1>15, <1>20, <2>1, Zenon DEF HasBoth
<1>23. ASSUME b = 0
       PROVE  IsRight(dd, ll, o, T, c, inStep, T2, t2, k2, L2)
  <2>1. IsNothing(d, length) \/ inStep
    BY <1>4, <1>16, <1>23 DEF MayMisread
  <2>2. ComesRight(decoded, T, c, inStep, T2, t2, k2, L2)
    BY <1>18, <2>1
  <2> QED BY <1>9, <2>2, Zenon DEF ComesRight, GivesOut
<1>24. gd /\ L > 0 => inStep
  BY <1>4, <1>16
<1>25. gd2 => n = 0 /\ (L2 > 0 => InStep(dd, ll, T2, t2, k2, L2))
  <2>1. SUFFICES ASSUME gd2 PROVE n = 0 /\ (L2 > 0 => InStep(dd, ll, T2, t2, k2, L2))
    OBVIOUS
  <2>2. b = 0
    BY <1>4, <2>1
  <2>3. c = 1 \/ inStep
    <3>1. CASE c = 1
      BY <3>1
    <3>2. CASE c = 0
      <4>1. gd /\ L > 0
        BY <1>1, <2>1, <3>2 DEF Packs
      <4> QED BY <1>24, <4>1
    <3> QED BY <1>3, <3>1, <3>2
  <2> QED BY <1>21, <1>23, <2>2, <2>3, Zenon DEF IsRight
<1>26. ASSUME NEW s \in du2 PROVE \E i \in DOMAIN z : z[i] = s
  <2>1. CASE s \in du
    BY <1>4, <1>14, <1>15, <2>1, Zenon DEF HasBoth
  <2>2. CASE /\ s \in Nat /\ s > 0 /\ (s < T2 \/ (s = T2 /\ L2 = 0))
             /\ IF s > T THEN b = 0 ELSE s = T /\ L > 0 /\ gd
    <3>1. b = 0 /\ (s > T \/ (s = T /\ inStep))
      BY <1>4, <1>24, <2>2
    <3>2. IF L2 = 0 THEN Have(o, T, inStep, T2 + 1) ELSE Have(o, T, inStep, T2)
      BY <1>23, <3>1, Zenon DEF IsRight
    <3>3. s < T2 + 1
      BY <1>3, <2>2
    <3>4. \E i \in DOMAIN o : o[i] = s
      BY <2>2, <3>1, <3>2, <3>3, Zenon DEF Have
    <3> QED BY <1>14, <1>15, <3>4, Zenon DEF HasBoth
  <2> QED BY <2>1, <2>2, Zenon DEF IsDue
<1>27. DecoderIs(T2, t2, k2, L2, dd, ll, z, n, str, gd2, du2)
  <2>1. n = 3 => str
    BY <1>4, <1>21
  <2> QED BY <1>10, <1>13, <1>15, <1>20, <1>21, <1>22, <1>25, <1>26, <2>1, Zenon DEF DecoderIs
<1> QED BY <1>9, <1>15, <1>17, <1>27, Zenon DEF Outcome

\* A packet does not come, or comes damaged.
IsLost(L, k, b, b2) == b2 = IF L = 0 THEN b ELSE IF k = 1 \/ b = 3 THEN 3 ELSE 2

LEMMA PacketIsLost ==
  ASSUME NEW T, NEW t, NEW k, NEW c, NEW L, NEW n1, NEW n2, Packs(T, t, k, c, L, n1, n2),
         NEW T2, NEW t2, NEW k2, NEW L2, Moves(T, t, k, c, L, n1, n2, T2, t2, k2, L2),
         NEW d, NEW length, NEW g, NEW b, NEW str, NEW gd, NEW du, DecoderIs(T, t, k, L, d, length, g, b, str, gd, du),
         NEW b2, IsLost(L, k, b, b2), NEW str2, str2 <=> str \/ b2 = 3, NEW gd2, ~gd2
  PROVE  DecoderIs(T2, t2, k2, L2, d, length, g, b2, str2, gd2, du)
<1>1. /\ IsNothing(d, length) \/ Pending(d, length)
      /\ GotInv(g, T, L)
      /\ b \in 0 .. 3 /\ (b = 3 => str)
      /\ (\E i \in DOMAIN g : g[i] = 0) => str
      /\ MayMisread(d, length, T, t, k, L, b)
      /\ \A s \in du : \E i \in DOMAIN g : g[i] = s
  BY Zenon DEF DecoderIs
<1>2. GoesUp(T, L, T2) /\ (T2 = T => k2 > k /\ c = 0) /\ (c = 1 => T2 > T) /\ k \in Nat /\ k2 \in Nat
  BY MovesUp, Zenon
<1>3. T \in Nat /\ T2 \in Nat /\ L \in Nat /\ T2 >= T
  BY <1>2 DEF GoesUp
<1>4. GotInv(g, T2, L2)
  BY <1>1, <1>2, GotStays, Zenon
<1>5. IsLate(d, length, T, k) => IsLate(d, length, T2, k2)
  BY <1>2, LateStays, Zenon
<1>6. b2 \in 0 .. 3 /\ (b2 = 3 => str2)
  BY <1>1 DEF IsLost
<1>7. MayMisread(d, length, T2, t2, k2, L2, b2)
  <2>1. CASE L = 0
    <3>1. b2 = b
      BY <2>1 DEF IsLost
    <3>2. ~InStep(d, length, T, t, k, L)
      BY <2>1 DEF InStep
    <3> QED BY <1>1, <1>5, <3>1, <3>2, Zenon DEF MayMisread
  <2>2. CASE L # 0 /\ (k = 1 \/ b = 3)
    <3>1. b2 # 0 /\ b2 # 1 /\ b2 # 2
      BY <2>2 DEF IsLost
    <3> QED BY <3>1, Zenon DEF MayMisread
  <2>3. CASE L # 0 /\ ~(k = 1 \/ b = 3)
    <3>1. b2 = 2 /\ b2 # 0 /\ b2 # 1 /\ (b = 0 \/ b = 1 \/ b = 2) /\ k # 1
      BY <1>1, <2>3 DEF IsLost
    <3>2. IsNothing(d, length) \/ InStep(d, length, T, t, k, L) \/ IsLate(d, length, T, k)
      BY <1>1, <3>1, Zenon DEF MayMisread
    <3>3. InStep(d, length, T, t, k, L) => IsLate(d, length, T2, k2)
      BY <1>2, <1>3, <3>1, InStepIsLate, Zenon
    <3> QED BY <1>5, <3>1, <3>2, <3>3, Zenon DEF MayMisread
  <2> QED BY <2>1, <2>2, <2>3
<1>8. (\E i \in DOMAIN g : g[i] = 0) => str2
  BY <1>1
<1> QED BY <1>1, <1>4, <1>6, <1>7, <1>8, Zenon DEF DecoderIs

LEMMA PacketIsDamaged ==
  ASSUME NEW T, NEW t, NEW k, NEW L, NEW T2, NEW t2, NEW k2, NEW L2,
         (T2 = T /\ L2 = L) \/ GoesUp(T, L, T2),
         NEW d, NEW length, NEW g, NEW b, NEW str, NEW gd, NEW du, DecoderIs(T, t, k, L, d, length, g, b, str, gd, du),
         NEW gd2, ~gd2
  PROVE  DecoderIs(T2, t2, k2, L2, <<>>, -1, g, 0, str, gd2, du)
<1>1. /\ GotInv(g, T, L)
      /\ (\E i \in DOMAIN g : g[i] = 0) => str
      /\ \A s \in du : \E i \in DOMAIN g : g[i] = s
  BY Zenon DEF DecoderIs
<1>2. GotInv(g, T2, L2)
  BY <1>1, GotStays, Zenon
<1>3. PICK b2, d2, l2 : b2 = 0 /\ d2 = <<>> /\ l2 = -1
  OBVIOUS
<1>4. IsNothing(d2, l2)
  BY <1>3, Zenon DEF IsNothing
<1>5. b2 \in 0 .. 3 /\ b2 # 3
  BY <1>3
<1>6. b2 # 1 /\ b2 # 2
  BY <1>3
<1>7. MayMisread(d2, l2, T2, t2, k2, L2, b2)
  BY <1>4, <1>6, Zenon DEF MayMisread
<1>8. DecoderIs(T2, t2, k2, L2, d2, l2, g, b2, str, gd2, du)
  BY <1>1, <1>2, <1>4, <1>5, <1>7, Zenon DEF DecoderIs
<1> QED BY <1>3, <1>8, Zenon

\* The inductive invariant: section T is the last one begun, k of its t bytes have been sent and L
\* are left.
SectionsInv ==
  /\ SentInv
  /\ \E T, t, k, L :
       /\ IsNow(T, t, k, L)
       /\ DecoderIs(T, t, k, L, data, section_length, got, behind, strayed, good, dueSections)

LEMMA SectionsBegin ==
  ASSUME Sections!Init
  PROVE  SectionsInv
<1>1. /\ totals = <<>> /\ sent = 0 /\ data = <<>> /\ section_length = -1 /\ got = <<>>
      /\ behind = 0 /\ strayed = FALSE /\ good = FALSE /\ dueSections = {}
  BY DEF Sections!Init, Sections!Unknown
<1>2. PICK T, t, k, L : T = Len(totals) /\ t = totals[Len(totals)] /\ k = sent /\ L = Sections!Left
  OBVIOUS
<1>3. T = 0 /\ L = 0 /\ k = 0
  BY <1>1, <1>2 DEF Sections!Left
<1>4. SentInv
  BY <1>1, SizesAre DEF SentInv
<1>5. IsNow(T, t, k, L)
  BY <1>2, Zenon DEF IsNow
<1>6. GotInv(got, T, L)
  BY <1>1, <1>3 DEF GotInv
<1>7. IsNothing(data, section_length) /\ behind # 1 /\ behind # 2 /\ behind # 3 /\ behind \in 0 .. 3
  BY <1>1 DEF IsNothing
<1>8. MayMisread(data, section_length, T, t, k, L, behind)
  BY <1>7, Zenon DEF MayMisread
<1>9. (\A i \in DOMAIN got : FALSE) /\ ~good /\ \A s \in dueSections : FALSE
  BY <1>1
<1>10. DecoderIs(T, t, k, L, data, section_length, got, behind, strayed, good, dueSections)
  BY <1>6, <1>7, <1>8, <1>9, Zenon DEF DecoderIs
<1> QED BY <1>4, <1>5, <1>10, Zenon DEF SectionsInv

\* The packet that comes, or does not.
Coming(new, c, n1, n2, T, t, k, L, T2, t2, k2, L2) ==
  /\ SentInv /\ HasShape(new, c, n1, n2) /\ IsNow(T, t, k, L)
  /\ Packs(T, t, k, c, L, n1, n2) /\ Moves(T, t, k, c, L, n1, n2, T2, t2, k2, L2)

LEMMA NextPacket ==
  ASSUME SentInv, NEW T, NEW t, NEW k, NEW L, IsNow(T, t, k, L), NEW new \in Sections!News, Sections!Begin(new)
  PROVE  /\ SentInv'
         /\ \E c, n1, n2, T2, t2, k2, L2 : Coming(new, c, n1, n2, T, t, k, L, T2, t2, k2, L2) /\ IsNow(T2, t2, k2, L2)'
<1>1. Ready(new)
  BY Zenon DEF Ready, Sections!Begin
<1>2. PICK c, n1, n2 : HasShape(new, c, n1, n2)
  BY <1>1, NewsAre, Zenon
<1>3. SentInv' /\ \E T2, t2, k2, L2 : IsNow(T2, t2, k2, L2)' /\ Moves(T, t, k, c, L, n1, n2, T2, t2, k2, L2)
  BY <1>2, BeginIs, Zenon
<1>4. Packs(T, t, k, c, L, n1, n2)
  BY <1>2, PacksIs, Zenon
<1> QED BY <1>2, <1>3, <1>4, Zenon DEF Coming

LEMMA WhatIsDue ==
  ASSUME NEW new, NEW c, NEW n1, NEW n2, NEW T, NEW t, NEW k, NEW L, NEW T2, NEW t2, NEW k2, NEW L2,
         Coming(new, c, n1, n2, T, t, k, L, T2, t2, k2, L2), IsNow(T2, t2, k2, L2)', SentInv',
         dueSections' = Sections!DueAfter(new)
  PROVE  IsDue(dueSections, dueSections', T, L, behind, good, T2, L2)
<1>1. T = Len(totals) /\ L = Sections!Left
  BY DEF Coming, IsNow
<1>2. Len(totals') = T2 /\ totals'[Len(totals')] = t2 /\ sent' = k2 /\ totals' \in Seq(Totals)
  BY DEF IsNow, SentInv
<1>3. DOMAIN totals' = 1 .. T2 /\ T2 \in Nat /\ t2 \in Nat /\ k2 \in Nat /\ L2 = t2 - k2
  BY <1>2, TotalIs DEF Coming, Moves
<1>4. ASSUME NEW s \in dueSections', s \notin dueSections
      PROVE  /\ s \in Nat /\ s > 0 /\ (s < T2 \/ (s = T2 /\ L2 = 0))
             /\ IF s > T THEN behind = 0 ELSE s = T /\ L > 0 /\ good
  <2>1. /\ s \in DOMAIN totals' /\ (s < Len(totals') \/ sent' = totals'[s])
        /\ IF s > Len(totals) THEN behind = 0 ELSE s = Len(totals) /\ Sections!Left > 0 /\ good
    BY <1>4, Zenon DEF Sections!DueAfter
  <2>2. s \in 1 .. T2 /\ (s < T2 \/ sent' = totals'[s])
    BY <1>2, <1>3, <2>1, Zenon
  <2>3. s = T2 /\ sent' = totals'[s] => k2 = t2
    BY <1>2, Zenon
  <2>4. s \in Nat /\ s > 0 /\ (s < T2 \/ (s = T2 /\ L2 = 0))
    BY ONLY <1>3, <2>2, <2>3
  <2> QED BY <1>1, <2>1, <2>4, Zenon
<1> QED BY <1>4, Zenon DEF IsDue

LEMMA SectionArrives ==
  ASSUME SectionsInv, NEW new \in Sections!News, Sections!Arrives(new)
  PROVE  SectionsInv'
<1>1. PICK T, t, k, L :
        /\ SentInv /\ IsNow(T, t, k, L)
        /\ DecoderIs(T, t, k, L, data, section_length, got, behind, strayed, good, dueSections)
  BY Zenon DEF SectionsInv
<1>2. PICK decoded, unit : /\ unit = (new # <<>>)
                           /\ decoded = Sections!Decoded([data |-> data, length |-> section_length],
                                                         Sections!PacketOf(new), unit)
  OBVIOUS
<1>3. /\ Sections!Begin(new)
      /\ data' = decoded.section.data /\ section_length' = decoded.section.length
      /\ got' = got \o decoded.out
      /\ dueSections' = Sections!DueAfter(new)
      /\ good' = IF new = <<>> THEN good ELSE behind = 0
      /\ behind' = IF new # <<>> /\ behind \in {1, 2} THEN behind - 1 ELSE behind
      /\ strayed' = strayed
  BY <1>2, Zenon DEF Sections!Arrives
<1>4. PICK c, n1, n2, T2, t2, k2, L2 :
        SentInv' /\ Coming(new, c, n1, n2, T, t, k, L, T2, t2, k2, L2) /\ IsNow(T2, t2, k2, L2)'
  BY <1>1, <1>3, NextPacket, Zenon
<1>5. HasShape(new, c, n1, n2) /\ Moves(T, t, k, c, L, n1, n2, T2, t2, k2, L2)
  BY <1>4, Zenon DEF Coming
<1>6. (new = <<>> => c = 0) /\ (new # <<>> => c = 1) /\ (c = 0 \/ c = 1)
  BY <1>5 DEF HasShape
<1>7. unit \in BOOLEAN /\ (unit <=> c = 1)
  <2>1. new # <<>> <=> c = 1
    BY <1>6
  <2>2. (new # <<>>) \in BOOLEAN
    BY Zenon
  <2> QED BY <1>2, <2>1, <2>2, Zenon
<1>8. PICK p : p = Sections!PacketOf(new)
  OBVIOUS
<1>9. IsSent(p, T, t, k, c, L, n1, n2)
  BY <1>1, <1>5, <1>8, SentPacketIs, Zenon
<1>10. IsDue(dueSections, dueSections', T, L, behind, good, T2, L2)
  BY <1>3, <1>4, WhatIsDue, Zenon
<1>11. good' => IF c = 0 THEN good ELSE behind = 0
  <2>1. new = <<>> <=> c = 0
    BY <1>6
  <2> QED BY <1>3, <2>1, Zenon
<1>12. behind' = NextBehind(c, behind)
  BY <1>3, <1>6 DEF NextBehind
<1>13. PICK good2, due2, behind2 : good2 = good' /\ due2 = dueSections' /\ behind2 = behind'
  OBVIOUS
<1>14. decoded = Sections!Decoded([data |-> data, length |-> section_length], p, unit)
  BY <1>2, <1>8, Zenon
<1>15. Outcome(decoded, got, T2, t2, k2, L2, NextBehind(c, behind), strayed, good2, due2)
  BY <1>1, <1>5, <1>7, <1>9, <1>10, <1>11, <1>13, <1>14, PacketArrives, Zenon
<1>16. DecoderIs(T2, t2, k2, L2, data', section_length', got', behind', strayed', good', dueSections')
  BY <1>3, <1>12, <1>13, <1>15, Zenon DEF Outcome
<1> QED BY <1>4, <1>16, Zenon DEF SectionsInv

LEMMA SectionIsLost ==
  ASSUME SectionsInv, NEW new \in Sections!News, Sections!Lost(new)
  PROVE  SectionsInv'
<1>1. PICK T, t, k, L :
        /\ SentInv /\ IsNow(T, t, k, L)
        /\ DecoderIs(T, t, k, L, data, section_length, got, behind, strayed, good, dueSections)
  BY Zenon DEF SectionsInv
<1>2. /\ Sections!Begin(new)
      /\ behind' = IF Sections!Left = 0 THEN behind ELSE IF sent = 1 \/ behind = 3 THEN 3 ELSE 2
      /\ strayed' = (strayed \/ behind' = 3)
      /\ good' = FALSE
      /\ data' = data /\ section_length' = section_length /\ got' = got /\ dueSections' = dueSections
  BY Zenon DEF Sections!Lost
<1>3. PICK c, n1, n2, T2, t2, k2, L2 :
        SentInv' /\ Coming(new, c, n1, n2, T, t, k, L, T2, t2, k2, L2) /\ IsNow(T2, t2, k2, L2)'
  BY <1>1, <1>2, NextPacket, Zenon
<1>4. Packs(T, t, k, c, L, n1, n2) /\ Moves(T, t, k, c, L, n1, n2, T2, t2, k2, L2)
  BY <1>3, Zenon DEF Coming
<1>5. PICK b2, str2, gd2 : b2 = behind' /\ str2 = strayed' /\ gd2 = good'
  OBVIOUS
<1>6. IsLost(L, k, behind, b2)
  BY <1>1, <1>2, <1>5, Zenon DEF IsLost, IsNow
<1>7. (str2 <=> strayed \/ b2 = 3) /\ ~gd2
  BY <1>2, <1>5
<1>8. DecoderIs(T2, t2, k2, L2, data, section_length, got, b2, str2, gd2, dueSections)
  BY <1>1, <1>4, <1>6, <1>7, PacketIsLost, Zenon
<1>9. DecoderIs(T2, t2, k2, L2, data', section_length', got', behind', strayed', good', dueSections')
  BY <1>2, <1>5, <1>8, Zenon
<1> QED BY <1>3, <1>9, Zenon DEF SectionsInv

LEMMA SectionIsDamaged ==
  ASSUME SectionsInv, NEW new \in Sections!News, NEW mine \in BOOLEAN, Sections!Damaged(new, mine)
  PROVE  SectionsInv'
<1>1. PICK T, t, k, L :
        /\ SentInv /\ IsNow(T, t, k, L)
        /\ DecoderIs(T, t, k, L, data, section_length, got, behind, strayed, good, dueSections)
  BY Zenon DEF SectionsInv
<1>2. /\ IF mine THEN Sections!Begin(new) ELSE totals' = totals /\ sent' = sent
      /\ data' = <<>> /\ section_length' = -1 /\ behind' = 0 /\ good' = FALSE
      /\ got' = got /\ strayed' = strayed /\ dueSections' = dueSections
  BY DEF Sections!Damaged, Sections!Unknown
<1>3. PICK T2, t2, k2, L2 : SentInv' /\ IsNow(T2, t2, k2, L2)' /\ ((T2 = T /\ L2 = L) \/ GoesUp(T, L, T2))
  <2>1. CASE mine
    <3>1. PICK c, n1, n2, T2, t2, k2, L2 :
            SentInv' /\ Coming(new, c, n1, n2, T, t, k, L, T2, t2, k2, L2) /\ IsNow(T2, t2, k2, L2)'
      BY <1>1, <1>2, <2>1, NextPacket, Zenon
    <3>2. GoesUp(T, L, T2)
      BY <3>1, MovesUp, Zenon DEF Coming
    <3> QED BY <3>1, <3>2, Zenon
  <2>2. CASE ~mine
    <3>1. totals' = totals /\ sent' = sent
      BY <1>2, <2>2
    <3>2. SentInv' /\ IsNow(T, t, k, L)'
      BY <1>1, <3>1, Zenon DEF SentInv, IsNow, Sections!Left
    <3> QED BY <3>2, Zenon
  <2> QED BY <2>1, <2>2
<1>4. PICK gd2 : gd2 = good' /\ ~gd2
  BY <1>2
<1>5. DecoderIs(T2, t2, k2, L2, <<>>, -1, got, 0, strayed, gd2, dueSections)
  BY <1>1, <1>3, <1>4, PacketIsDamaged, Zenon
<1>6. DecoderIs(T2, t2, k2, L2, data', section_length', got', behind', strayed', good', dueSections')
  BY <1>2, <1>4, <1>5, Zenon
<1> QED BY <1>3, <1>6, Zenon DEF SectionsInv

LEMMA SectionsStep ==
  ASSUME SectionsInv, Sections!Next \/ UNCHANGED decoder
  PROVE  SectionsInv'
<1>1. CASE Sections!Next
  <2>1. PICK new \in Sections!News :
          Sections!Arrives(new) \/ Sections!Lost(new) \/ \E mine \in BOOLEAN : Sections!Damaged(new, mine)
    BY <1>1, Zenon DEF Sections!Next
  <2> QED BY <2>1, SectionArrives, SectionIsLost, SectionIsDamaged, Zenon
<1>2. CASE UNCHANGED decoder
  BY <1>2, Zenon DEF decoder, SectionsInv, SentInv, IsNow, Sections!Left
<1> QED BY <1>1, <1>2

\* However the server cuts and joins them, every section of a PAT or a PMT comes out of
\* CSectionDecoder, once and in order.  A lost packet costs the section that it cuts and those that
\* begin in the next two packets that begin one, and nothing else comes out, unless it is lost right
\* after the first byte of a section.
THEOREM SectionsComeOut == InputSpec => []SectionsArrive
<1> DEFINE Inv == part = "sections" => SectionsInv
<1>1. InputInit => Inv
  BY SectionsBegin DEF InputInit
<1>2. Inv /\ [InputNext]_inputVars => Inv'
  <2> SUFFICES ASSUME Inv, [InputNext]_inputVars, part' = "sections" PROVE SectionsInv'
    OBVIOUS
  <2>1. part = "sections"
    BY DEF InputNext, inputVars, Others
  <2> QED BY <2>1, SectionsOnly, SectionsStep
<1>3. Inv => SectionsArrive
  <2> SUFFICES ASSUME SectionsInv PROVE Sections!SectionsArrive
    BY DEF SectionsArrive
  <2>1. PICK T, t, k, L : DecoderIs(T, t, k, L, data, section_length, got, behind, strayed, good, dueSections)
    BY Zenon DEF SectionsInv
  <2>2. \A i, j \in DOMAIN got : i < j /\ got[i] > 0 /\ got[j] > 0 => got[i] < got[j]
    BY <2>1, Zenon DEF DecoderIs, GotInv
  <2>3. \A s \in dueSections : \E i \in DOMAIN got : got[i] = s
    BY <2>1, Zenon DEF DecoderIs
  <2>4. (\E i \in DOMAIN got : got[i] = 0) => strayed
    BY <2>1, Zenon DEF DecoderIs
  <2> QED BY <2>2, <2>3, <2>4, Zenon DEF Sections!SectionsArrive
<1> QED BY <1>1, <1>2, <1>3, PTL DEF InputSpec
=============================================================================
