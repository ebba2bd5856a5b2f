---------------------------- MODULE DataPathProofs ----------------------------
(***************************************************************************)
(* What holds of the stages that the data goes through, from the RTP        *)
(* packets to the tables of a channel, for every number of packets, tunes   *)
(* and calls.  The lemmas on sequences and folds are those of InputProofs.  *)
(***************************************************************************)
EXTENDS InputProofs

-----------------------------------------------------------------------------
(* SourceChain                                                             *)

Byte == [n : Nat, i : Nat, sync : BOOLEAN]

Before(a, b) == a.n < b.n \/ (a.n = b.n /\ a.i < b.i)
InOrder(s) == \A i, j \in 1 .. Len(s) : i < j => Before(s[i], s[j])
Precedes(s, t) == \A i \in 1 .. Len(s), j \in 1 .. Len(t) : Before(s[i], t[j])
UpTo(s, d) == \A i \in 1 .. Len(s) : s[i].n \in 0 .. d

\* The payloads so far, and those of them that are queued.
IsPayload(payload, n) ==
  /\ payload \in Seq(Byte) /\ Len(payload) <= BufferSize
  /\ \A i \in 1 .. Len(payload) : payload[i].n = n /\ payload[i].i = i
AreCome(payloads) ==
  payloads \in Seq(Seq(Byte)) /\ \A n \in 1 .. Len(payloads) : IsPayload(payloads[n], n)
AreQueued(q, payloads) ==
  /\ q \in Seq(Seq(Byte)) /\ Len(q) <= Len(payloads)
  /\ \A k \in 1 .. Len(q) : q[k] = payloads[Len(payloads) - Len(q) + k]

Kept(payloads, n) == Chain!IsWhole(payloads[n]) /\ (n = 1 \/ Chain!IsWhole(payloads[n - 1]))

\* What is read into: the whole buffer, or what is left of it behind a sync byte, up to whole packets.
HasSpace(buf, size) ==
  \/ buf = <<>> /\ size = BufferSize
  \/ buf # <<>> /\ buf[1].sync /\ size \in Nat \ {0} /\ (Len(buf) + size) % TransportPacketSize = 0

\* The payloads that the source has given to the framer.
Done == Len(came) - Len(chainQueue)

ChainType ==
  /\ AreCome(came) /\ AreQueued(chainQueue, came)
  /\ frame \in Seq(Byte) /\ submitted \in Seq(Byte) /\ room \in Nat
  /\ chainNeeds \in BOOLEAN /\ fSource \in BOOLEAN /\ ~internalError
  /\ afterGetting \in {"no", "call", "task"}

\* Who waits for whom.
CallInv ==
  /\ chainNeeds <=> fSource /\ afterGetting = "no"
  /\ ~fSource => afterGetting = "no"
  /\ chainNeeds => chainQueue = <<>>
  /\ afterGetting # "no" => Done >= 1

OrderInv ==
  /\ InOrder(submitted) /\ InOrder(frame) /\ Precedes(submitted, frame)
  /\ UpTo(submitted, Done) /\ UpTo(frame, Done)
  /\ Len(submitted) % TransportPacketSize = 0

\* A datagram of whole packets is submitted with whatever was in front of it, and leaves nothing.
FrameInv ==
  fSource =>
    /\ afterGetting = "no" => HasSpace(frame, room) /\ (Done = 0 \/ Chain!IsWhole(came[Done]) => frame = <<>>)
    /\ afterGetting # "no" /\ Chain!IsWhole(came[Done]) => Len(frame) >= TransportPacketSize /\ frame[1].sync
    /\ afterGetting # "no" /\ Kept(came, Done) => frame = came[Done]

ArrivedInv ==
  fSource => \A n \in 1 .. Done :
    Kept(came, n) => \/ \A i \in 1 .. Len(came[n]) : came[n][i] \in {submitted[j] : j \in 1 .. Len(submitted)}
                     \/ n = Done /\ afterGetting # "no"

ChainInv == ChainType /\ CallInv /\ OrderInv /\ FrameInv /\ ArrivedInv

\* Division with remainder.
LEMMA Divided ==
  ASSUME NEW a \in Nat, NEW d \in Nat \ {0}
  PROVE  a \div d \in Nat /\ a % d \in Nat /\ a % d < d /\ a = ((a \div d) * d) + (a % d)
OBVIOUS

LEMMA Multiples ==
  ASSUME NEW a \in Nat, NEW d \in Nat \ {0}, NEW most, most = (a \div d) * d
  PROVE  /\ most \in 0 .. a /\ most % d = 0
         /\ a % d = 0 => most = a
         /\ a >= d => most >= d
<1> DEFINE q == a \div d
           m == q * d
           e == m \div d
           r == m % d
<1>1. q \in Nat /\ m \in Nat /\ m <= a /\ (a % d = 0 => m = a)
  <2>1. q \in Nat /\ a % d \in Nat /\ a = m + (a % d)
    BY Divided
  <2>2. m \in Nat
    BY <2>1
  <2> HIDE DEF q, m
  <2> QED BY <2>1, <2>2
<1>2. a >= d => m >= d
  <2> SUFFICES ASSUME a >= d PROVE m >= d
    OBVIOUS
  <2>1. q >= 1
    BY Divided
  <2> QED BY <1>1, <2>1
<1>3. m % d = 0
  <2>1. e \in Nat /\ r \in Nat /\ r < d /\ m = (e * d) + r
    <3> HIDE DEF m
    <3> QED BY <1>1, Divided
  <2> HIDE DEF q, e, r
  <2>2. (q - e) * d = r
    BY <1>1, <2>1
  <2> HIDE DEF m
  <2>3. CASE q - e >= 1
    <3>1. (q - e) * d >= d
      BY <1>1, <2>1, <2>3
    <3> QED BY <2>1, <2>2, <3>1
  <2>4. CASE q - e <= 0 - 1
    <3>1. (q - e) * d <= 0 - d
      BY <1>1, <2>1, <2>4
    <3> QED BY <2>1, <2>2, <3>1
  <2>5. CASE q = e
    <3>1. r = 0
      BY <1>1, <2>1, <2>2, <2>5
    <3> QED BY <3>1 DEF r
  <2> QED BY <1>1, <2>1, <2>3, <2>4, <2>5
<1>4. most = m
  OBVIOUS
<1> HIDE DEF q, m
<1> QED BY <1>1, <1>2, <1>3, <1>4

LEMMA MultipleIsLarge ==
  ASSUME NEW a \in Nat \ {0}, NEW d \in Nat \ {0}, a % d = 0
  PROVE  a >= d
OBVIOUS

LEMMA UsedIs ==
  ASSUME NEW packet \in Seq(Byte), NEW size \in Nat
  PROVE  LET used == Chain!Used(packet, size)
         IN  /\ used \in Seq(Byte)
             /\ Len(used) = IF size < Len(packet) THEN size ELSE Len(packet)
             /\ \A i \in 1 .. Len(used) : i \in 1 .. Len(packet) /\ used[i] = packet[i]
             /\ size >= Len(packet) => used = packet
<1> DEFINE n == Chain!Min({size, Len(packet)})
<1>1. n = IF size < Len(packet) THEN size ELSE Len(packet)
  <2>1. \E x \in {size, Len(packet)} : \A y \in {size, Len(packet)} : x <= y
    OBVIOUS
  <2> QED BY <2>1 DEF Chain!Min
<1> HIDE DEF n
<1>2. n \in Nat /\ n <= Len(packet)
  BY <1>1
<1> DEFINE used == SubSeq(packet, 1, n)
<1>3. used \in Seq(Byte) /\ Len(used) = n /\ \A i \in 1 .. n : used[i] = packet[i]
  <2>1. \A i \in 1 .. n : packet[i] \in Byte
    BY <1>2
  <2>2. /\ used \in Seq(Byte) /\ Len(used) = IF 1 <= n THEN n - 1 + 1 ELSE 0
        /\ \A i \in 1 .. n - 1 + 1 : used[i] = packet[1 + i - 1]
    BY <1>2, <2>1, SubSeqProperties
  <2> HIDE DEF used
  <2> QED BY <1>2, <2>2
<1> HIDE DEF used
<1>4. size >= Len(packet) => used = packet
  BY <1>1, <1>3, SeqEqual
<1>5. Chain!Used(packet, size) = used
  BY DEF Chain!Used, used, n
<1> QED BY <1>1, <1>2, <1>3, <1>4, <1>5

LEMMA WholeIs ==
  ASSUME frame \in Seq(Byte)
  PROVE  /\ Chain!WholePackets \in Seq(Byte)
         /\ Len(Chain!WholePackets) <= Len(frame) /\ Len(Chain!WholePackets) % TransportPacketSize = 0
         /\ \A i \in 1 .. Len(Chain!WholePackets) : Chain!WholePackets[i] = frame[i]
         /\ Len(frame) % TransportPacketSize = 0 => Chain!WholePackets = frame
         /\ Len(frame) >= TransportPacketSize => Len(Chain!WholePackets) >= TransportPacketSize
<1> DEFINE n == (Len(frame) \div TransportPacketSize) * TransportPacketSize
<1>1. /\ n \in 0 .. Len(frame) /\ n % TransportPacketSize = 0
      /\ Len(frame) % TransportPacketSize = 0 => n = Len(frame)
      /\ Len(frame) >= TransportPacketSize => n >= TransportPacketSize
  <2>1. Len(frame) \in Nat /\ TransportPacketSize \in Nat \ {0}
    BY ChainAssumption
  <2>2. n = (Len(frame) \div TransportPacketSize) * TransportPacketSize
    OBVIOUS
  <2> HIDE DEF n
  <2> QED BY <2>1, <2>2, Multiples
<1>2. Chain!WholePackets = SubSeq(frame, 1, n)
  BY DEF Chain!WholePackets
<1> HIDE DEF n
<1>3. /\ SubSeq(frame, 1, n) \in Seq(Byte) /\ Len(SubSeq(frame, 1, n)) = n
      /\ \A i \in 1 .. n : SubSeq(frame, 1, n)[i] = frame[i]
  <2>1. \A i \in 1 .. n : frame[i] \in Byte
    BY <1>1
  <2>2. /\ SubSeq(frame, 1, n) \in Seq(Byte) /\ Len(SubSeq(frame, 1, n)) = IF 1 <= n THEN n - 1 + 1 ELSE 0
        /\ \A i \in 1 .. n - 1 + 1 : SubSeq(frame, 1, n)[i] = frame[1 + i - 1]
    BY <1>1, <2>1, SubSeqProperties
  <2> QED BY <1>1, <2>2
<1>4. n = Len(frame) => SubSeq(frame, 1, n) = frame
  BY SubSeqFull
<1> QED BY <1>1, <1>2, <1>3, <1>4

LEMMA SumOfMultiples ==
  ASSUME NEW a \in Nat, NEW b \in Nat, NEW d \in Nat \ {0}, a % d = 0, b % d = 0
  PROVE  (a + b) % d = 0
<1> DEFINE p == a \div d
           q == b \div d
           e == (a + b) \div d
           r == (a + b) % d
<1>1. p \in Nat /\ q \in Nat /\ a = p * d /\ b = q * d
  <2>1. p \in Nat /\ a = (p * d) + (a % d) /\ q \in Nat /\ b = (q * d) + (b % d)
    BY Divided
  <2>2. p * d \in Nat /\ q * d \in Nat
    BY <2>1
  <2> HIDE DEF p, q
  <2> QED BY <2>1, <2>2
<1>2. e \in Nat /\ r \in Nat /\ r < d /\ a + b = (e * d) + r
  BY Divided
<1> HIDE DEF p, q, e, r
<1>3. ((p + q) - e) * d = r
  BY <1>1, <1>2
<1>4. CASE (p + q) - e >= 1
  <2>1. ((p + q) - e) * d >= d
    BY <1>1, <1>2, <1>4
  <2> QED BY <1>2, <1>3, <2>1
<1>5. CASE (p + q) - e <= 0 - 1
  <2>1. ((p + q) - e) * d <= 0 - d
    BY <1>1, <1>2, <1>5
  <2> QED BY <1>2, <1>3, <2>1
<1>6. CASE p + q = e
  <2>1. r = 0
    BY <1>1, <1>2, <1>3, <1>6
  <2> QED BY <2>1 DEF r
<1> QED BY <1>1, <1>2, <1>4, <1>5, <1>6

\* The end of a frame is in front of what follows it.
LEMMA Joined ==
  ASSUME NEW s \in Seq(Byte), NEW t \in Seq(Byte), InOrder(s), InOrder(t), Precedes(s, t)
  PROVE  InOrder(s \o t)
<1>1. /\ Len(s) \in Nat /\ Len(t) \in Nat /\ Len(s \o t) = Len(s) + Len(t)
      /\ \A i \in 1 .. Len(s) + Len(t) : (s \o t)[i] = IF i <= Len(s) THEN s[i] ELSE t[i - Len(s)]
  BY ConcatProperties
<1> DEFINE u == s \o t
<1> HIDE DEF u
<1>2. ASSUME NEW i \in 1 .. Len(u), NEW j \in 1 .. Len(u), i < j PROVE Before(u[i], u[j])
  <2>1. Len(u) = Len(s) + Len(t) /\ \A k \in 1 .. Len(u) : u[k] = IF k <= Len(s) THEN s[k] ELSE t[k - Len(s)]
    BY <1>1 DEF u
  <2>2. CASE j <= Len(s)
    BY <1>1, <1>2, <2>1, <2>2 DEF InOrder
  <2>3. CASE i <= Len(s) /\ j > Len(s)
    <3>1. i \in 1 .. Len(s) /\ j - Len(s) \in 1 .. Len(t) /\ u[i] = s[i] /\ u[j] = t[j - Len(s)]
      BY <1>1, <2>1, <2>3
    <3> QED BY <3>1 DEF Precedes
  <2>4. CASE i > Len(s)
    <3>1. /\ i - Len(s) \in 1 .. Len(t) /\ j - Len(s) \in 1 .. Len(t) /\ i - Len(s) < j - Len(s)
          /\ u[i] = t[i - Len(s)] /\ u[j] = t[j - Len(s)]
      BY <1>1, <1>2, <2>1, <2>4
    <3> QED BY <3>1 DEF InOrder
  <2> QED BY <1>1, <2>1, <2>2, <2>3, <2>4
<1> QED BY <1>2 DEF InOrder, u

\* Both halves of a joined sequence.
LEMMA JoinedIs ==
  ASSUME NEW s \in Seq(Byte), NEW t \in Seq(Byte), NEW u, u = s \o t
  PROVE  /\ u \in Seq(Byte) /\ Len(u) = Len(s) + Len(t)
         /\ \A i \in 1 .. Len(s) : u[i] = s[i]
         /\ \A i \in 1 .. Len(t) : u[Len(s) + i] = t[i]
         /\ \A k \in 1 .. Len(u) : (k \in 1 .. Len(s) /\ u[k] = s[k])
                                     \/ (k - Len(s) \in 1 .. Len(t) /\ u[k] = t[k - Len(s)])
<1>1. /\ u \in Seq(Byte) /\ Len(s) \in Nat /\ Len(t) \in Nat /\ Len(u) = Len(s) + Len(t)
      /\ \A i \in 1 .. Len(s) + Len(t) : u[i] = IF i <= Len(s) THEN s[i] ELSE t[i - Len(s)]
  BY ConcatProperties
<1> QED BY <1>1

\* What the source does when it is asked for a frame, D payloads having been given before.
LEMMA ReadStep ==
  ASSUME NEW q, NEW buf \in Seq(Byte), NEW size \in Nat, Chain!DoGetNextFrame1(q, TRUE, buf, size),
         AreCome(came'), AreQueued(q, came'), submitted' \in Seq(Byte), fSource' = TRUE, ~internalError', room' = size,
         NEW D, D = Len(came') - Len(q),
         InOrder(submitted'), InOrder(buf), Precedes(submitted', buf), UpTo(submitted', D), UpTo(buf, D),
         Len(submitted') % TransportPacketSize = 0,
         HasSpace(buf, size), D = 0 \/ Chain!IsWhole(came'[D]) => buf = <<>>,
         \A n \in 1 .. D : Kept(came', n) =>
           \A i \in 1 .. Len(came'[n]) : came'[n][i] \in {submitted'[j] : j \in 1 .. Len(submitted')}
  PROVE  ChainInv'
<1>1. /\ q \in Seq(Seq(Byte)) /\ Len(q) \in Nat /\ Len(came') \in Nat /\ D \in Nat
      /\ \A k \in 1 .. Len(q) : q[k] = came'[D + k]
  BY DEF AreQueued, AreCome
<1>2. CASE q = <<>>
  <2>1. frame' = buf /\ chainQueue' = <<>> /\ chainNeeds' = TRUE /\ afterGetting' = "no"
    BY <1>2 DEF Chain!DoGetNextFrame1
  <2>2. Len(chainQueue') = 0 /\ Done' = D
    BY <1>2, <2>1, EmptySeq DEF Done
  <2>3. ChainType'
    BY <1>2, <2>1 DEF ChainType
  <2>4. CallInv'
    BY <2>1 DEF CallInv
  <2>5. OrderInv'
    BY <2>1, <2>2 DEF OrderInv
  <2>6. FrameInv'
    BY <2>1, <2>2 DEF FrameInv
  <2>7. ArrivedInv'
    BY <2>2 DEF ArrivedInv
  <2> QED BY <2>3, <2>4, <2>5, <2>6, <2>7 DEF ChainInv
<1>3. CASE q # <<>>
  <2> DEFINE p == Head(q)
             used == Chain!Used(p, size)
             tail == Tail(q)
  <2>1. /\ frame' = buf \o used /\ chainQueue' = tail /\ chainNeeds' = FALSE
        /\ afterGetting' \in {"call", "task"}
    BY <1>3 DEF Chain!DoGetNextFrame1
  <2>2. /\ Len(q) >= 1 /\ p = q[1] /\ tail \in Seq(Seq(Byte)) /\ Len(tail) = Len(q) - 1
        /\ \A k \in 1 .. Len(tail) : tail[k] = q[k + 1]
    BY <1>1, <1>3, EmptySeq, HeadTailProperties
  <2> HIDE DEF tail
  <2>3. p = came'[D + 1] /\ D + 1 \in 1 .. Len(came') /\ Done' = D + 1
    <3>1. q[1] = came'[D + 1] /\ Len(q) = Len(came') - D
      BY <1>1, <2>2
    <3>2. Len(chainQueue') = Len(q) - 1
      BY <2>1, <2>2
    <3> DEFINE rest == Len(chainQueue')
               all == Len(came')
               waits == Len(q)
    <3>3. /\ rest = waits - 1 /\ waits = all - D /\ all \in Nat /\ waits \in Nat /\ waits >= 1
          /\ p = q[1]
      BY <1>1, <2>2, <3>1, <3>2
    <3> HIDE DEF rest, all, waits, p
    <3>4. all - rest = D + 1 /\ D + 1 \in 1 .. all
      BY <1>1, <3>3
    <3> QED BY <3>1, <3>3, <3>4 DEF Done, rest, all
  <2>4. IsPayload(p, D + 1)
    BY <2>3 DEF AreCome
  <2>5. /\ p \in Seq(Byte) /\ Len(p) \in Nat /\ Len(p) <= BufferSize
        /\ \A i \in 1 .. Len(p) : p[i].n = D + 1 /\ p[i].i = i
    BY <2>4 DEF IsPayload
  <2> HIDE DEF p
  <2>6. /\ used \in Seq(Byte) /\ Len(used) = (IF size < Len(p) THEN size ELSE Len(p))
        /\ \A i \in 1 .. Len(used) : i \in 1 .. Len(p) /\ used[i] = p[i]
        /\ size >= Len(p) => used = p
    BY <2>5, UsedIs
  <2> HIDE DEF used
  <2>7. /\ frame' \in Seq(Byte) /\ Len(frame') = Len(buf) + Len(used)
        /\ \A i \in 1 .. Len(buf) : frame'[i] = buf[i]
        /\ \A k \in 1 .. Len(frame') : (k \in 1 .. Len(buf) /\ frame'[k] = buf[k])
                                         \/ (k - Len(buf) \in 1 .. Len(used) /\ frame'[k] = used[k - Len(buf)])
    <3>1. used \in Seq(Byte) /\ frame' = buf \o used
      BY <2>1, <2>6
    <3> QED BY <3>1, JoinedIs
  <2>8. \A i \in 1 .. Len(used) : used[i].n = D + 1 /\ used[i].i = i
    BY <1>1, <2>5, <2>6
  <2>9. ChainType'
    <3>1. AreQueued(chainQueue', came')
      <4>1. Len(came') - Len(chainQueue') = D + 1
        BY <2>3 DEF Done
      <4>2. ASSUME NEW k \in 1 .. Len(chainQueue') PROVE chainQueue'[k] = came'[D + 1 + k]
        <5>1. k \in Nat /\ k \in 1 .. Len(tail) /\ k + 1 \in 1 .. Len(q)
          BY <1>1, <2>1, <2>2
        <5>2. q[k + 1] = came'[D + (k + 1)]
          BY <1>1, <5>1
        <5>3. D + (k + 1) = D + 1 + k
          BY <1>1, <5>1
        <5>4. chainQueue'[k] = q[k + 1]
          BY <2>1, <2>2, <5>1
        <5> QED BY <5>2, <5>3, <5>4
      <4>3. Len(chainQueue') <= Len(came') /\ chainQueue' \in Seq(Seq(Byte))
        BY <1>1, <2>1, <2>2, <2>3
      <4> QED BY <4>1, <4>2, <4>3 DEF AreQueued
    <3> QED BY <2>1, <2>7, <3>1 DEF ChainType
  <2>10. CallInv'
    BY <1>1, <2>1, <2>3 DEF CallInv
  <2>11. OrderInv'
    <3>1. InOrder(used)
      BY <2>6, <2>8 DEF InOrder, Before
    <3>2. Precedes(buf, used)
      BY <1>1, <2>6, <2>8 DEF Precedes, Before, UpTo
    <3>3. InOrder(frame')
      BY <2>1, <2>6, <3>1, <3>2, Joined
    <3>4. Precedes(submitted', frame')
      <4> SUFFICES ASSUME NEW i \in 1 .. Len(submitted'), NEW k \in 1 .. Len(frame')
                   PROVE  Before(submitted'[i], frame'[k])
        BY DEF Precedes
      <4>1. CASE k \in 1 .. Len(buf) /\ frame'[k] = buf[k]
        BY <4>1 DEF Precedes
      <4>2. CASE k - Len(buf) \in 1 .. Len(used) /\ frame'[k] = used[k - Len(buf)]
        <5>1. frame'[k].n = D + 1
          BY <2>8, <4>2
        <5>2. submitted'[i].n <= D /\ submitted'[i].n \in Nat
          BY <1>1 DEF UpTo
        <5> QED BY <1>1, <5>1, <5>2 DEF Before
      <4> QED BY <2>7, <4>1, <4>2
    <3>5. UpTo(submitted', D + 1)
      BY <1>1 DEF UpTo
    <3>6. UpTo(frame', D + 1)
      <4> SUFFICES ASSUME NEW k \in 1 .. Len(frame') PROVE frame'[k].n \in 0 .. D + 1
        BY DEF UpTo
      <4>1. CASE k \in 1 .. Len(buf) /\ frame'[k] = buf[k]
        BY <1>1, <4>1 DEF UpTo
      <4>2. CASE k - Len(buf) \in 1 .. Len(used) /\ frame'[k] = used[k - Len(buf)]
        BY <1>1, <2>8, <4>2
      <4> QED BY <2>7, <4>1, <4>2
    <3> QED BY <2>3, <3>3, <3>4, <3>5, <3>6 DEF OrderInv
  <2>12. FrameInv'
    <3>1. ASSUME Chain!IsWhole(p) PROVE Len(frame') >= TransportPacketSize /\ frame'[1].sync
      <4>1. /\ p # <<>> /\ Len(p) % TransportPacketSize = 0 /\ p[1].sync
            /\ TransportPacketSize \in Nat \ {0} /\ BufferSize \in Nat
        BY <3>1, ChainAssumption DEF Chain!IsWhole
      <4>2. Len(p) # 0
        BY <2>5, <4>1, EmptySeq
      <4>3. Len(p) >= TransportPacketSize
        BY <2>5, <4>1, <4>2, MultipleIsLarge
      <4>4. CASE buf = <<>>
        <5>1. size = BufferSize /\ Len(buf) = 0
          BY <4>4, EmptySeq DEF HasSpace
        <5>2. used = p
          BY <2>5, <2>6, <5>1
        <5>3. frame' = p
          BY <2>1, <2>5, <4>4, <5>2, ConcatEmptySeq
        <5> QED BY <4>1, <4>3, <5>3
      <4>5. CASE buf # <<>>
        <5>1. buf[1].sync /\ size \in Nat \ {0} /\ (Len(buf) + size) % TransportPacketSize = 0
          BY <4>5 DEF HasSpace
        <5>2. Len(buf) \in Nat \ {0}
          BY <4>5, EmptySeq
        <5>3. frame'[1] = buf[1]
          BY <2>7, <5>2
        <5>4. Len(buf) + size >= TransportPacketSize
          BY <4>1, <5>1, <5>2, MultipleIsLarge
        <5>5. Len(frame') >= TransportPacketSize
          BY <2>5, <2>6, <2>7, <4>1, <4>3, <5>2, <5>4
        <5> QED BY <5>1, <5>3, <5>5
      <4> QED BY <4>4, <4>5
    <3>2. ASSUME Kept(came', D + 1) PROVE frame' = p
      <4>1. D = 0 \/ Chain!IsWhole(came'[D])
        BY <1>1, <3>2 DEF Kept
      <4>2. buf = <<>> /\ size = BufferSize
        BY <4>1 DEF HasSpace
      <4>3. used = p
        BY <2>5, <2>6, <4>2
      <4> QED BY <2>1, <2>5, <4>2, <4>3, ConcatEmptySeq
    <3> QED BY <2>1, <2>3, <3>1, <3>2 DEF FrameInv
  <2>13. ArrivedInv'
    <3> SUFFICES ASSUME NEW n \in 1 .. D + 1, Kept(came', n)
                 PROVE  \/ \A i \in 1 .. Len(came'[n]) : came'[n][i] \in {submitted'[j] : j \in 1 .. Len(submitted')}
                        \/ n = D + 1 /\ afterGetting' # "no"
      BY <2>3 DEF ArrivedInv
    <3>1. CASE n = D + 1
      BY <2>1, <3>1
    <3>2. CASE n # D + 1
      <4>1. D \in Nat
        BY <1>1
      <4>2. n \in 1 .. D
        BY <3>2, <4>1
      <4> QED BY <4>2
    <3> QED BY <3>1, <3>2
  <2> QED BY <2>9, <2>10, <2>11, <2>12, <2>13 DEF ChainInv
<1> QED BY <1>2, <1>3

LEMMA PayloadIs ==
  ASSUME NEW n \in Nat, NEW shape \in Payloads
  PROVE  IsPayload(Chain!PayloadOf(n, shape), n)
<1> DEFINE p == [i \in 1 .. Len(shape) |-> [n |-> n, i |-> i, sync |-> shape[i]]]
<1>1. shape \in Seq(BOOLEAN) /\ Len(shape) <= BufferSize
  BY ChainAssumption
<1>2. Len(shape) \in Nat /\ DOMAIN shape = 1 .. Len(shape) /\ \A i \in 1 .. Len(shape) : shape[i] \in BOOLEAN
  BY <1>1
<1>3. p \in [1 .. Len(shape) -> Byte]
  BY <1>2 DEF Byte
<1>4. Chain!PayloadOf(n, shape) = p
  BY <1>2 DEF Chain!PayloadOf
<1>5. \A i \in 1 .. Len(shape) : p[i].n = n /\ p[i].i = i
  OBVIOUS
<1> HIDE DEF p
<1>6. p \in Seq(Byte) /\ Len(p) = Len(shape)
  BY <1>2, <1>3
<1> QED BY <1>1, <1>4, <1>5, <1>6 DEF IsPayload

LEMMA ReadHandlerStep ==
  ASSUME ChainInv, NEW shapes \in Chain!SeqOf(Payloads, MaxAtOnce) \ {<<>>}, Chain!NetworkReadHandler(shapes)
  PROVE  ChainInv'
<1> DEFINE new == [k \in DOMAIN shapes |-> Chain!PayloadOf(Len(came) + k, shapes[k])]
           c == Len(came)
           q == chainQueue \o new
<1>1. /\ afterGetting # "call" /\ came' = came \o new /\ Chain!DoGetNextFrame1(q, chainNeeds, frame, room)
      /\ UNCHANGED <<room, fSource, submitted, internalError>>
  BY DEF Chain!NetworkReadHandler, Chain!Idle, Chain!sink
<1>2. ChainType /\ CallInv /\ OrderInv /\ FrameInv /\ ArrivedInv
  BY DEF ChainInv
<1>3. /\ came \in Seq(Seq(Byte)) /\ c \in Nat /\ chainQueue \in Seq(Seq(Byte)) /\ Len(chainQueue) \in Nat
      /\ Len(chainQueue) <= c
  BY <1>2 DEF ChainType, AreCome, AreQueued
<1>4. PICK m \in Nat : shapes \in [1 .. m -> Payloads]
  BY ChainAssumption DEF Chain!SeqOf
<1>5. /\ new \in Seq(Seq(Byte)) /\ Len(new) = m
      /\ \A k \in 1 .. m : IsPayload(new[k], c + k)
  <2>1. \A k \in 1 .. m : IsPayload(new[k], c + k)
    BY <1>3, <1>4, PayloadIs
  <2>2. new = [k \in 1 .. m |-> new[k]]
    BY <1>4
  <2> HIDE DEF new
  <2>3. \A k \in 1 .. m : new[k] \in Seq(Byte)
    BY <2>1 DEF IsPayload
  <2>4. new \in [1 .. m -> Seq(Byte)]
    BY <2>2, <2>3
  <2> QED BY <1>4, <2>1, <2>4
<1> HIDE DEF new
<1>6. /\ came' \in Seq(Seq(Byte)) /\ Len(came') = c + m
      /\ \A n \in 1 .. c + m : came'[n] = IF n <= c THEN came[n] ELSE new[n - c]
  BY <1>1, <1>3, <1>5, ConcatProperties
<1>7. /\ q \in Seq(Seq(Byte)) /\ Len(q) = Len(chainQueue) + m
      /\ \A k \in 1 .. Len(chainQueue) + m : q[k] = IF k <= Len(chainQueue) THEN chainQueue[k] ELSE new[k - Len(chainQueue)]
  BY <1>3, <1>5, ConcatProperties
<1> HIDE DEF q
<1>8. AreCome(came')
  <2> SUFFICES ASSUME NEW n \in 1 .. c + m PROVE IsPayload(came'[n], n)
    BY <1>6 DEF AreCome
  <2>1. CASE n <= c
    <3>1. n \in 1 .. Len(came) /\ came'[n] = came[n]
      BY <1>3, <1>6, <2>1
    <3>2. IsPayload(came[n], n)
      BY <1>2, <3>1 DEF ChainType, AreCome
    <3> QED BY <3>1, <3>2
  <2>2. CASE n > c
    <3>1. n - c \in 1 .. m /\ c + (n - c) = n /\ came'[n] = new[n - c]
      BY <1>3, <1>6, <2>2
    <3> QED BY <1>5, <3>1
  <2> QED BY <1>3, <2>1, <2>2
<1>9. Done = c - Len(chainQueue) /\ Done \in 0 .. c /\ Done = Len(came') - Len(q)
  BY <1>3, <1>6, <1>7 DEF Done
<1>10. AreQueued(q, came')
  <2> DEFINE w == Len(chainQueue)
  <2>1. \A k \in 1 .. w : chainQueue[k] = came[c - w + k]
    BY <1>2 DEF ChainType, AreQueued
  <2>2. w \in Nat /\ w <= c /\ Len(q) = w + m /\ (\A k \in 1 .. w + m : q[k] = IF k <= w THEN chainQueue[k] ELSE new[k - w])
    BY <1>3, <1>7
  <2>3. Len(came') - Len(q) = c - w
    BY <1>9
  <2> HIDE DEF w, c
  <2>4. ASSUME NEW k \in 1 .. w + m PROVE q[k] = came'[(c - w) + k]
    <3>1. CASE k <= w
      <4>1. (c - w) + k \in 1 .. c + m /\ (c - w) + k <= c /\ q[k] = chainQueue[k] /\ k \in 1 .. w
        BY <1>3, <2>2, <3>1
      <4> QED BY <1>6, <2>1, <4>1
    <3>2. CASE k > w
      <4>1. (c - w) + k \in 1 .. c + m /\ ~((c - w) + k <= c) /\ ((c - w) + k) - c = k - w /\ q[k] = new[k - w]
        BY <1>3, <2>2, <3>2
      <4> QED BY <1>6, <4>1
    <3> QED BY <2>2, <3>1, <3>2
  <2>5. Len(q) <= Len(came')
    BY <1>3, <1>6, <2>2
  <2> QED BY <1>7, <2>2, <2>3, <2>4, <2>5 DEF AreQueued
<1>11. \A n \in 1 .. Done : came'[n] = came[n]
  BY <1>3, <1>6, <1>9
<1>12. \A n \in 1 .. Done : Kept(came', n) <=> Kept(came, n)
  <2> SUFFICES ASSUME NEW n \in 1 .. Done PROVE Kept(came', n) <=> Kept(came, n)
    OBVIOUS
  <2>1. n # 1 => n - 1 \in 1 .. Done
    BY <1>9
  <2>2. came'[n] = came[n] /\ (n # 1 => came'[n - 1] = came[n - 1])
    BY <1>11, <2>1
  <2> QED BY <2>2 DEF Kept
<1>13. CASE chainNeeds
  <2>1. fSource = TRUE /\ afterGetting = "no"
    BY <1>2, <1>13 DEF CallInv, ChainType
  <2>2. Chain!DoGetNextFrame1(q, TRUE, frame, room)
    BY <1>1, <1>2, <1>13 DEF ChainType
  <2>3. frame \in Seq(Byte) /\ room \in Nat /\ submitted' \in Seq(Byte) /\ fSource' = TRUE /\ ~internalError' /\ room' = room
    BY <1>1, <1>2, <2>1 DEF ChainType
  <2>4. /\ InOrder(submitted') /\ InOrder(frame) /\ Precedes(submitted', frame)
        /\ UpTo(submitted', Done) /\ UpTo(frame, Done) /\ Len(submitted') % TransportPacketSize = 0
    BY <1>1, <1>2 DEF OrderInv
  <2>5. HasSpace(frame, room) /\ (Done = 0 \/ Chain!IsWhole(came'[Done]) => frame = <<>>)
    <3>1. Done # 0 => came'[Done] = came[Done]
      BY <1>9, <1>11
    <3> QED BY <1>2, <2>1, <3>1 DEF FrameInv
  <2>6. \A n \in 1 .. Done : Kept(came', n) =>
          \A i \in 1 .. Len(came'[n]) : came'[n][i] \in {submitted'[j] : j \in 1 .. Len(submitted')}
    BY <1>1, <1>2, <1>11, <1>12, <2>1 DEF ArrivedInv
  <2> QED BY <1>8, <1>9, <1>10, <2>2, <2>3, <2>4, <2>5, <2>6, ReadStep
<1>14. CASE ~chainNeeds
  <2>1. /\ frame' = frame /\ chainQueue' = q /\ chainNeeds' = FALSE /\ afterGetting' = afterGetting
    BY <1>1, <1>2, <1>14 DEF Chain!DoGetNextFrame1, ChainType
  <2>2. Done' = Done
    BY <1>9, <2>1 DEF Done
  <2>3. ChainType'
    BY <1>1, <1>2, <1>8, <1>10, <2>1 DEF ChainType
  <2>4. CallInv'
    BY <1>1, <1>2, <1>14, <2>1, <2>2 DEF CallInv
  <2>5. OrderInv'
    BY <1>1, <1>2, <2>1, <2>2 DEF OrderInv
  <2>6. FrameInv'
    <3>1. afterGetting # "no" => Done \in 1 .. Done
      BY <1>2, <1>9 DEF CallInv
    <3>2. fSource => afterGetting # "no"
      BY <1>2, <1>14 DEF CallInv
    <3> QED BY <1>1, <1>2, <1>11, <1>12, <2>1, <2>2, <3>1, <3>2 DEF FrameInv
  <2>7. ArrivedInv'
    BY <1>1, <1>2, <1>11, <1>12, <2>1, <2>2 DEF ArrivedInv
  <2> QED BY <2>3, <2>4, <2>5, <2>6, <2>7 DEF ChainInv
<1> QED BY <1>13, <1>14

\* The whole packets of a frame are bytes of the frame.
LEMMA WholeInOrder ==
  ASSUME ChainInv
  PROVE  /\ InOrder(Chain!WholePackets) /\ Precedes(submitted, Chain!WholePackets)
         /\ UpTo(Chain!WholePackets, Done)
<1> DEFINE w == Chain!WholePackets
<1>1. ChainType /\ OrderInv
  BY DEF ChainInv
<1>2. frame \in Seq(Byte) /\ submitted \in Seq(Byte)
  BY <1>1 DEF ChainType
<1>3. w \in Seq(Byte) /\ Len(w) <= Len(frame) /\ \A i \in 1 .. Len(w) : w[i] = frame[i]
  BY <1>2, WholeIs
<1> HIDE DEF w
<1>4. \A i \in 1 .. Len(w) : i \in 1 .. Len(frame)
  BY <1>2, <1>3
<1>5. InOrder(w)
  BY <1>1, <1>3, <1>4 DEF OrderInv, InOrder
<1>6. Precedes(submitted, w)
  BY <1>1, <1>3, <1>4 DEF OrderInv, Precedes
<1>7. UpTo(w, Done)
  BY <1>1, <1>3, <1>4 DEF OrderInv, UpTo
<1> QED BY <1>5, <1>6, <1>7 DEF w

LEMMA ClosesStep ==
  ASSUME ChainInv, Chain!Closes, afterGetting # "no", came' = came
  PROVE  ChainInv'
<1>1. /\ frame' = Chain!WholePackets /\ fSource' = FALSE /\ afterGetting' = "no"
      /\ UNCHANGED <<came, chainQueue, chainNeeds, room, submitted, internalError>>
  BY DEF Chain!Closes, Chain!Detached
<1>2. ChainType /\ CallInv /\ OrderInv
  BY DEF ChainInv
<1>3. Done' = Done
  BY <1>1 DEF Done
<1>4. ChainType'
  BY <1>1, <1>2, WholeIs DEF ChainType
<1>5. CallInv'
  BY <1>1, <1>2 DEF CallInv, ChainType
<1>6. OrderInv'
  BY <1>1, <1>2, <1>3, WholeInOrder DEF OrderInv
<1>7. FrameInv' /\ ArrivedInv'
  BY <1>1 DEF FrameInv, ArrivedInv
<1> QED BY <1>4, <1>5, <1>6, <1>7 DEF ChainInv

\* A callback has been given a payload that has come.
LEMMA GivenIs ==
  ASSUME ChainInv, afterGetting # "no"
  PROVE  /\ fSource = TRUE /\ Done \in 1 .. Len(came) /\ came \in Seq(Seq(Byte))
         /\ frame \in Seq(Byte) /\ submitted \in Seq(Byte) /\ ~internalError
         /\ AreCome(came) /\ AreQueued(chainQueue, came) /\ Done = Len(came) - Len(chainQueue)
<1>1. ChainType /\ CallInv
  BY DEF ChainInv
<1>2. Len(came) \in Nat /\ Len(chainQueue) \in Nat /\ Len(chainQueue) <= Len(came)
  BY <1>1 DEF ChainType, AreCome, AreQueued
<1>3. Done >= 1 /\ Done = Len(came) - Len(chainQueue)
  BY <1>1 DEF CallInv, Done
<1>4. Done \in 1 .. Len(came)
  BY <1>2, <1>3
<1> QED BY <1>1, <1>3, <1>4 DEF ChainType, CallInv, AreCome

\* The least of the sync bytes.
LEMMA FirstSync ==
  ASSUME NEW w \in Seq(Byte), Chain!Syncs(w) # {}
  PROVE  /\ Chain!Min(Chain!Syncs(w)) \in 1 .. Len(w) /\ w[Chain!Min(Chain!Syncs(w))].sync
         /\ \A i \in 1 .. Len(w) : w[i].sync => Chain!Min(Chain!Syncs(w)) <= i
<1> DEFINE S == Chain!Syncs(w)
<1>1. S = {i \in 1 .. Len(w) : w[i].sync}
  BY DEF Chain!Syncs
<1>5. S # {}
  OBVIOUS
<1> HIDE DEF S
<1>2. S \subseteq Nat /\ S # {}
  BY <1>1, <1>5
<1>3. \E x \in S : \A y \in S : x <= y
  BY <1>2, LeastOf
<1>4. Chain!Min(S) \in S /\ \A y \in S : Chain!Min(S) <= y
  BY <1>3 DEF Chain!Min
<1> QED BY <1>1, <1>4 DEF S

LEMMA SubmitsStep ==
  ASSUME ChainInv, Chain!Submits, afterGetting # "no", came' = came
  PROVE  ChainInv'
<1> DEFINE w == Chain!WholePackets
           D == Done
<1>1. /\ submitted' = submitted \o w /\ fSource' = fSource /\ room' = BufferSize
      /\ internalError' = (Chain!Awaiting(Chain!Chain) \cap Chain!Chain # {})
      /\ Chain!DoGetNextFrame1(chainQueue, TRUE, <<>>, BufferSize) /\ w[1].sync
  BY DEF Chain!Submits, Chain!ReadSource
<1>2. ~internalError'
  BY <1>1 DEF Chain!Awaiting
<1>3. OrderInv /\ FrameInv /\ ArrivedInv
  BY DEF ChainInv
<1>4. /\ fSource = TRUE /\ D \in 1 .. Len(came) /\ frame \in Seq(Byte) /\ submitted \in Seq(Byte)
      /\ AreCome(came) /\ AreQueued(chainQueue, came) /\ D = Len(came) - Len(chainQueue)
  BY GivenIs
<1>5. /\ w \in Seq(Byte) /\ Len(w) % TransportPacketSize = 0
      /\ Len(frame) % TransportPacketSize = 0 => w = frame
  BY <1>4, WholeIs
<1>6. InOrder(w) /\ Precedes(submitted, w) /\ UpTo(w, D)
  BY WholeInOrder
<1> HIDE DEF w, D
<1>7. /\ submitted' \in Seq(Byte) /\ Len(submitted') = Len(submitted) + Len(w)
      /\ \A i \in 1 .. Len(submitted) : submitted'[i] = submitted[i]
      /\ \A i \in 1 .. Len(w) : submitted'[Len(submitted) + i] = w[i]
      /\ \A k \in 1 .. Len(submitted') : (k \in 1 .. Len(submitted) /\ submitted'[k] = submitted[k])
             \/ (k - Len(submitted) \in 1 .. Len(w) /\ submitted'[k] = w[k - Len(submitted)])
  BY <1>1, <1>4, <1>5, JoinedIs
<1>8. InOrder(submitted')
  BY <1>1, <1>3, <1>4, <1>5, <1>6, Joined DEF OrderInv
<1>9. UpTo(submitted', D)
  <2>1. UpTo(submitted, D)
    BY <1>3 DEF OrderInv, D
  <2> QED BY <1>6, <1>7, <2>1 DEF UpTo
<1>10. Len(submitted') % TransportPacketSize = 0
  <2> DEFINE a == Len(submitted)
             b == Len(w)
  <2>1. /\ a \in Nat /\ b \in Nat /\ a % TransportPacketSize = 0 /\ b % TransportPacketSize = 0
        /\ TransportPacketSize \in Nat \ {0} /\ Len(submitted') = a + b
    BY <1>3, <1>4, <1>5, <1>7, ChainAssumption DEF OrderInv
  <2> HIDE DEF a, b
  <2>2. (a + b) % TransportPacketSize = 0
    BY <2>1, SumOfMultiples
  <2> QED BY <2>1, <2>2
<1>11. \A n \in 1 .. D : Kept(came', n) =>
         \A i \in 1 .. Len(came'[n]) : came'[n][i] \in {submitted'[j] : j \in 1 .. Len(submitted')}
  <2> SUFFICES ASSUME NEW n \in 1 .. D, Kept(came, n), NEW i \in 1 .. Len(came[n])
               PROVE  \E j \in 1 .. Len(submitted') : came[n][i] = submitted'[j]
    BY DEF Kept
  <2>1. CASE \A x \in 1 .. Len(came[n]) : came[n][x] \in {submitted[j] : j \in 1 .. Len(submitted)}
    <3>1. PICK j \in 1 .. Len(submitted) : came[n][i] = submitted[j]
      BY <2>1
    <3>2. j \in 1 .. Len(submitted') /\ submitted'[j] = submitted[j]
      BY <1>4, <1>5, <1>7
    <3> QED BY <3>1, <3>2
  <2>2. CASE n = D
    <3>1. frame = came[D]
      BY <1>3, <1>4, <2>2 DEF FrameInv, D
    <3>2. Len(frame) % TransportPacketSize = 0
      BY <2>2, <3>1 DEF Kept, Chain!IsWhole
    <3>3. w = frame /\ i \in 1 .. Len(w) /\ came[n][i] = w[i]
      BY <1>5, <2>2, <3>1, <3>2
    <3>4. Len(submitted) + i \in 1 .. Len(submitted') /\ submitted'[Len(submitted) + i] = w[i]
      BY <1>4, <1>5, <1>7, <3>3
    <3> QED BY <3>3, <3>4
  <2>3. n = D \/ \A x \in 1 .. Len(came[n]) : came[n][x] \in {submitted[j] : j \in 1 .. Len(submitted)}
    BY <1>3, <1>4 DEF ArrivedInv, D
  <2> QED BY <2>1, <2>2, <2>3
<1>12. <<>> \in Seq(Byte) /\ InOrder(<<>>) /\ Precedes(submitted', <<>>) /\ UpTo(<<>>, D)
  BY EmptySeq DEF InOrder, Precedes, UpTo
<1>13. HasSpace(<<>>, BufferSize)
  BY DEF HasSpace
<1>14. BufferSize \in Nat /\ AreCome(came') /\ AreQueued(chainQueue, came') /\ D = Len(came') - Len(chainQueue)
       /\ fSource' = TRUE
  BY <1>1, <1>4, ChainAssumption
<1> QED BY <1>1, <1>2, <1>7, <1>8, <1>9, <1>10, <1>11, <1>12, <1>13, <1>14, ReadStep

LEMMA ShiftsStep ==
  ASSUME ChainInv, Chain!Shifts, afterGetting # "no", came' = came
  PROVE  ChainInv'
<1> DEFINE w == Chain!WholePackets
           D == Done
           first == Chain!Min(Chain!Syncs(w))
           rest == SubSeq(w, first, Len(w))
<1>1. /\ submitted' = submitted /\ fSource' = fSource /\ room' = first - 1
      /\ internalError' = (Chain!Awaiting({"source"}) \cap {"source"} # {})
      /\ Chain!DoGetNextFrame1(chainQueue, TRUE, rest, first - 1) /\ first > 1 /\ Chain!Syncs(w) # {}
  BY DEF Chain!Shifts, Chain!ReadSource, Chain!sink
<1>2. ~internalError'
  BY <1>1 DEF Chain!Awaiting
<1>3. OrderInv /\ FrameInv /\ ArrivedInv
  BY DEF ChainInv
<1>4. /\ fSource = TRUE /\ D \in 1 .. Len(came) /\ frame \in Seq(Byte) /\ submitted \in Seq(Byte)
      /\ AreCome(came) /\ AreQueued(chainQueue, came) /\ D = Len(came) - Len(chainQueue)
  BY GivenIs
<1>5. /\ w \in Seq(Byte) /\ Len(w) % TransportPacketSize = 0
      /\ Len(frame) >= TransportPacketSize => Len(w) >= TransportPacketSize
      /\ \A i \in 1 .. Len(w) : w[i] = frame[i]
  BY <1>4, WholeIs
<1>6. InOrder(w) /\ Precedes(submitted, w) /\ UpTo(w, D)
  BY WholeInOrder
<1> HIDE DEF w
<1>7. first \in 1 .. Len(w) /\ w[first].sync /\ \A i \in 1 .. Len(w) : w[i].sync => first <= i
  BY <1>1, <1>5, FirstSync
<1> HIDE DEF first, D
<1>8. /\ rest \in Seq(Byte) /\ Len(rest) = Len(w) - first + 1
      /\ \A i \in 1 .. Len(rest) : i + first - 1 \in 1 .. Len(w) /\ rest[i] = w[i + first - 1]
  <2> DEFINE b == Len(w)
  <2>1. first \in 1 .. b /\ b \in Nat /\ \A i \in first .. b : w[i] \in Byte
    BY <1>5, <1>7
  <2>2. /\ rest \in Seq(Byte) /\ Len(rest) = (IF first <= b THEN b - first + 1 ELSE 0)
        /\ \A i \in 1 .. b - first + 1 : rest[i] = w[first + i - 1]
    BY <2>1, SubSeqProperties
  <2> HIDE DEF b, rest
  <2>3. \A i \in 1 .. b - first + 1 : first + i - 1 = i + first - 1 /\ i + first - 1 \in 1 .. b
    BY <2>1
  <2>4. Len(rest) = b - first + 1
    BY <2>1, <2>2
  <2> QED BY <2>2, <2>3, <2>4 DEF b
<1> HIDE DEF rest
<1>9. InOrder(rest)
  <2> SUFFICES ASSUME NEW i \in 1 .. Len(rest), NEW j \in 1 .. Len(rest), i < j PROVE Before(rest[i], rest[j])
    BY DEF InOrder
  <2>1. i + first - 1 < j + first - 1
    BY <1>7
  <2> QED BY <1>6, <1>8, <2>1 DEF InOrder
<1>10. Precedes(submitted', rest) /\ UpTo(rest, D)
  BY <1>1, <1>6, <1>8 DEF Precedes, UpTo
<1>11. HasSpace(rest, first - 1)
  <2> DEFINE b == Len(w)
             r == Len(rest)
  <2>1. r = b - first + 1 /\ b \in Nat /\ first \in 1 .. b /\ first > 1 /\ b % TransportPacketSize = 0
    BY <1>1, <1>5, <1>7, <1>8
  <2> HIDE DEF b, r
  <2>2. r + (first - 1) = b /\ first - 1 \in Nat \ {0} /\ r >= 1
    BY <2>1
  <2>3. rest # <<>>
    BY <2>2, EmptySeq DEF r
  <2>4. rest[1].sync
    <3>1. rest[1] = w[1 + first - 1] /\ 1 + first - 1 = first
      BY <1>7, <1>8, <2>2 DEF r
    <3> QED BY <1>7, <3>1
  <2>5. (r + (first - 1)) % TransportPacketSize = 0
    BY <2>1, <2>2
  <2> QED BY <2>2, <2>3, <2>4, <2>5 DEF HasSpace, r
<1>12. ~Chain!IsWhole(came[D])
  <2> SUFFICES ASSUME Chain!IsWhole(came[D]) PROVE FALSE
    OBVIOUS
  <2>1. Len(frame) >= TransportPacketSize /\ frame[1].sync
    BY <1>3, <1>4 DEF FrameInv, D
  <2>2. 1 \in 1 .. Len(w) /\ w[1] = frame[1]
    BY <1>5, <1>7
  <2> QED BY <1>1, <1>7, <2>1, <2>2
<1>13. \A n \in 1 .. D : Kept(came', n) =>
         \A i \in 1 .. Len(came'[n]) : came'[n][i] \in {submitted'[j] : j \in 1 .. Len(submitted')}
  <2> SUFFICES ASSUME NEW n \in 1 .. D, Kept(came, n)
               PROVE  \A i \in 1 .. Len(came[n]) : came[n][i] \in {submitted[j] : j \in 1 .. Len(submitted)}
    BY <1>1 DEF Kept
  <2>1. n # D
    BY <1>12 DEF Kept
  <2> QED BY <1>3, <1>4, <2>1 DEF ArrivedInv, D
<1>14. /\ first - 1 \in Nat /\ AreCome(came') /\ AreQueued(chainQueue, came') /\ D = Len(came') - Len(chainQueue)
       /\ fSource' = TRUE /\ submitted' \in Seq(Byte) /\ InOrder(submitted') /\ UpTo(submitted', D)
       /\ Len(submitted') % TransportPacketSize = 0
  BY <1>1, <1>3, <1>4, <1>7 DEF OrderInv, D
<1>15. D = 0 \/ Chain!IsWhole(came'[D]) => rest = <<>>
  BY <1>4, <1>12
<1> QED BY <1>1, <1>2, <1>8, <1>9, <1>10, <1>11, <1>13, <1>14, <1>15, ReadStep

LEMMA CloseSinkStep ==
  ASSUME ChainInv, Chain!CloseSink
  PROVE  ChainInv'
<1>1. /\ fSource' = FALSE /\ afterGetting' = "no" /\ chainQueue' = <<>> /\ chainNeeds' = FALSE
      /\ UNCHANGED <<came, room, frame, submitted, internalError>>
  BY DEF Chain!CloseSink, Chain!Detached, Chain!StopsReading
<1>2. ChainType /\ OrderInv
  BY DEF ChainInv
<1>3. /\ came \in Seq(Seq(Byte)) /\ Len(came) \in Nat /\ Len(chainQueue) \in Nat /\ Len(chainQueue) <= Len(came)
      /\ Len(chainQueue') = 0 /\ chainQueue' \in Seq(Seq(Byte)) /\ frame \in Seq(Byte) /\ submitted \in Seq(Byte)
  BY <1>1, <1>2, EmptySeq DEF ChainType, AreCome, AreQueued
<1>4. Done \in 0 .. Done' /\ Done' \in Nat
  BY <1>1, <1>3 DEF Done
<1>5. AreCome(came') /\ AreQueued(chainQueue', came')
  BY <1>1, <1>2, <1>3 DEF ChainType, AreQueued
<1>6. ChainType'
  BY <1>1, <1>2, <1>5 DEF ChainType
<1>7. UpTo(submitted, Done') /\ UpTo(frame, Done')
  BY <1>2, <1>3, <1>4 DEF OrderInv, UpTo
<1>8. OrderInv'
  BY <1>1, <1>2, <1>7 DEF OrderInv
<1>9. CallInv' /\ FrameInv' /\ ArrivedInv'
  BY <1>1 DEF CallInv, FrameInv, ArrivedInv
<1> QED BY <1>6, <1>8, <1>9 DEF ChainInv

LEMMA ChainStep ==
  ASSUME ChainInv, [Chain!Next]_chain
  PROVE  ChainInv'
<1>1. CASE \E shapes \in Chain!SeqOf(Payloads, MaxAtOnce) \ {<<>>} : Chain!NetworkReadHandler(shapes)
  BY <1>1, ReadHandlerStep
<1>2. CASE Chain!AfterGetting
  <2>1. afterGetting # "no" /\ came' = came /\ (Chain!Closes \/ Chain!Shifts \/ Chain!Submits)
    BY <1>2 DEF Chain!AfterGetting
  <2> QED BY <2>1, ClosesStep, ShiftsStep, SubmitsStep
<1>3. CASE Chain!CloseSink
  BY <1>3, CloseSinkStep
<1>4. CASE UNCHANGED chain
  <2>1. /\ came' = came /\ chainQueue' = chainQueue /\ chainNeeds' = chainNeeds /\ room' = room /\ frame' = frame
        /\ afterGetting' = afterGetting /\ fSource' = fSource /\ submitted' = submitted /\ internalError' = internalError
    BY <1>4 DEF chain
  <2> QED BY <2>1 DEF ChainInv, ChainType, CallInv, OrderInv, FrameInv, ArrivedInv, Done
<1> QED BY <1>1, <1>2, <1>3, <1>4 DEF Chain!Next

LEMMA ChainInitially ==
  ASSUME Chain!Init
  PROVE  ChainInv
<1>1. /\ came = <<>> /\ chainQueue = <<>> /\ chainNeeds = TRUE /\ room = BufferSize /\ frame = <<>>
      /\ afterGetting = "no" /\ fSource = TRUE /\ submitted = <<>> /\ internalError = FALSE
  BY DEF Chain!Init
<1>2. /\ Len(came) = 0 /\ Len(chainQueue) = 0 /\ Len(frame) = 0 /\ Len(submitted) = 0 /\ Done = 0
      /\ <<>> \in Seq(Byte) /\ <<>> \in Seq(Seq(Byte))
  BY <1>1, EmptySeq DEF Done
<1>3. BufferSize \in Nat /\ TransportPacketSize \in Nat \ {0}
  BY ChainAssumption
<1>4. ChainType
  BY <1>1, <1>2, <1>3 DEF ChainType, AreCome, AreQueued
<1>5. CallInv
  BY <1>1 DEF CallInv
<1>6. OrderInv
  <2>1. 0 % TransportPacketSize = 0
    BY <1>3
  <2> QED BY <1>2, <2>1 DEF OrderInv, InOrder, Precedes, UpTo
<1>7. FrameInv /\ ArrivedInv
  BY <1>1, <1>2 DEF FrameInv, ArrivedInv, HasSpace
<1> QED BY <1>4, <1>5, <1>6, <1>7 DEF ChainInv

LEMMA ChainInvIsEnough ==
  ASSUME ChainInv
  PROVE  Chain!DataReachesBuffer
<1>1. ChainType /\ OrderInv /\ ArrivedInv /\ FrameInv /\ CallInv
  BY DEF ChainInv
<1>2. /\ came \in Seq(Seq(Byte)) /\ chainQueue \in Seq(Seq(Byte)) /\ frame \in Seq(Byte) /\ submitted \in Seq(Byte)
      /\ Len(came) \in Nat /\ Len(chainQueue) \in Nat /\ Len(chainQueue) <= Len(came) /\ Done \in 0 .. Len(came)
      /\ \A k \in 1 .. Len(chainQueue) : chainQueue[k] = came[Done + k]
  BY <1>1 DEF ChainType, AreCome, AreQueued, Done
<1>3. \A i, j \in DOMAIN submitted : i < j => Before(submitted[i], submitted[j])
  <2>1. DOMAIN submitted = 1 .. Len(submitted)
    BY <1>2
  <2>2. \A i, j \in 1 .. Len(submitted) : i < j => Before(submitted[i], submitted[j])
    BY <1>1 DEF OrderInv, InOrder
  <2> QED BY <2>1, <2>2
<1>4. ASSUME fSource, NEW n \in DOMAIN came, Kept(came, n)
      PROVE  Chain!ToSet(came[n]) \subseteq Chain!ToSet(submitted) \cup Chain!UnderWay
  <2> SUFFICES ASSUME NEW i \in DOMAIN came[n]
               PROVE  came[n][i] \in Chain!ToSet(submitted) \cup Chain!UnderWay
    BY DEF Chain!ToSet
  <2>1. n \in 1 .. Len(came) /\ came[n] \in Seq(Byte) /\ i \in 1 .. Len(came[n])
    BY <1>2
  <2>2. CASE n > Done
    <3>1. n - Done \in 1 .. Len(chainQueue)
      <4> DEFINE all == Len(came)
                 waits == Len(chainQueue)
      <4>1. Done = all - waits /\ all \in Nat /\ waits \in Nat /\ n \in 1 .. all /\ Done \in 0 .. all
        BY <1>2, <2>1 DEF Done
      <4> HIDE DEF all, waits, Done
      <4>2. n - Done \in 1 .. waits
        BY <2>2, <4>1
      <4> QED BY <4>2 DEF waits
    <3>2. chainQueue[n - Done] = came[n]
      <4>1. Done + (n - Done) = n
        BY <1>2, <2>1
      <4> QED BY <1>2, <3>1, <4>1
    <3>3. came[n] \in Chain!ToSet(chainQueue)
      BY <1>2, <3>1, <3>2 DEF Chain!ToSet
    <3>4. came[n][i] \in Chain!ToSet(came[n])
      BY DEF Chain!ToSet
    <3> QED BY <3>3, <3>4 DEF Chain!UnderWay, Chain!BytesIn
  <2>3. CASE n \in 1 .. Done
    <3>1. CASE \A x \in 1 .. Len(came[n]) : came[n][x] \in {submitted[j] : j \in 1 .. Len(submitted)}
      <4>1. came[n][i] \in {submitted[j] : j \in 1 .. Len(submitted)}
        BY <2>1, <3>1
      <4> QED BY <1>2, <4>1 DEF Chain!ToSet
    <3>2. CASE n = Done /\ afterGetting # "no"
      <4>1. frame = came[n]
        BY <1>1, <1>4, <3>2 DEF FrameInv
      <4>2. came[n][i] \in Chain!ToSet(frame)
        BY <4>1 DEF Chain!ToSet
      <4> QED BY <4>2 DEF Chain!UnderWay
    <3> QED BY <1>1, <1>4, <2>3, <3>1, <3>2 DEF ArrivedInv
  <2> QED BY <1>2, <2>1, <2>2, <2>3
<1>5. ~internalError /\ Len(submitted) % TransportPacketSize = 0
  BY <1>1 DEF ChainType, OrderInv
<1> QED BY <1>3, <1>4, <1>5 DEF Chain!DataReachesBuffer, Before, Kept

LEMMA ChainOnly ==
  ASSUME part = "chain", [InputNext]_inputVars
  PROVE  part' = "chain" /\ [Chain!Next]_chain
BY DEF InputNext, inputVars, Others

\* SimpleRTPSource, MPEG2TransportStreamFramer, CMemorySink: whatever datagrams come and however
\* the callbacks nest, no source is read twice at a time, and the memory buffer gets whole packets,
\* in order and once, and every datagram of whole packets that follows another such.
THEOREM DatagramsReachTheBuffer == InputSpec => []DataReachesBuffer
<1> DEFINE Inv == part = "chain" => ChainInv
<1>1. InputInit => Inv
  BY ChainInitially DEF InputInit
<1>2. Inv /\ [InputNext]_inputVars => Inv'
  <2> SUFFICES ASSUME Inv, [InputNext]_inputVars, part' = "chain" PROVE ChainInv'
    OBVIOUS
  <2>1. part = "chain"
    BY DEF InputNext, inputVars, Others
  <2> QED BY <2>1, ChainOnly, ChainStep
<1>3. Inv => DataReachesBuffer
  BY ChainInvIsEnough DEF DataReachesBuffer
<1> QED BY <1>1, <1>2, <1>3, PTL DEF InputSpec

-----------------------------------------------------------------------------
(* PacketSync                                                              *)

\* A step of one d keeps the place in it.
LEMMA SamePlace ==
  ASSUME NEW a \in Nat, NEW d \in Nat \ {0}
  PROVE  (a + d) % d = a % d
<1> DEFINE p == a \div d
           q == (a + d) \div d
           r == a % d
           s == (a + d) % d
<1>1. p \in Nat /\ r \in Nat /\ r < d /\ a = (p * d) + r
  BY Divided
<1>2. q \in Nat /\ s \in Nat /\ s < d /\ a + d = (q * d) + s
  BY Divided
<1> HIDE DEF p, q, r, s
<1>3. ((p + 1) - q) * d = s - r
  BY <1>1, <1>2
<1>4. CASE (p + 1) - q >= 1
  <2>1. ((p + 1) - q) * d >= d
    BY <1>1, <1>2, <1>4
  <2> QED BY <1>1, <1>2, <1>3, <2>1
<1>5. CASE (p + 1) - q <= 0 - 1
  <2>1. ((p + 1) - q) * d <= 0 - d
    BY <1>1, <1>2, <1>5
  <2> QED BY <1>1, <1>2, <1>3, <2>1
<1>6. CASE p + 1 = q
  <2>1. s = r
    BY <1>1, <1>2, <1>3, <1>6
  <2> QED BY <2>1 DEF s, r
<1> QED BY <1>1, <1>2, <1>4, <1>5, <1>6

\* What a read of n bytes at place a brings.
Data(a, n) == [x \in 1 .. n |-> a + x - 1]
IsAligned(b) == b % PacketLen = 0

LEMMA DataIs ==
  ASSUME NEW a \in Nat, NEW n \in Nat
  PROVE  Data(a, n) \in Seq(Nat) /\ Len(Data(a, n)) = n /\ \A x \in 1 .. n : Data(a, n)[x] = a + x - 1
<1>1. \A x \in 1 .. n : a + x - 1 \in Nat
  OBVIOUS
<1>2. Data(a, n) \in [1 .. n -> Nat]
  BY <1>1 DEF Data
<1>3. \A x \in 1 .. n : Data(a, n)[x] = a + x - 1
  BY DEF Data
<1> HIDE DEF Data
<1> QED BY <1>2, <1>3

\* Two bytes that look like the begin of a packet, a packet apart, are such begins.
LEMMA TwoAreInSync ==
  ASSUME NEW b \in Nat
  PROVE  /\ Packets!IsSync(b) /\ Packets!IsSync(b + PacketLen) <=> IsAligned(b)
         /\ IsAligned(b) <=> IsAligned(b + PacketLen)
<1>1. PacketLen \in Nat \ {0} /\ \A c \in Look : c + PacketLen \notin Look
  BY PacketsAssumption
<1>2. (b + PacketLen) % PacketLen = b % PacketLen
  BY <1>1, SamePlace
<1> QED BY <1>1, <1>2 DEF Packets!IsSync, IsAligned

LEMMA InSyncIs ==
  ASSUME NEW a \in Nat, NEW n \in Nat, NEW i \in Nat, i + PacketLen < n
  PROVE  Packets!InSync(Data(a, n), i) <=> IsAligned(a + i)
<1>1. PacketLen \in Nat \ {0}
  BY PacketsAssumption
<1>2. i + 1 \in 1 .. n /\ i + PacketLen + 1 \in 1 .. n
  BY <1>1
<1>3. Data(a, n)[i + 1] = a + (i + 1) - 1 /\ Data(a, n)[i + PacketLen + 1] = a + (i + PacketLen + 1) - 1
  BY <1>2, DataIs
<1>4. Data(a, n)[i + 1] = a + i /\ Data(a, n)[i + PacketLen + 1] = (a + i) + PacketLen
  BY <1>1, <1>3
<1> HIDE DEF Data
<1>5. a + i \in Nat
  OBVIOUS
<1> QED BY <1>4, <1>5, TwoAreInSync DEF Packets!InSync

\* The loop from m on.
ScansFrom(read, f, m) ==
  f = [i \in m .. Len(read) + PacketLen |->
         IF i + PacketLen >= Len(read) THEN [starts |-> <<>>, end |-> i]
         ELSE IF Packets!InSync(read, i)
              THEN [f[i + PacketLen] EXCEPT !.starts = <<i>> \o @]
              ELSE f[i + 1]]

LEMMA LoopScans ==
  ASSUME NEW read, Len(read) \in Nat
  PROVE  \E f : ScansFrom(read, f, 0)
<1> DEFINE n == Len(read)
           N == n + PacketLen
           Bad == {k \in 0 .. N : ~\E f : ScansFrom(read, f, N - k)}
<1>1. PacketLen \in Nat \ {0} /\ n \in Nat /\ N \in Nat
  BY PacketsAssumption
<1>2. ASSUME Bad # {} PROVE FALSE
  <2>1. PICK k \in Bad : \A j \in Bad : k <= j
    <3>1. Bad \subseteq Nat
      BY <1>1
    <3> HIDE DEF Bad
    <3> QED BY <1>2, <3>1, LeastOf
  <2>2. k \in 0 .. N /\ ~\E f : ScansFrom(read, f, N - k)
    OBVIOUS
  <2>3. CASE k = 0
    <3> DEFINE from == N - k
               Body(i, later, next) == IF i + PacketLen >= n THEN [starts |-> <<>>, end |-> i]
                                       ELSE IF Packets!InSync(read, i)
                                            THEN [later EXCEPT !.starts = <<i>> \o @]
                                            ELSE next
               g == [i \in from .. N |-> [starts |-> <<>>, end |-> i]]
    <3>1. \A i \in from .. N : i + PacketLen >= n
      BY <1>1, <2>3
    <3> HIDE DEF from, N, n
    <3>3. \A i \in from .. N : g[i] = Body(i, g[i + PacketLen], g[i + 1])
      BY <3>1
    <3>4. g = [i \in from .. N |-> g[i]]
      OBVIOUS
    <3> HIDE DEF g, Body
    <3>5. g = [i \in from .. N |-> Body(i, g[i + PacketLen], g[i + 1])]
      BY <3>3, <3>4
    <3>2. ScansFrom(read, g, from)
      BY <3>5 DEF ScansFrom, N, n, Body
    <3> QED BY <2>2, <3>2 DEF from
  <2>4. CASE k # 0
    <3>1. k - 1 \in 0 .. N /\ k - 1 \notin Bad
      <4>1. k - 1 \in 0 .. N /\ ~(k <= k - 1)
        BY <1>1, <2>2, <2>4
      <4> HIDE DEF Bad
      <4> QED BY <2>1, <4>1
    <3>2. PICK f : ScansFrom(read, f, N - (k - 1))
      BY <3>1
    <3> DEFINE here == N - k
               Body(i, later, next) == IF i + PacketLen >= n THEN [starts |-> <<>>, end |-> i]
                                       ELSE IF Packets!InSync(read, i)
                                            THEN [later EXCEPT !.starts = <<i>> \o @]
                                            ELSE next
               g == [i \in here .. N |-> IF i = here THEN Body(here, f[here + PacketLen], f[here + 1]) ELSE f[i]]
    <3>3. f = [i \in here + 1 .. N |-> Body(i, f[i + PacketLen], f[i + 1])]
      <4>1. N - (k - 1) = here + 1
        BY <1>1, <2>2
      <4> QED BY <3>2, <4>1 DEF ScansFrom
    <3>4. here \in Nat /\ here \in 0 .. N
      BY <1>1, <2>2
    <3> HIDE DEF here, N, n
    <3>5. \A i \in here + 1 .. N : f[i] = Body(i, f[i + PacketLen], f[i + 1])
      BY <3>3, Zenon
    <3>6. \A i \in here .. N : ~(i + PacketLen >= n) => i + PacketLen \in here + 1 .. N /\ i + 1 \in here + 1 .. N
      BY <1>1, <3>4 DEF N, n
    <3>7. ASSUME NEW i \in here .. N PROVE g[i] = Body(i, g[i + PacketLen], g[i + 1])
      <4>1. CASE i + PacketLen >= n
        <5>1. CASE i = here
          BY <4>1, <5>1
        <5>2. CASE i # here
          <6>1. i \in here + 1 .. N
            BY <1>1, <3>4, <5>2
          <6>2. g[i] = f[i] /\ f[i] = Body(i, f[i + PacketLen], f[i + 1])
            BY <3>5, <5>2, <6>1
          <6> QED BY <4>1, <6>2
        <5> QED BY <5>1, <5>2
      <4>2. CASE ~(i + PacketLen >= n)
        <5>1. i + PacketLen \in here + 1 .. N /\ i + 1 \in here + 1 .. N
          BY <3>6, <4>2
        <5>2. \A j \in here + 1 .. N : g[j] = f[j]
          BY <3>4
        <5>3. g[i + PacketLen] = f[i + PacketLen] /\ g[i + 1] = f[i + 1]
          BY <5>1, <5>2
        <5>4. CASE i = here
          <6>1. g[i] = Body(here, f[here + PacketLen], f[here + 1])
            BY <5>4
          <6> HIDE DEF g, Body
          <6> QED BY <5>3, <5>4, <6>1
        <5>5. CASE i # here
          <6>1. i \in here + 1 .. N
            BY <1>1, <3>4, <5>5
          <6>2. g[i] = Body(i, f[i + PacketLen], f[i + 1])
            BY <3>5, <5>2, <6>1
          <6> HIDE DEF g, Body
          <6> QED BY <5>3, <6>2
        <5> QED BY <5>4, <5>5
      <4> QED BY <4>1, <4>2
    <3>8. g = [i \in here .. N |-> Body(i, g[i + PacketLen], g[i + 1])]
      <4>1. g = [i \in here .. N |-> g[i]]
        OBVIOUS
      <4> HIDE DEF g, Body
      <4> QED BY <3>7, <4>1
    <3> HIDE DEF g
    <3>9. ScansFrom(read, g, here)
      BY <3>8 DEF ScansFrom, N, n
    <3> QED BY <2>2, <3>9 DEF here
  <2> QED BY <2>3, <2>4
<1>3. N \in 0 .. N /\ N - N = 0
  BY <1>1
<1> QED BY <1>2, <1>3

LEMMA ScansIs ==
  ASSUME NEW read, Len(read) \in Nat, NEW i \in 0 .. Len(read) + PacketLen
  PROVE  Packets!Scans(read)[i] =
           IF i + PacketLen >= Len(read) THEN [starts |-> <<>>, end |-> i]
           ELSE IF Packets!InSync(read, i)
                THEN [Packets!Scans(read)[i + PacketLen] EXCEPT !.starts = <<i>> \o @]
                ELSE Packets!Scans(read)[i + 1]
<1> DEFINE scans == Packets!Scans(read)
<1>1. PICK f : ScansFrom(read, f, 0)
  BY LoopScans
<1>2. ScansFrom(read, scans, 0)
  BY <1>1, Zenon DEF ScansFrom, Packets!Scans
<1> HIDE DEF scans
<1>3. scans[i] = IF i + PacketLen >= Len(read) THEN [starts |-> <<>>, end |-> i]
                 ELSE IF Packets!InSync(read, i)
                      THEN [scans[i + PacketLen] EXCEPT !.starts = <<i>> \o @]
                      ELSE scans[i + 1]
  BY <1>2, Zenon DEF ScansFrom
<1> QED BY <1>3 DEF scans

\* What the loop finds from i on in a read of n bytes at a: the packets that begin there, one
\* behind the other, and none left out once there is one.
Finds(a, n, i, starts, end) ==
  /\ starts \in Seq(Nat) /\ end \in Nat /\ end >= i /\ end + PacketLen >= n
  /\ \A k \in 1 .. Len(starts) :
       starts[k] >= i /\ starts[k] + PacketLen < n /\ IsAligned(a + starts[k])
  /\ \A k \in 1 .. Len(starts) : k > 1 => starts[k] = starts[k - 1] + PacketLen
  /\ starts # <<>> => end = starts[Len(starts)] + PacketLen
  /\ starts # <<>> /\ IsAligned(a + i) => starts[1] = i
  /\ starts = <<>> /\ IsAligned(a + i) => end = i

LEMMA FindsOneMore ==
  ASSUME NEW a \in Nat, NEW n \in Nat, NEW i \in Nat, i + PacketLen < n, IsAligned(a + i),
         NEW starts, NEW end, Finds(a, n, i + PacketLen, starts, end)
  PROVE  Finds(a, n, i, <<i>> \o starts, end)
<1> DEFINE one == <<i>>
           s == one \o starts
           m == Len(starts)
<1>1. PacketLen \in Nat \ {0}
  BY PacketsAssumption
<1>2. starts \in Seq(Nat) /\ m \in Nat
  BY DEF Finds
<1>3. /\ s \in Seq(Nat) /\ Len(s) = m + 1 /\ s[1] = i /\ \A k \in 2 .. m + 1 : s[k] = starts[k - 1]
  <2>1. one \in Seq(Nat) /\ Len(one) = 1 /\ one[1] = i
    OBVIOUS
  <2> HIDE DEF one
  <2>2. /\ s \in Seq(Nat) /\ Len(s) = Len(one) + m
        /\ \A k \in 1 .. Len(one) + m : s[k] = IF k <= Len(one) THEN one[k] ELSE starts[k - Len(one)]
    BY <1>2, <2>1, ConcatProperties
  <2>3. Len(one) + m = m + 1 /\ 1 \in 1 .. m + 1
    BY <1>2, <2>1
  <2> HIDE DEF s, m
  <2>4. Len(s) = m + 1 /\ s[1] = i
    BY <2>1, <2>2, <2>3
  <2>5. ASSUME NEW k \in 2 .. m + 1 PROVE s[k] = starts[k - 1]
    <3>1. k \in 1 .. m + 1 /\ ~(k <= 1)
      BY <1>2
    <3> QED BY <2>1, <2>2, <2>3, <3>1
  <2> QED BY <2>2, <2>4, <2>5
<1> HIDE DEF s, one
<1>4. IsAligned(a + (i + PacketLen))
  <2>1. IsAligned((a + i) + PacketLen) /\ (a + i) + PacketLen = a + (i + PacketLen)
    BY <1>1, TwoAreInSync
  <2> QED BY <2>1
<1>5. m # 0 => starts # <<>> /\ starts[1] = i + PacketLen /\ end = starts[m] + PacketLen
  BY <1>2, <1>4, EmptySeq DEF Finds
<1>6. m = 0 => end = i + PacketLen
  BY <1>2, <1>4, EmptySeq DEF Finds
<1>7. /\ end \in Nat /\ end >= i + PacketLen /\ end + PacketLen >= n
      /\ \A k \in 1 .. m : /\ starts[k] \in Nat /\ starts[k] >= i + PacketLen /\ starts[k] + PacketLen < n
                           /\ IsAligned(a + starts[k]) /\ (k > 1 => starts[k] = starts[k - 1] + PacketLen)
  BY <1>2 DEF Finds
<1> HIDE DEF m
<1>8. ASSUME NEW k \in 1 .. m + 1
      PROVE  /\ s[k] >= i /\ s[k] + PacketLen < n /\ IsAligned(a + s[k])
             /\ k > 1 => s[k] = s[k - 1] + PacketLen
  <2>1. CASE k = 1
    BY <1>3, <2>1
  <2>2. CASE k # 1
    <3>1. k \in 2 .. m + 1 /\ k - 1 \in 1 .. m
      BY <1>2, <2>2
    <3>2. s[k] = starts[k - 1]
      BY <1>3, <3>1
    <3>3. starts[k - 1] >= i
      BY <1>1, <1>7, <3>1
    <3>4. s[k] = s[k - 1] + PacketLen
      <4>1. CASE k = 2
        <5>1. m # 0 /\ k - 1 = 1
          BY <1>2, <3>1, <4>1
        <5> QED BY <1>3, <1>5, <3>2, <5>1
      <4>2. CASE k # 2
        <5>1. k - 1 \in 2 .. m + 1 /\ k - 1 > 1
          BY <1>2, <3>1, <4>2
        <5> QED BY <1>3, <1>7, <3>1, <3>2, <5>1
      <4> QED BY <4>1, <4>2
    <3> QED BY <1>7, <3>1, <3>2, <3>3, <3>4
  <2> QED BY <2>1, <2>2
<1>9. end = s[m + 1] + PacketLen
  <2>1. CASE m = 0
    BY <1>3, <1>6, <2>1
  <2>2. CASE m # 0
    <3>1. m + 1 \in 2 .. m + 1 /\ (m + 1) - 1 = m
      BY <1>2, <2>2
    <3> QED BY <1>3, <1>5, <2>2, <3>1
  <2> QED BY <2>1, <2>2
<1>10. s # <<>>
  BY <1>2, <1>3, EmptySeq
<1>11. Finds(a, n, i, s, end)
  <2> DEFINE l == Len(s)
  <2>1. l = m + 1 /\ end >= i
    BY <1>1, <1>3, <1>7
  <2>2. /\ \A k \in 1 .. l : s[k] >= i /\ s[k] + PacketLen < n /\ IsAligned(a + s[k])
        /\ \A k \in 1 .. l : k > 1 => s[k] = s[k - 1] + PacketLen
        /\ end = s[l] + PacketLen
    BY <1>8, <1>9, <2>1
  <2> QED BY <1>3, <1>7, <1>10, <2>1, <2>2 DEF Finds
<1> QED BY <1>11 DEF s, one

LEMMA ScanFinds ==
  ASSUME NEW a \in Nat, NEW n \in Nat, NEW offset \in 0 .. n + PacketLen
  PROVE  Finds(a, n, offset, Packets!Scan(Data(a, n), offset).starts, Packets!Scan(Data(a, n), offset).end)
<1> DEFINE read == Data(a, n)
           scans == Packets!Scans(read)
           N == n + PacketLen
           Good(i) == Finds(a, n, i, scans[i].starts, scans[i].end) /\ scans[i] = [starts |-> scans[i].starts, end |-> scans[i].end]
           Bad == {k \in 0 .. N : ~Good(N - k)}
<1>1. PacketLen \in Nat \ {0} /\ N \in Nat /\ Len(read) = n
  BY PacketsAssumption, DataIs
<1> HIDE DEF scans
<1>2. \A i \in 0 .. N : scans[i] =
           IF i + PacketLen >= n THEN [starts |-> <<>>, end |-> i]
           ELSE IF Packets!InSync(read, i)
                THEN [scans[i + PacketLen] EXCEPT !.starts = <<i>> \o @]
                ELSE scans[i + 1]
  BY <1>1, ScansIs DEF scans
<1> HIDE DEF read
<1>8. ASSUME NEW i \in 0 .. N, i + PacketLen >= n PROVE scans[i] = [starts |-> <<>>, end |-> i]
  BY <1>2, <1>8, Zenon
<1>9. ASSUME NEW i \in 0 .. N, ~(i + PacketLen >= n), Packets!InSync(read, i)
      PROVE  scans[i] = [scans[i + PacketLen] EXCEPT !.starts = <<i>> \o @]
  BY <1>2, <1>9, Zenon
<1>10. ASSUME NEW i \in 0 .. N, ~(i + PacketLen >= n), ~Packets!InSync(read, i) PROVE scans[i] = scans[i + 1]
  BY <1>2, <1>10, Zenon
<1>3. ASSUME NEW i \in 0 .. N, \A j \in 0 .. N : j > i => Good(j)
      PROVE  Good(i)
  <2>1. CASE i + PacketLen >= n
    <3> DEFINE hit == scans[i]
    <3>3. hit = [starts |-> <<>>, end |-> i]
      BY <1>8, <2>1
    <3> HIDE DEF hit
    <3>1. hit.starts = <<>> /\ hit.end = i /\ hit = [starts |-> hit.starts, end |-> hit.end]
      BY <3>3
    <3>2. Finds(a, n, i, <<>>, i)
      BY <1>1, <2>1, EmptySeq DEF Finds
    <3> QED BY <3>1, <3>2 DEF hit
  <2>2. CASE i + PacketLen < n /\ IsAligned(a + i)
    <3> DEFINE later == scans[i + PacketLen]
    <3>1. i \in Nat /\ i + PacketLen \in 0 .. N /\ i + PacketLen > i /\ ~(i + PacketLen >= n)
      BY <1>1, <2>2
    <3>2. Good(i + PacketLen)
      BY <1>3, <3>1
    <3>3. Packets!InSync(read, i)
      BY <2>2, <3>1, InSyncIs DEF read
    <3>4. scans[i] = [later EXCEPT !.starts = <<i>> \o @]
      BY <1>9, <3>1, <3>3
    <3>5. later = [starts |-> later.starts, end |-> later.end]
      BY <3>2
    <3> HIDE DEF later
    <3>6. /\ scans[i].starts = <<i>> \o later.starts /\ scans[i].end = later.end
          /\ scans[i] = [starts |-> scans[i].starts, end |-> scans[i].end]
      BY <3>4, <3>5
    <3>7. Finds(a, n, i, <<i>> \o later.starts, later.end)
      BY <2>2, <3>1, <3>2, FindsOneMore DEF later
    <3> QED BY <3>6, <3>7
  <2>3. CASE i + PacketLen < n /\ ~IsAligned(a + i)
    <3>1. i \in Nat /\ i + 1 \in 0 .. N /\ i + 1 > i /\ ~(i + PacketLen >= n)
      BY <1>1, <2>3
    <3>2. Good(i + 1)
      BY <1>3, <3>1
    <3>3. ~Packets!InSync(read, i)
      BY <2>3, <3>1, InSyncIs DEF read
    <3>4. scans[i] = scans[i + 1]
      BY <1>10, <3>1, <3>3
    <3> DEFINE starts == scans[i].starts
               end == scans[i].end
    <3>5. Finds(a, n, i + 1, starts, end) /\ scans[i] = [starts |-> starts, end |-> end]
      BY <3>2, <3>4
    <3> HIDE DEF starts, end
    <3>6. starts \in Seq(Nat) /\ Len(starts) \in Nat /\ \A k \in 1 .. Len(starts) : starts[k] \in Nat
      BY <3>5 DEF Finds
    <3>7. \A k \in 1 .. Len(starts) : starts[k] >= i
      BY <3>1, <3>5, <3>6 DEF Finds
    <3>8. Finds(a, n, i, starts, end)
      BY <2>3, <3>1, <3>5, <3>7 DEF Finds
    <3> QED BY <3>5, <3>8 DEF starts, end
  <2> QED BY <1>1, <2>1, <2>2, <2>3
<1> HIDE DEF Good
<1>4. ASSUME Bad # {} PROVE FALSE
  <2>1. PICK k \in Bad : \A j \in Bad : k <= j
    <3>1. Bad \subseteq Nat
      BY <1>1
    <3> HIDE DEF Bad
    <3> QED BY <1>4, <3>1, LeastOf
  <2>2. k \in 0 .. N /\ ~Good(N - k)
    OBVIOUS
  <2> HIDE DEF N
  <2>3. N - k \in 0 .. N
    BY <1>1, <2>2
  <2>4. ASSUME NEW j \in 0 .. N, j > N - k PROVE Good(j)
    <3>1. N - j \in 0 .. N /\ ~(k <= N - j) /\ N - (N - j) = j
      BY <1>1, <2>2, <2>4
    <3>2. N - j \notin Bad
      <4> HIDE DEF Bad
      <4> QED BY <2>1, <3>1
    <3>3. Good(N - (N - j))
      BY <3>1, <3>2
    <3> QED BY <3>1, <3>3
  <2> QED BY <1>3, <2>2, <2>3, <2>4
<1>5. N - offset \in 0 .. N /\ N - (N - offset) = offset
  BY <1>1
<1>6. Good(offset)
  BY <1>4, <1>5
<1>7. Packets!Scan(read, offset) = scans[offset]
  BY DEF Packets!Scan, scans
<1> QED BY <1>6, <1>7 DEF Good, read

PacketAt(b) == [i \in 1 .. PacketLen |-> b + i - 1]

\* Packets of the stream, one behind the other.
InARow(row) ==
  /\ row \in Seq(Seq(Nat))
  /\ \A k \in 1 .. Len(row) : row[k][1] \in Nat /\ IsAligned(row[k][1]) /\ row[k] = PacketAt(row[k][1])
  /\ \A k \in 1 .. Len(row) : k > 1 => row[k][1] = row[k - 1][1] + PacketLen

LEMMA PacketAtIs ==
  ASSUME NEW b \in Nat
  PROVE  PacketAt(b) \in Seq(Nat) /\ Len(PacketAt(b)) = PacketLen /\ PacketAt(b)[1] = b /\ PacketAt(b) # <<>>
<1>1. PacketLen \in Nat \ {0}
  BY PacketsAssumption
<1>2. \A i \in 1 .. PacketLen : b + i - 1 \in Nat
  BY <1>1
<1>3. PacketAt(b) \in [1 .. PacketLen -> Nat] /\ PacketAt(b)[1] = b + 1 - 1
  BY <1>1, <1>2 DEF PacketAt
<1>4. b + 1 - 1 = b
  OBVIOUS
<1> HIDE DEF PacketAt
<1>5. PacketAt(b) \in Seq(Nat) /\ Len(PacketAt(b)) = PacketLen
  BY <1>1, <1>3
<1> QED BY <1>1, <1>3, <1>4, <1>5, EmptySeq

\* A packet of a read.
LEMMA CutIs ==
  ASSUME NEW a \in Nat, NEW n \in Nat, NEW s \in Nat, s + PacketLen < n
  PROVE  SubSeq(Data(a, n), s + 1, s + PacketLen) = PacketAt(a + s)
<1> DEFINE read == Data(a, n)
           cut == SubSeq(read, s + 1, s + PacketLen)
           p == PacketAt(a + s)
<1>1. PacketLen \in Nat \ {0}
  BY PacketsAssumption
<1>2. Len(read) = n /\ \A x \in 1 .. n : read[x] = a + x - 1 /\ read[x] \in Nat
  <2>1. Len(read) = n /\ \A x \in 1 .. n : read[x] = a + x - 1
    BY DataIs
  <2> HIDE DEF read
  <2>2. \A x \in 1 .. n : a + x - 1 \in Nat
    OBVIOUS
  <2> QED BY <2>1, <2>2
<1> HIDE DEF read
<1>3. /\ cut \in Seq(Nat) /\ Len(cut) = PacketLen
      /\ \A i \in 1 .. PacketLen : cut[i] = read[s + i]
  <2>1. \A i \in s + 1 .. s + PacketLen : i \in 1 .. n
    BY <1>1
  <2>2. \A i \in s + 1 .. s + PacketLen : read[i] \in Nat
    BY <1>2, <2>1
  <2>3. /\ cut \in Seq(Nat)
        /\ Len(cut) = IF s + 1 <= s + PacketLen THEN (s + PacketLen) - (s + 1) + 1 ELSE 0
        /\ \A i \in 1 .. (s + PacketLen) - (s + 1) + 1 : cut[i] = read[(s + 1) + i - 1]
    <3> DEFINE lo == s + 1
               hi == s + PacketLen
    <3>1. lo \in Int /\ hi \in Int
      BY <1>1
    <3>2. \A i \in lo .. hi : read[i] \in Nat
      BY <2>2
    <3> HIDE DEF lo, hi
    <3>3. /\ SubSeq(read, lo, hi) \in Seq(Nat)
          /\ Len(SubSeq(read, lo, hi)) = IF lo <= hi THEN hi - lo + 1 ELSE 0
          /\ \A i \in 1 .. hi - lo + 1 : SubSeq(read, lo, hi)[i] = read[lo + i - 1]
      BY <3>1, <3>2, SubSeqProperties
    <3> QED BY <3>3 DEF lo, hi
  <2>4. (s + PacketLen) - (s + 1) + 1 = PacketLen /\ s + 1 <= s + PacketLen
    BY <1>1
  <2>5. \A i \in 1 .. PacketLen : (s + 1) + i - 1 = s + i
    OBVIOUS
  <2> HIDE DEF cut
  <2>6. Len(cut) = PacketLen
    BY <2>3, <2>4
  <2>7. \A i \in 1 .. PacketLen : cut[i] = read[s + i]
    BY <2>3, <2>4, <2>5
  <2> QED BY <2>3, <2>6, <2>7
<1> HIDE DEF cut
<1>4. p \in Seq(Nat) /\ Len(p) = PacketLen /\ \A i \in 1 .. PacketLen : p[i] = (a + s) + i - 1
  <2>1. a + s \in Nat
    OBVIOUS
  <2> QED BY <2>1, PacketAtIs DEF PacketAt
<1> HIDE DEF p
<1>5. \A i \in 1 .. PacketLen : cut[i] = p[i]
  <2> TAKE i \in 1 .. PacketLen
  <2>1. s + i \in 1 .. n /\ a + (s + i) - 1 = (a + s) + i - 1
    BY <1>1
  <2> QED BY <1>2, <1>3, <1>4, <2>1
<1>6. cut = p
  BY <1>3, <1>4, <1>5, SeqEqual
<1> QED BY <1>6 DEF cut, p, read

\* The packets of a read that begin there.
Cut(read, starts) == [k \in DOMAIN starts |-> SubSeq(read, starts[k] + 1, starts[k] + PacketLen)]

LEMMA RowIs ==
  ASSUME NEW a \in Nat, NEW n \in Nat, NEW i \in Nat, NEW starts, NEW end, Finds(a, n, i, starts, end),
         NEW row, row = Cut(Data(a, n), starts)
  PROVE  InARow(row) /\ Len(row) = Len(starts) /\ \A k \in 1 .. Len(starts) : row[k][1] = a + starts[k]
<1> DEFINE m == Len(starts)
<1>1. PacketLen \in Nat \ {0}
  BY PacketsAssumption
<1>2. starts \in Seq(Nat) /\ m \in Nat /\ DOMAIN starts = 1 .. m
  BY DEF Finds
<1>3. \A k \in 1 .. m : starts[k] \in Nat /\ starts[k] + PacketLen < n /\ IsAligned(a + starts[k])
  BY <1>2 DEF Finds
<1>4. \A k \in 1 .. m : k > 1 => starts[k] = starts[k - 1] + PacketLen
  BY DEF Finds
<1> HIDE DEF m
<1>5. \A k \in 1 .. m : row[k] = PacketAt(a + starts[k])
  <2> TAKE k \in 1 .. m
  <2>1. row[k] = SubSeq(Data(a, n), starts[k] + 1, starts[k] + PacketLen)
    BY <1>2 DEF Cut
  <2> QED BY <1>3, <2>1, CutIs
<1>6. \A k \in 1 .. m : a + starts[k] \in Nat /\ row[k] \in Seq(Nat) /\ row[k][1] = a + starts[k]
  <2> TAKE k \in 1 .. m
  <2>1. a + starts[k] \in Nat
    BY <1>3
  <2> QED BY <1>5, <2>1, PacketAtIs
<1>7. row = [k \in 1 .. m |-> row[k]]
  BY <1>2 DEF Cut
<1>8. row \in Seq(Seq(Nat)) /\ Len(row) = m
  <2>1. row \in [1 .. m -> Seq(Nat)]
    BY <1>6, <1>7
  <2> QED BY <1>2, <2>1
<1>9. ASSUME NEW k \in 1 .. m, k > 1 PROVE row[k][1] = row[k - 1][1] + PacketLen
  <2>1. k - 1 \in 1 .. m
    BY <1>2, <1>9
  <2>2. starts[k] = starts[k - 1] + PacketLen /\ starts[k - 1] \in Nat
    BY <1>3, <1>4, <1>9, <2>1
  <2>3. row[k][1] = a + starts[k] /\ row[k - 1][1] = a + starts[k - 1]
    BY <1>6, <2>1
  <2>4. a + (starts[k - 1] + PacketLen) = (a + starts[k - 1]) + PacketLen
    BY <1>1, <2>2
  <2> QED BY <2>2, <2>3, <2>4
<1>10. InARow(row)
  BY <1>3, <1>5, <1>6, <1>8, <1>9 DEF InARow
<1> QED BY <1>6, <1>8, <1>10 DEF m

LEMMA RowWithFirst ==
  ASSUME NEW row, InARow(row), NEW b \in Nat, IsAligned(b), row # <<>> => row[1][1] = b + PacketLen
  PROVE  LET all == <<PacketAt(b)>> \o row
         IN  /\ InARow(all) /\ Len(all) = Len(row) + 1 /\ all[1][1] = b
             /\ all[Len(all)] = IF row = <<>> THEN PacketAt(b) ELSE row[Len(row)]
<1> DEFINE one == <<PacketAt(b)>>
           all == one \o row
           m == Len(row)
           p == PacketAt(b)
<1>1. PacketLen \in Nat \ {0}
  BY PacketsAssumption
<1>2. p \in Seq(Nat) /\ p[1] = b
  BY PacketAtIs
<1>3. row \in Seq(Seq(Nat)) /\ m \in Nat
  BY DEF InARow
<1> HIDE DEF p
<1>4. one \in Seq(Seq(Nat)) /\ Len(one) = 1 /\ one[1] = p
  BY <1>2 DEF p
<1> HIDE DEF one
<1>5. /\ all \in Seq(Seq(Nat)) /\ Len(all) = Len(one) + m
      /\ \A k \in 1 .. Len(one) + m : all[k] = IF k <= Len(one) THEN one[k] ELSE row[k - Len(one)]
  BY <1>3, <1>4, ConcatProperties
<1>6. Len(one) + m = m + 1
  BY <1>3, <1>4
<1> HIDE DEF all
<1>7. Len(all) = m + 1 /\ all[1] = p /\ \A k \in 2 .. m + 1 : k - 1 \in 1 .. m /\ all[k] = row[k - 1]
  <2>1. 1 \in 1 .. m + 1 /\ 1 <= Len(one)
    BY <1>3, <1>4
  <2>2. ASSUME NEW k \in 2 .. m + 1 PROVE k - 1 \in 1 .. m /\ all[k] = row[k - 1]
    <3>1. k \in 1 .. m + 1 /\ ~(k <= 1) /\ k - 1 \in 1 .. m
      BY <1>3
    <3> QED BY <1>4, <1>5, <1>6, <3>1
  <2> QED BY <1>4, <1>5, <1>6, <2>1, <2>2
<1> HIDE DEF m
<1>8. \A k \in 1 .. m : row[k][1] \in Nat /\ IsAligned(row[k][1]) /\ row[k] = PacketAt(row[k][1])
                          /\ (k > 1 => row[k][1] = row[k - 1][1] + PacketLen)
  BY DEF InARow, m
<1>9. m # 0 => row[1][1] = b + PacketLen
  BY <1>3, EmptySeq DEF m
<1>10. ASSUME NEW k \in 1 .. m + 1
       PROVE  /\ all[k][1] \in Nat /\ IsAligned(all[k][1]) /\ all[k] = PacketAt(all[k][1])
              /\ k > 1 => all[k][1] = all[k - 1][1] + PacketLen
  <2>1. CASE k = 1
    BY <1>2, <1>7, <2>1 DEF p
  <2>2. CASE k # 1
    <3>1. k \in 2 .. m + 1 /\ k - 1 \in 1 .. m
      BY <1>3, <2>2
    <3>2. all[k] = row[k - 1]
      BY <1>7, <3>1
    <3>3. CASE k = 2
      <4>1. m # 0 /\ k - 1 = 1
        BY <1>3, <3>1, <3>3
      <4>2. all[k][1] = all[k - 1][1] + PacketLen
        BY <1>2, <1>7, <1>9, <3>2, <4>1
      <4> QED BY <1>8, <3>1, <3>2, <4>2
    <3>4. CASE k # 2
      <4>1. k - 1 \in 2 .. m + 1 /\ k - 1 > 1
        BY <1>3, <3>1, <3>4
      <4>2. all[k - 1] = row[(k - 1) - 1]
        BY <1>7, <4>1
      <4>3. all[k][1] = all[k - 1][1] + PacketLen
        BY <1>8, <3>1, <3>2, <4>1, <4>2
      <4> QED BY <1>8, <3>1, <3>2, <4>3
    <3> QED BY <3>3, <3>4
  <2> QED BY <2>1, <2>2
<1>11. InARow(all)
  <2>1. 1 .. Len(all) = 1 .. m + 1
    BY <1>7
  <2> QED BY <1>5, <1>10, <2>1 DEF InARow
<1>12. all[Len(all)] = IF row = <<>> THEN p ELSE row[m]
  <2>1. CASE row = <<>>
    <3>1. m = 0
      BY <2>1, EmptySeq DEF m
    <3> QED BY <1>7, <2>1, <3>1
  <2>2. CASE row # <<>>
    <3>1. m # 0
      BY <2>2, <1>3, EmptySeq DEF m
    <3>2. m + 1 \in 2 .. m + 1 /\ (m + 1) - 1 = m
      BY <1>3, <3>1
    <3> QED BY <1>7, <2>2, <3>2
  <2> QED BY <2>1, <2>2
<1> QED BY <1>2, <1>7, <1>11, <1>12 DEF m, p, all, one

\* Bytes of the stream, one behind the other, less than a packet and one more.
IsRest(bytes) ==
  /\ bytes \in Seq(Nat) /\ Len(bytes) <= PacketLen
  /\ \A k \in 1 .. Len(bytes) : bytes[k] = bytes[1] + k - 1
  /\ bytes # <<>> => Packets!IsSync(bytes[1])

\* The first byte that is in no packet yet.
NextByte(rest, after) == IF rest = <<>> THEN after ELSE rest[1]

\* The second loop of OnRawData.
LEMMA RemainderIs ==
  ASSUME NEW a \in Nat, NEW n \in Nat, NEW end \in Nat, end + PacketLen >= n,
         NEW rest, rest = Packets!Remainder(Data(a, n), end)
  PROVE  /\ IsRest(rest)
         /\ rest # <<>> => rest[1] + Len(rest) = a + n
         /\ end >= n => rest = <<>>
         /\ end < n /\ IsAligned(a + end) => rest # <<>> /\ rest[1] = a + end
<1> DEFINE read == Data(a, n)
           Syncs == {i \in end .. Len(read) - 1 : Packets!IsSync(read[i + 1])}
<1>1. PacketLen \in Nat \ {0}
  BY PacketsAssumption
<1>2. Len(read) = n /\ \A i \in 0 .. n - 1 : read[i + 1] = a + i
  <2>1. Len(read) = n /\ \A x \in 1 .. n : read[x] = a + x - 1
    BY DataIs
  <2> HIDE DEF read
  <2>2. \A i \in 0 .. n - 1 : i + 1 \in 1 .. n /\ a + (i + 1) - 1 = a + i
    OBVIOUS
  <2> QED BY <2>1, <2>2
<1>3. \A i \in end .. n - 1 : i \in 0 .. n - 1
  OBVIOUS
<1>4. \A i : i \in Syncs <=> i \in end .. n - 1 /\ Packets!IsSync(a + i)
  <2> HIDE DEF read
  <2> QED BY <1>2, <1>3
<1>5. rest = IF Syncs = {} THEN <<>> ELSE SubSeq(read, (CHOOSE i \in Syncs : \A j \in Syncs : i <= j) + 1, Len(read))
  BY DEF Packets!Remainder
<1> HIDE DEF read, Syncs
<1>6. CASE Syncs = {}
  <2>1. rest = <<>>
    BY <1>5, <1>6
  <2>2. end < n /\ IsAligned(a + end) => end \in Syncs
    <3>1. a + end \in Nat
      OBVIOUS
    <3> QED BY <1>4, <3>1, TwoAreInSync
  <2>3. Len(rest) = 0 /\ rest \in Seq(Nat)
    BY <2>1, EmptySeq
  <2>4. IsRest(rest)
    BY <1>1, <2>1, <2>3 DEF IsRest
  <2> QED BY <1>6, <2>1, <2>2, <2>4
<1>7. CASE Syncs # {}
  <2> DEFINE first == CHOOSE i \in Syncs : \A j \in Syncs : i <= j
             lo == first + 1
  <2>1. first \in Syncs /\ \A j \in Syncs : first <= j
    <3>1. Syncs \subseteq Nat
      BY <1>3, <1>4
    <3>2. \E i \in Syncs : \A j \in Syncs : i <= j
      BY <1>7, <3>1, LeastOf
    <3> QED BY <3>2
  <2>2. rest = SubSeq(read, lo, n)
    BY <1>2, <1>5, <1>7
  <2> HIDE DEF first
  <2>3. first \in end .. n - 1 /\ first \in Nat /\ Packets!IsSync(a + first)
    BY <1>3, <1>4, <2>1
  <2>4. lo \in Int /\ lo \in 1 .. n /\ n - lo + 1 = n - first
    BY <2>3
  <2>5. \A i \in lo .. n : read[i] \in Nat
    <3> SUFFICES ASSUME NEW i \in lo .. n PROVE read[i] \in Nat
      OBVIOUS
    <3> DEFINE j == i - 1
    <3>1. j \in 0 .. n - 1 /\ j + 1 = i /\ a + j \in Nat
      BY <2>4
    <3> HIDE DEF j, lo
    <3>2. read[j + 1] = a + j
      BY <1>2, <3>1
    <3> QED BY <3>1, <3>2
  <2>6. \A k \in 1 .. n - first : read[lo + k - 1] = (a + first) + k - 1
    <3> SUFFICES ASSUME NEW k \in 1 .. n - first PROVE read[lo + k - 1] = (a + first) + k - 1
      OBVIOUS
    <3> DEFINE i == first + k - 1
    <3>1. i \in 0 .. n - 1 /\ i + 1 = lo + k - 1 /\ a + i = (a + first) + k - 1
      BY <2>3
    <3> HIDE DEF i, lo
    <3>2. read[i + 1] = a + i
      BY <1>2, <3>1
    <3> QED BY <3>1, <3>2
  <2> HIDE DEF lo
  <2>7. /\ rest \in Seq(Nat) /\ Len(rest) = IF lo <= n THEN n - lo + 1 ELSE 0
        /\ \A k \in 1 .. n - lo + 1 : rest[k] = read[lo + k - 1]
    BY <2>2, <2>4, <2>5, SubSeqProperties
  <2>8. Len(rest) = n - first /\ \A k \in 1 .. n - first : rest[k] = (a + first) + k - 1
    BY <2>4, <2>6, <2>7
  <2>9. 1 \in 1 .. n - first /\ rest[1] = a + first /\ rest # <<>>
    <3>1. 1 \in 1 .. n - first /\ (a + first) + 1 - 1 = a + first
      BY <2>3
    <3> QED BY <2>3, <2>8, <3>1, EmptySeq
  <2>10. IsRest(rest) /\ rest[1] + Len(rest) = a + n /\ ~(end >= n)
    <3>1. n - first <= PacketLen /\ (a + first) + (n - first) = a + n /\ ~(end >= n)
      BY <1>1, <2>3
    <3>2. \A k \in 1 .. Len(rest) : rest[k] = rest[1] + k - 1
      BY <2>8, <2>9
    <3>3. IsRest(rest)
      BY <2>3, <2>7, <2>8, <2>9, <3>1, <3>2 DEF IsRest
    <3> QED BY <2>8, <2>9, <3>1, <3>3
  <2>11. IsAligned(a + end) => first = end
    <3> SUFFICES ASSUME IsAligned(a + end) PROVE first = end
      OBVIOUS
    <3>1. a + end \in Nat /\ end \in end .. n - 1
      BY <2>3
    <3>2. end \in Syncs
      BY <1>4, <3>1, TwoAreInSync
    <3> QED BY <2>1, <2>3, <3>2
  <2> QED BY <2>9, <2>10, <2>11
<1> QED BY <1>6, <1>7

\* Both loops from an offset on: packets in a row, and what remains follows them; from an offset
\* where a packet begins, they begin there.
LEMMA Scanned ==
  ASSUME NEW a \in Nat, NEW n \in Nat, NEW offset \in 0 .. n + PacketLen,
         NEW scan, scan = Packets!Scan(Data(a, n), offset),
         NEW row, row = Cut(Data(a, n), scan.starts),
         NEW rest, rest = Packets!Remainder(Data(a, n), scan.end)
  PROVE  /\ InARow(row) /\ IsRest(rest)
         /\ rest # <<>> => rest[1] + Len(rest) = a + n
         /\ row # <<>> => NextByte(rest, a + n) = row[Len(row)][1] + PacketLen
         /\ IsAligned(a + offset) /\ row # <<>> => row[1][1] = a + offset
         /\ IsAligned(a + offset) /\ offset <= n /\ row = <<>> => NextByte(rest, a + n) = a + offset
<1> DEFINE starts == scan.starts
           end == scan.end
           m == Len(starts)
<1>1. PacketLen \in Nat \ {0} /\ offset \in Nat
  BY PacketsAssumption
<1>2. Finds(a, n, offset, starts, end)
  BY ScanFinds
<1>3. row = Cut(Data(a, n), starts)
  OBVIOUS
<1>4. rest = Packets!Remainder(Data(a, n), end)
  OBVIOUS
<1> HIDE DEF starts, end
<1>5. InARow(row) /\ Len(row) = m /\ \A k \in 1 .. m : row[k][1] = a + starts[k]
  BY <1>1, <1>2, <1>3, RowIs
<1>6. /\ starts \in Seq(Nat) /\ m \in Nat /\ end \in Nat /\ end + PacketLen >= n
      /\ \A k \in 1 .. m : starts[k] \in Nat /\ starts[k] + PacketLen < n /\ IsAligned(a + starts[k])
      /\ m # 0 => end = starts[m] + PacketLen
      /\ m # 0 /\ IsAligned(a + offset) => starts[1] = offset
      /\ m = 0 /\ IsAligned(a + offset) => end = offset
  BY <1>2, EmptySeq DEF Finds
<1>7. /\ IsRest(rest) /\ (rest # <<>> => rest[1] + Len(rest) = a + n)
      /\ end >= n => rest = <<>>
      /\ end < n /\ IsAligned(a + end) => rest # <<>> /\ rest[1] = a + end
  BY <1>4, <1>6, RemainderIs
<1>8. row # <<>> <=> m # 0
  <2>1. row \in Seq(Seq(Nat))
    BY <1>5 DEF InARow
  <2> QED BY <1>5, <2>1, EmptySeq
<1> HIDE DEF m
<1>9. ASSUME row # <<>> PROVE NextByte(rest, a + n) = row[m][1] + PacketLen
  <2>1. m \in 1 .. m /\ m # 0
    BY <1>6, <1>8, <1>9
  <2>2. /\ starts[m] \in Nat /\ starts[m] + PacketLen < n /\ IsAligned(a + starts[m])
        /\ end = starts[m] + PacketLen /\ row[m][1] = a + starts[m]
    BY <1>5, <1>6, <2>1
  <2>3. a + end = (a + starts[m]) + PacketLen /\ end < n /\ a + starts[m] \in Nat
    <3> DEFINE b == starts[m]
    <3>1. b \in Nat /\ b + PacketLen < n /\ end = b + PacketLen
      BY <2>2
    <3> HIDE DEF b
    <3>2. a + end = (a + b) + PacketLen /\ end < n /\ a + b \in Nat
      BY <1>1, <3>1
    <3> QED BY <3>2 DEF b
  <2>4. IsAligned(a + end)
    BY <2>2, <2>3, TwoAreInSync
  <2> QED BY <1>7, <2>2, <2>3, <2>4 DEF NextByte
<1>10. ASSUME IsAligned(a + offset), row # <<>> PROVE row[1][1] = a + offset
  <2>1. 1 \in 1 .. m
    BY <1>6, <1>8, <1>10
  <2> QED BY <1>5, <1>6, <1>8, <1>10, <2>1
<1>11. ASSUME IsAligned(a + offset), offset <= n, row = <<>> PROVE NextByte(rest, a + n) = a + offset
  <2>1. end = offset
    BY <1>6, <1>8, <1>11
  <2>2. CASE offset < n
    BY <1>7, <1>11, <2>1, <2>2 DEF NextByte
  <2>3. CASE offset = n
    BY <1>7, <2>1, <2>3 DEF NextByte
  <2> QED BY <1>1, <1>11, <2>2, <2>3
<1> QED BY <1>5, <1>7, <1>9, <1>10, <1>11

\* A rest and what the next read brings of its packet.
LEMMA Completes ==
  ASSUME NEW rest, IsRest(rest), rest # <<>>, NEW a \in Nat, rest[1] + Len(rest) = a,
         NEW n \in Nat, n > PacketLen - Len(rest),
         NEW filled,
         filled = [i \in 1 .. PacketLen - Len(rest) |->
                     IF i <= Len(Data(a, n)) THEN Data(a, n)[i] ELSE Packets!Stale]
  PROVE  rest \o filled = PacketAt(rest[1])
<1> DEFINE t == Len(rest)
           d == PacketLen - t
           b == rest[1]
           all == rest \o filled
           p == PacketAt(b)
<1>1. PacketLen \in Nat \ {0}
  BY PacketsAssumption
<1>2. rest \in Seq(Nat) /\ t \in Nat /\ t <= PacketLen /\ t # 0 /\ b \in Nat /\ b + t = a
  <2>1. t # 0 /\ t \in Nat /\ rest \in Seq(Nat)
    BY EmptySeq DEF IsRest
  <2> QED BY <2>1 DEF IsRest
<1>3. \A k \in 1 .. t : rest[k] = b + k - 1
  BY DEF IsRest
<1> HIDE DEF t
<1>4. d \in Nat /\ t + d = PacketLen /\ \A i \in 1 .. d : i \in 1 .. n
  BY <1>1, <1>2 DEF t
<1> HIDE DEF b
<1>5. filled \in Seq(Nat) /\ Len(filled) = d /\ \A i \in 1 .. d : filled[i] = a + i - 1
  <2>1. Len(Data(a, n)) = n /\ \A i \in 1 .. n : Data(a, n)[i] = a + i - 1
    BY DataIs
  <2>2. filled = [i \in 1 .. d |-> IF i <= Len(Data(a, n)) THEN Data(a, n)[i] ELSE Packets!Stale]
    BY DEF t
  <2> HIDE DEF d
  <2>3. ASSUME NEW i \in 1 .. d PROVE filled[i] = a + i - 1 /\ a + i - 1 \in Nat
    <3>1. i \in 1 .. n /\ i <= n /\ a + i - 1 \in Nat
      BY <1>4
    <3>2. filled[i] = IF i <= Len(Data(a, n)) THEN Data(a, n)[i] ELSE Packets!Stale
      BY <2>2
    <3> QED BY <2>1, <3>1, <3>2
  <2>4. filled \in [1 .. d -> Nat]
    <3>1. filled = [i \in 1 .. d |-> filled[i]]
      BY <2>2
    <3>2. \A i \in 1 .. d : filled[i] \in Nat
      BY <2>3
    <3> HIDE DEF d
    <3> QED BY <3>1, <3>2
  <2>5. d \in Nat
    BY <1>4
  <2>6. filled \in Seq(Nat) /\ Len(filled) = d
    <3> SUFFICES ASSUME NEW f, f \in [1 .. d -> Nat] PROVE f \in Seq(Nat) /\ Len(f) = d
      BY <2>4, Zenon
    <3> QED BY <2>5
  <2>7. \A i \in 1 .. d : filled[i] = a + i - 1
    BY <2>3, Zenon
  <2> QED BY <2>6, <2>7
<1> HIDE DEF d
<1>6. /\ all \in Seq(Nat) /\ Len(all) = t + d
      /\ \A k \in 1 .. t + d : all[k] = IF k <= t THEN rest[k] ELSE filled[k - t]
  BY <1>2, <1>5, ConcatProperties DEF t
<1>7. p \in Seq(Nat) /\ Len(p) = PacketLen /\ \A k \in 1 .. PacketLen : p[k] = b + k - 1
  BY <1>2, PacketAtIs DEF PacketAt
<1> HIDE DEF all, p
<1>8. ASSUME NEW k \in 1 .. PacketLen PROVE all[k] = p[k]
  <2>1. CASE k <= t
    <3>1. k \in 1 .. t /\ k \in 1 .. t + d
      BY <1>2, <1>4, <2>1
    <3> QED BY <1>3, <1>6, <1>7, <2>1, <3>1
  <2>2. CASE ~(k <= t)
    <3> DEFINE i == k - t
    <3>1. i \in 1 .. d /\ k \in 1 .. t + d /\ a + i - 1 = b + k - 1
      BY <1>2, <1>4, <2>2
    <3>2. all[k] = filled[i]
      BY <1>6, <2>2, <3>1
    <3> HIDE DEF i
    <3> QED BY <1>5, <1>7, <3>1, <3>2
  <2> QED BY <2>1, <2>2
<1>9. all = p
  BY <1>4, <1>6, <1>7, <1>8, SeqEqual
<1> QED BY <1>9 DEF all, p, b

\* The packet that was given last, of this read or of an earlier one.
LastGiven == IF packets # <<>> THEN packets[Len(packets)] ELSE last

PacketInv ==
  /\ place \in Nat /\ whole \in BOOLEAN
  /\ IsRest(temp)
  /\ clean /\ temp # <<>> => temp[1] + Len(temp) = place
  /\ ~whole => last = <<>>
  /\ whole =>
       /\ InARow(packets)
       /\ packets # <<>> /\ last # <<>> => packets[1][1] = last[1] + PacketLen
       /\ packets # <<>> \/ last # <<>> =>
            /\ LastGiven[1] \in Nat /\ IsAligned(LastGiven[1])
            /\ clean => NextByte(temp, place) = LastGiven[1] + PacketLen

LEMMA PacketsAreIntact ==
  ASSUME PacketInv
  PROVE  Packets!PacketsIntact
<1> SUFFICES ASSUME whole PROVE Packets!PacketsIntact
  BY DEF Packets!PacketsIntact
<1>1. InARow(packets) /\ (packets # <<>> /\ last # <<>> => packets[1][1] = last[1] + PacketLen)
  BY DEF PacketInv
<1>2. DOMAIN packets = 1 .. Len(packets)
  BY <1>1 DEF InARow
<1> QED BY <1>1, <1>2 DEF InARow, IsAligned, PacketAt, Packets!PacketsIntact, Packets!NoPacket

LEMMA PacketInitially ==
  ASSUME Packets!Init
  PROVE  PacketInv
<1>1. place \in Nat /\ temp = <<>> /\ last = <<>> /\ whole = FALSE
  BY PacketsAssumption DEF Packets!Init, Packets!NoPacket
<1>2. IsRest(<<>>)
  <2>1. PacketLen \in Nat /\ Len(<<>>) = 0 /\ <<>> \in Seq(Nat)
    BY PacketsAssumption, EmptySeq
  <2> QED BY <2>1 DEF IsRest
<1> QED BY <1>1, <1>2 DEF PacketInv

LEMMA PacketJump ==
  ASSUME PacketInv, NEW to \in Places, Packets!Jump(to)
  PROVE  PacketInv'
<1>1. to \in Nat
  BY PacketsAssumption
<1>2. /\ place' = to /\ clean' = (temp = <<>>) /\ packets' = <<>> /\ last' = <<>>
      /\ temp' = temp /\ whole' = whole
  BY DEF Packets!Jump, Packets!NoPacket
<1>3. InARow(<<>>)
  <2>1. <<>> \in Seq(Seq(Nat)) /\ Len(<<>>) = 0
    BY EmptySeq
  <2> QED BY <2>1 DEF InARow
<1> QED BY <1>1, <1>2, <1>3 DEF PacketInv

\* A read of a part of a packet, or behind a place that was left: nothing is said of what it gives.
LEMMA PacketReadOpen ==
  ASSUME PacketInv, NEW n \in Reads, Packets!ReadFromFile(n), ~whole'
  PROVE  PacketInv'
<1> DEFINE read == Data(place, n)
<1>1. PacketLen \in Nat \ {0} /\ n \in Nat /\ place \in Nat /\ place + n \in Nat
  BY PacketsAssumption DEF PacketInv
<1>2. place' = place + n /\ last' = <<>> /\ whole' = FALSE /\ Packets!OnRawData(read)
  BY DEF Packets!ReadFromFile, Packets!NoPacket, Data
<1>3. PICK first \in Packets!FromTemp(read) : temp' = Packets!Remainder(read, Packets!Scan(read, first.offset).end)
  BY <1>2 DEF Packets!OnRawData
<1>4. first.offset \in 0 .. n + PacketLen
  <2> DEFINE offset == first.offset
  <2>1. offset = 0 \/ offset = Packets!Missing
    BY DEF Packets!FromTemp
  <2>2. Packets!Missing \in 0 .. PacketLen
    <3>1. Len(temp) \in Nat /\ Len(temp) <= PacketLen
      BY DEF PacketInv, IsRest
    <3> QED BY <1>1, <3>1 DEF Packets!Missing
  <2> HIDE DEF offset
  <2>3. offset \in 0 .. n + PacketLen
    BY <1>1, <2>1, <2>2
  <2> QED BY <2>3 DEF offset
<1> HIDE DEF read
<1> DEFINE scan == Packets!Scan(Data(place, n), first.offset)
           row == Cut(Data(place, n), scan.starts)
           rest == Packets!Remainder(Data(place, n), scan.end)
<1>5. IsRest(rest) /\ (rest # <<>> => rest[1] + Len(rest) = place + n)
  <2> HIDE DEF scan
  <2> QED BY <1>1, <1>4, Scanned DEF scan
<1>6. temp' = rest
  BY <1>3 DEF read
<1> HIDE DEF rest
<1> QED BY <1>1, <1>2, <1>5, <1>6 DEF PacketInv

LEMMA RowEnds ==
  ASSUME NEW row, InARow(row), row # <<>>
  PROVE  row[Len(row)][1] \in Nat /\ IsAligned(row[Len(row)][1])
<1>1. Len(row) \in 1 .. Len(row)
  BY EmptySeq DEF InARow
<1> QED BY <1>1 DEF InARow

\* What is known of the packet given last before a read.
LEMMA GivenBefore ==
  ASSUME PacketInv, NEW n \in Reads, Packets!ReadFromFile(n), whole', last' # <<>>
  PROVE  last'[1] \in Nat /\ IsAligned(last'[1]) /\ NextByte(temp, place) = last'[1] + PacketLen
<1>1. clean /\ last' = IF packets # <<>> /\ whole THEN packets[Len(packets)] ELSE last
  BY DEF Packets!ReadFromFile, Packets!NoPacket
<1>2. whole /\ (packets # <<>> \/ last # <<>>)
  BY <1>1 DEF PacketInv
<1>3. last' = LastGiven
  BY <1>1, <1>2 DEF LastGiven
<1> QED BY <1>1, <1>2, <1>3 DEF PacketInv

\* A read that gives what its loop finds from its begin on.
LEMMA PacketReadFromBegin ==
  ASSUME NEW a \in Nat, NEW n \in Nat,
         NEW scan, scan = Packets!Scan(Data(a, n), 0), packets' = Cut(Data(a, n), scan.starts),
         temp' = Packets!Remainder(Data(a, n), scan.end),
         place' = a + n, whole' = TRUE,
         last' # <<>> => last'[1] \in Nat /\ IsAligned(last'[1]) /\ a = last'[1] + PacketLen
  PROVE  PacketInv'
<1> DEFINE row == packets'
           rest == temp'
<1>1. PacketLen \in Nat \ {0} /\ 0 \in 0 .. n + PacketLen /\ a + 0 = a /\ 0 <= n /\ a + n \in Nat
  BY PacketsAssumption
<1>2. /\ InARow(row) /\ IsRest(rest)
      /\ rest # <<>> => rest[1] + Len(rest) = a + n
      /\ row # <<>> => NextByte(rest, a + n) = row[Len(row)][1] + PacketLen
      /\ IsAligned(a) /\ row # <<>> => row[1][1] = a
      /\ IsAligned(a) /\ row = <<>> => NextByte(rest, a + n) = a
  <2>1. /\ InARow(row) /\ IsRest(rest)
        /\ rest # <<>> => rest[1] + Len(rest) = a + n
        /\ row # <<>> => NextByte(rest, a + n) = row[Len(row)][1] + PacketLen
        /\ IsAligned(a + 0) /\ row # <<>> => row[1][1] = a + 0
        /\ IsAligned(a + 0) /\ 0 <= n /\ row = <<>> => NextByte(rest, a + n) = a + 0
    BY <1>1, Scanned
  <2> QED BY <1>1, <2>1
<1>3. last' # <<>> => IsAligned(a)
  BY TwoAreInSync
<1>4. row # <<>> => row[Len(row)][1] \in Nat /\ IsAligned(row[Len(row)][1])
  BY <1>2, RowEnds
<1>5. LastGiven' = IF row # <<>> THEN row[Len(row)] ELSE last'
  BY DEF LastGiven
<1>6. NextByte(temp, place)' = NextByte(rest, a + n)
  BY DEF NextByte
<1>7. row # <<>> \/ last' # <<>> =>
        /\ LastGiven'[1] \in Nat /\ IsAligned(LastGiven'[1])
        /\ NextByte(temp, place)' = LastGiven'[1] + PacketLen
  BY <1>2, <1>3, <1>4, <1>5, <1>6
<1>8. InARow(packets)' /\ IsRest(temp)' /\ IsAligned(LastGiven[1])' = IsAligned(LastGiven'[1])
  BY <1>2 DEF InARow, IsRest, IsAligned, PacketAt, Packets!IsSync
<1> QED BY <1>1, <1>2, <1>3, <1>7, <1>8 DEF PacketInv

\* A read that completes the packet an earlier one has brought the begin of.
LEMMA PacketReadCompletes ==
  ASSUME NEW a \in Nat, NEW n \in Nat, NEW b \in Nat, NEW offset \in 0 .. n,
         IsAligned(b), a + offset = b + PacketLen,
         NEW scan, scan = Packets!Scan(Data(a, n), offset),
         NEW row, row = Cut(Data(a, n), scan.starts), packets' = <<PacketAt(b)>> \o row,
         NEW rest, rest = Packets!Remainder(Data(a, n), scan.end), temp' = rest,
         place' = a + n, whole' = TRUE,
         last' # <<>> => last'[1] \in Nat /\ b = last'[1] + PacketLen
  PROVE  PacketInv'
<1> DEFINE all == packets'
<1>1. PacketLen \in Nat \ {0} /\ offset \in 0 .. n + PacketLen /\ offset <= n /\ a + n \in Nat
  BY PacketsAssumption
<1>2. IsAligned(a + offset)
  BY TwoAreInSync
<1>3. /\ InARow(row) /\ IsRest(rest)
      /\ rest # <<>> => rest[1] + Len(rest) = a + n
      /\ row # <<>> => NextByte(rest, a + n) = row[Len(row)][1] + PacketLen
      /\ row # <<>> => row[1][1] = b + PacketLen
      /\ row = <<>> => NextByte(rest, a + n) = b + PacketLen
  <2>1. /\ InARow(row) /\ IsRest(rest)
        /\ rest # <<>> => rest[1] + Len(rest) = a + n
        /\ row # <<>> => NextByte(rest, a + n) = row[Len(row)][1] + PacketLen
        /\ IsAligned(a + offset) /\ row # <<>> => row[1][1] = a + offset
        /\ IsAligned(a + offset) /\ offset <= n /\ row = <<>> => NextByte(rest, a + n) = a + offset
    <3>1. offset \in 0 .. n + PacketLen
      BY <1>1
    <3> QED BY <3>1, Scanned
  <2> QED BY <1>1, <1>2, <2>1
<1>4. row # <<>> => row[Len(row)][1] \in Nat /\ IsAligned(row[Len(row)][1])
  BY <1>3, RowEnds
<1>5. all = <<PacketAt(b)>> \o row
  OBVIOUS
<1> HIDE DEF all
<1>6. /\ InARow(all) /\ Len(all) = Len(row) + 1 /\ all[1][1] = b
      /\ all[Len(all)] = IF row = <<>> THEN PacketAt(b) ELSE row[Len(row)]
  BY <1>3, <1>5, RowWithFirst
<1>7. all # <<>>
  <2>1. Len(row) \in Nat /\ all \in Seq(Seq(Nat))
    BY <1>3, <1>6 DEF InARow
  <2> QED BY <1>6, <2>1, EmptySeq
<1> USE DEF all
<1>8. LastGiven' = all[Len(all)]
  BY <1>7 DEF LastGiven
<1>9. NextByte(temp, place)' = NextByte(rest, a + n)
  BY DEF NextByte
<1>10. /\ LastGiven'[1] \in Nat /\ IsAligned(LastGiven'[1])
       /\ NextByte(temp, place)' = LastGiven'[1] + PacketLen
  <2>1. PacketAt(b)[1] = b
    BY PacketAtIs
  <2> QED BY <1>3, <1>4, <1>6, <1>8, <1>9, <2>1
<1>11. InARow(packets)' /\ IsRest(temp)' /\ IsAligned(LastGiven[1])' = IsAligned(LastGiven'[1])
  BY <1>3, <1>6 DEF InARow, IsRest, IsAligned, PacketAt, Packets!IsSync
<1> QED BY <1>1, <1>3, <1>6, <1>10, <1>11 DEF PacketInv

LEMMA PacketReadWhole ==
  ASSUME PacketInv, NEW n \in Reads, Packets!ReadFromFile(n), whole'
  PROVE  PacketInv'
<1> DEFINE read == Data(place, n)
<1>1. /\ PacketLen \in Nat \ {0} /\ n \in Nat /\ place \in Nat /\ IsRest(temp)
      /\ temp \in Seq(Nat) /\ Len(temp) \in Nat /\ Len(temp) <= PacketLen
  BY PacketsAssumption DEF PacketInv, IsRest
<1>2. place' = place + n /\ Packets!OnRawData(read)
  BY DEF Packets!ReadFromFile, Data
<1>3. whole' = TRUE /\ clean /\ ~Packets!TooShort(read)
  BY DEF Packets!ReadFromFile, Data
<1>4. PICK first \in Packets!FromTemp(read) :
        /\ packets' = first.packets \o Cut(read, Packets!Scan(read, first.offset).starts)
        /\ temp' = Packets!Remainder(read, Packets!Scan(read, first.offset).end)
  BY <1>2 DEF Packets!OnRawData, Cut
<1>5. last' # <<>> => last'[1] \in Nat /\ IsAligned(last'[1]) /\ NextByte(temp, place) = last'[1] + PacketLen
  BY GivenBefore
<1> DEFINE dropped == [packets |-> <<>>, offset |-> 0]
           filled == [i \in 1 .. Packets!Missing |-> IF i <= Len(read) THEN read[i] ELSE Packets!Stale]
           completed == [packets |-> <<temp \o filled>>, offset |-> Packets!Missing]
<1>6. CASE first = dropped /\ (last' # <<>> => NextByte(temp, place) = place)
  <2>1. first.offset = 0 /\ first.packets = <<>>
    BY <1>6
  <2> DEFINE scan == Packets!Scan(read, 0)
             row == Cut(read, scan.starts)
  <2>2. row \in Seq(Seq(Nat))
    <3>1. 0 \in 0 .. n + PacketLen
      BY <1>1
    <3>2. InARow(row)
      BY <1>1, <3>1, Scanned
    <3> QED BY <3>2 DEF InARow
  <2>3. packets' = <<>> \o row /\ temp' = Packets!Remainder(read, scan.end)
    BY <1>4, <2>1
  <2> HIDE DEF row
  <2>4. packets' = row
    BY <2>2, <2>3, ConcatEmptySeq
  <2> HIDE DEF scan
  <2>5. last' # <<>> => last'[1] \in Nat /\ IsAligned(last'[1]) /\ place = last'[1] + PacketLen
    BY <1>5, <1>6
  <2> QED BY <1>1, <1>2, <1>3, <2>3, <2>4, <2>5, PacketReadFromBegin DEF scan, row
<1>7. CASE temp = <<>>
  <2>1. first = dropped /\ NextByte(temp, place) = place
    BY <1>4, <1>7 DEF Packets!FromTemp, NextByte
  <2> QED BY <1>6, <2>1
<1>8. CASE temp # <<>>
  <2> DEFINE b == temp[1]
             missing == PacketLen - Len(temp)
  <2>1. b \in Nat /\ b + Len(temp) = place /\ Packets!IsSync(b) /\ Len(temp) # 0
    BY <1>1, <1>3, <1>8, EmptySeq DEF PacketInv, IsRest
  <2>2. Packets!Missing = missing /\ missing \in Nat /\ missing < n /\ place + missing = b + PacketLen
    <3>1. Len(read) = n
      BY <1>1, DataIs
    <3> HIDE DEF read
    <3>2. Packets!Missing = missing /\ missing \in Nat /\ ~(n <= missing)
      BY <1>1, <1>3, <1>8, <3>1 DEF Packets!Missing, Packets!TooShort
    <3> HIDE DEF b
    <3> QED BY <1>1, <2>1, <3>2
  <2>3. read[missing + 1] = b + PacketLen
    <3> HIDE DEF missing, b
    <3>1. missing + 1 \in 1 .. n /\ place + (missing + 1) - 1 = place + missing
      BY <1>1, <2>2
    <3> QED BY <1>1, <2>2, <3>1, DataIs
  <2>4. NextByte(temp, place) = b
    BY <1>8 DEF NextByte
  <2>5. first = IF Packets!IsSync(b + PacketLen) THEN completed ELSE dropped
    <3> HIDE DEF completed, dropped, read, missing, b
    <3>1. Packets!FromTemp(read) = IF Packets!IsSync(read[Packets!Missing + 1]) THEN {completed} ELSE {dropped}
      BY <1>3, <1>8 DEF Packets!FromTemp, completed, dropped
    <3> QED BY <1>4, <2>2, <2>3, <3>1
  <2>6. CASE Packets!IsSync(b + PacketLen)
    <3>1. IsAligned(b) /\ first = completed
      BY <2>1, <2>5, <2>6, TwoAreInSync
    <3> DEFINE offset == Packets!Missing
               scan == Packets!Scan(read, offset)
    <3>2. temp \o filled = PacketAt(b)
      <4>1. filled = [i \in 1 .. PacketLen - Len(temp) |-> IF i <= Len(read) THEN read[i] ELSE Packets!Stale]
        BY <2>2
      <4>2. n > PacketLen - Len(temp)
        BY <1>1, <2>2
      <4> HIDE DEF filled
      <4> QED BY <1>1, <1>8, <2>1, <4>1, <4>2, Completes
    <3>3. first.offset = offset /\ first.packets = <<temp \o filled>>
      <4> HIDE DEF filled
      <4> QED BY <3>1
    <3> HIDE DEF completed, filled
    <3>4. packets' = <<PacketAt(b)>> \o Cut(read, scan.starts) /\ temp' = Packets!Remainder(read, scan.end)
      BY <1>4, <3>2, <3>3
    <3>5. offset \in 0 .. n /\ place + offset = b + PacketLen
      <4> HIDE DEF b
      <4> QED BY <1>1, <2>2
    <3>6. last' # <<>> => last'[1] \in Nat /\ b = last'[1] + PacketLen
      BY <1>5, <2>4
    <3> HIDE DEF scan, b, offset
    <3>7. b \in Nat
      BY <2>1
    <3> QED BY <1>1, <1>2, <1>3, <3>1, <3>4, <3>5, <3>6, <3>7, PacketReadCompletes DEF scan
  <2>7. CASE ~Packets!IsSync(b + PacketLen)
    <3>1. ~IsAligned(b) /\ first = dropped
      BY <2>1, <2>5, <2>7, TwoAreInSync
    <3>2. last' = <<>>
      <4> SUFFICES ASSUME last' # <<>> PROVE FALSE
        OBVIOUS
      <4>1. last'[1] \in Nat /\ IsAligned(last'[1]) /\ b = last'[1] + PacketLen
        BY <1>5, <2>4
      <4> HIDE DEF b
      <4> QED BY <3>1, <4>1, TwoAreInSync
    <3> QED BY <1>6, <3>1, <3>2
  <2> QED BY <2>6, <2>7
<1> QED BY <1>7, <1>8

LEMMA PacketRead ==
  ASSUME PacketInv, NEW n \in Reads, Packets!ReadFromFile(n)
  PROVE  PacketInv'
BY PacketReadOpen, PacketReadWhole

LEMMA PacketsOnly ==
  ASSUME part = "packets", [InputNext]_inputVars
  PROVE  part' = "packets" /\ (Packets!Next \/ UNCHANGED packetSync)
BY DEF InputNext, inputVars, Others

\* CPacketSync::OnRawData: whatever the reads are cut into, and wherever the bytes of a payload look
\* like the begin of a packet, the demultiplexer gets the packets of the stream, none missing.
THEOREM PacketsStayIntact == InputSpec => []PacketsIntact
<1> DEFINE Inv == part = "packets" => PacketInv
<1>1. InputInit => Inv
  BY PacketInitially DEF InputInit
<1>2. Inv /\ [InputNext]_inputVars => Inv'
  <2> SUFFICES ASSUME Inv, [InputNext]_inputVars, part' = "packets" PROVE PacketInv'
    OBVIOUS
  <2>1. part = "packets"
    BY DEF InputNext, inputVars, Others
  <2>2. PacketInv /\ (Packets!Next \/ UNCHANGED packetSync)
    BY <2>1, PacketsOnly
  <2>3. CASE UNCHANGED packetSync
    BY <2>2, <2>3 DEF packetSync, PacketInv, LastGiven, NextByte, InARow, IsRest, IsAligned, PacketAt,
         Packets!IsSync
  <2>4. CASE Packets!Next
    BY <2>2, <2>4, PacketRead, PacketJump DEF Packets!Next
  <2> QED BY <2>2, <2>3, <2>4
<1>3. Inv => PacketsIntact
  BY PacketsAreIntact DEF PacketsIntact
<1> QED BY <1>1, <1>2, <1>3, PTL DEF InputSpec

-----------------------------------------------------------------------------
(* RtpReception                                                            *)

LEMMA RemainderOfSum ==
  ASSUME NEW d \in Nat \ {0}, NEW q \in Nat, NEW r \in Nat, r < d, NEW a, a = (q * d) + r
  PROVE  a \in Nat /\ a \div d = q /\ a % d = r
<1> DEFINE p == a \div d
           s == a % d
<1>1. q * d \in Nat
  OBVIOUS
<1>2. a \in Nat
  BY <1>1
<1>3. p \in Nat /\ s \in Nat /\ s < d /\ a = (p * d) + s
  BY <1>2, Divided
<1> HIDE DEF p, s
<1>4. (p - q) * d = r - s
  BY <1>3
<1>5. CASE p - q >= 1
  <2>1. (p - q) * d >= d
    BY <1>3, <1>5
  <2> QED BY <1>3, <1>4, <2>1
<1>6. CASE p - q <= 0 - 1
  <2>1. (p - q) * d <= 0 - d
    BY <1>3, <1>6
  <2> QED BY <1>3, <1>4, <2>1
<1>7. CASE p = q
  <2>1. s = r
    BY <1>3, <1>4, <1>7
  <2> QED BY <1>2, <1>7, <2>1 DEF p, s
<1> QED BY <1>3, <1>5, <1>6, <1>7

\* The number of the packet k behind another.
LEMMA NumberBehind ==
  ASSUME NEW n \in Nat \ {0}, NEW k \in Nat, k < Reception!Numbers
  PROVE  LET here == Reception!SeqNo(n)
             there == Reception!SeqNo(n + k)
         IN  /\ here \in Nat /\ here < Reception!Numbers
             /\ there = IF here + k < Reception!Numbers THEN here + k ELSE (here + k) - Reception!Numbers
<1> DEFINE N == Reception!Numbers
           x == InitialSeq + n - 1
           q == x \div N
           r == x % N
<1>1. N \in Nat \ {0} /\ x \in Nat
  BY ReceptionAssumption DEF Reception!Numbers
<1>2. q \in Nat /\ r \in Nat /\ r < N /\ x = (q * N) + r
  <2> HIDE DEF N, x
  <2> QED BY <1>1, Divided
<1>3. Reception!SeqNo(n) = r /\ Reception!SeqNo(n + k) = (x + k) % N
  <2>1. InitialSeq + (n + k) - 1 = x + k
    BY ReceptionAssumption
  <2> QED BY <2>1 DEF Reception!SeqNo
<1> HIDE DEF N, x, q, r
<1> DEFINE Sum == (x + k) % N = IF r + k < N THEN r + k ELSE (r + k) - N
<1>4. ASSUME r + k < N PROVE Sum
  <2>1. x + k = (q * N) + (r + k) /\ r + k \in Nat
    <3>1. q * N \in Nat
      BY <1>1, <1>2
    <3> QED BY <1>2, <3>1
  <2>2. (x + k) % N = r + k
    <3> DEFINE y == x + k
               t == r + k
    <3>1. t \in Nat /\ t < N /\ y = (q * N) + t
      BY <1>4, <2>1
    <3> HIDE DEF y, t
    <3>2. y % N = t
      BY <1>1, <1>2, <3>1, RemainderOfSum
    <3> QED BY <3>2 DEF y, t
  <2> QED BY <1>4, <2>2
<1>5. ASSUME ~(r + k < N) PROVE Sum
  <2>1. x + k = ((q + 1) * N) + ((r + k) - N) /\ (r + k) - N \in Nat /\ (r + k) - N < N /\ q + 1 \in Nat
    <3>1. q * N \in Nat /\ (q + 1) * N = (q * N) + N
      BY <1>1, <1>2
    <3>2. k < N
      BY DEF N
    <3> QED BY <1>1, <1>2, <1>5, <3>1, <3>2
  <2>2. (x + k) % N = (r + k) - N
    <3> DEFINE y == x + k
               t == (r + k) - N
               p == q + 1
    <3>1. p \in Nat /\ t \in Nat /\ t < N /\ y = (p * N) + t
      BY <2>1
    <3> HIDE DEF y, t, p
    <3>2. y % N = t
      BY <1>1, <3>1, RemainderOfSum
    <3> QED BY <3>2 DEF y, t
  <2> QED BY <1>5, <2>2
<1>6. (x + k) % N = IF r + k < N THEN r + k ELSE (r + k) - N
  BY <1>4, <1>5
<1> QED BY <1>2, <1>3, <1>6 DEF N

\* As long as two packets are within half of the numbers, seqNumLT tells which one came first.
LEMMA NumbersInOrder ==
  ASSUME NEW n \in Nat \ {0}, NEW m \in Nat \ {0}, m - n < Half, n - m < Half
  PROVE  /\ Reception!seqNumLT(Reception!SeqNo(n), Reception!SeqNo(m)) <=> n < m
         /\ Reception!SeqNo(n) = Reception!SeqNo(m) <=> n = m
<1> DEFINE N == Reception!Numbers
           a == Reception!SeqNo(n)
           b == Reception!SeqNo(m)
<1>1. Half \in Nat \ {0} /\ N = 2 * Half
  BY ReceptionAssumption DEF Reception!Numbers
<1>2. CASE n <= m
  <2> DEFINE k == m - n
  <2>1. k \in Nat /\ n + k = m /\ k < Half /\ k < N
    BY <1>1, <1>2
  <2>2. a \in Nat /\ a < N /\ b = IF a + k < N THEN a + k ELSE (a + k) - N
    <3> HIDE DEF k
    <3> QED BY <2>1, NumberBehind
  <2> HIDE DEF a, b, k, N
  <2>3. Reception!seqNumLT(a, b) <=> k > 0
    BY <1>1, <2>1, <2>2 DEF Reception!seqNumLT
  <2>4. a = b <=> k = 0
    BY <1>1, <2>1, <2>2
  <2>5. (k > 0 <=> n < m) /\ (k = 0 <=> n = m)
    BY <2>1
  <2> QED BY <2>3, <2>4, <2>5 DEF a, b
<1>3. CASE ~(n <= m)
  <2> DEFINE k == n - m
  <2>1. k \in Nat \ {0} /\ m + k = n /\ k < Half /\ k < N
    BY <1>1, <1>3
  <2>2. b \in Nat /\ b < N /\ a = IF b + k < N THEN b + k ELSE (b + k) - N
    <3> HIDE DEF k
    <3> QED BY <2>1, NumberBehind
  <2> HIDE DEF a, b, k, N
  <2>3. ~Reception!seqNumLT(a, b)
    BY <1>1, <2>1, <2>2 DEF Reception!seqNumLT
  <2>4. a # b
    BY <1>1, <2>1, <2>2
  <2>5. ~(n < m) /\ n # m
    BY <1>3
  <2> QED BY <2>3, <2>4, <2>5 DEF a, b
<1> QED BY <1>2, <1>3

LEMMA NumberIs ==
  ASSUME NEW n \in Nat \ {0}
  PROVE  /\ Reception!SeqNo(n) \in Nat /\ Reception!SeqNo(n) < Reception!Numbers
         /\ Reception!Numbers \in Nat \ {0}
         /\ (Reception!SeqNo(n) + 1) % Reception!Numbers = Reception!SeqNo(n + 1)
<1> DEFINE N == Reception!Numbers
           a == Reception!SeqNo(n)
<1>1. N \in Nat /\ 1 < N
  BY ReceptionAssumption DEF Reception!Numbers
<1>2. a \in Nat /\ a < N /\ Reception!SeqNo(n + 1) = IF a + 1 < N THEN a + 1 ELSE (a + 1) - N
  <2> HIDE DEF N
  <2> QED BY <1>1, NumberBehind DEF N
<1> HIDE DEF N, a
<1>3. ASSUME a + 1 < N PROVE (a + 1) % N = Reception!SeqNo(n + 1)
  <2>1. a + 1 = (0 * N) + (a + 1)
    BY <1>1, <1>2
  <2>2. (a + 1) % N = a + 1
    <3> DEFINE y == a + 1
    <3>1. y \in Nat /\ y < N /\ y = (0 * N) + y /\ N \in Nat \ {0}
      BY <1>1, <1>2, <1>3, <2>1
    <3> HIDE DEF y
    <3>2. y % N = y
      BY <3>1, RemainderOfSum
    <3> QED BY <3>2 DEF y
  <2> QED BY <1>2, <1>3, <2>2
<1>4. ASSUME ~(a + 1 < N) PROVE (a + 1) % N = Reception!SeqNo(n + 1)
  <2>1. a + 1 = (1 * N) + 0 /\ (a + 1) - N = 0
    BY <1>1, <1>2, <1>4
  <2>2. (a + 1) % N = 0
    BY <1>1, <2>1, RemainderOfSum
  <2> QED BY <1>2, <1>4, <2>1, <2>2
<1>5. (a + 1) % N = Reception!SeqNo(n + 1)
  BY <1>3, <1>4
<1>6. N \in Nat \ {0}
  BY <1>1
<1> QED BY <1>2, <1>5, <1>6 DEF N, a

\* What the queue holds: packets with the numbers of their places in the stream.
Queued == {packet \in [seq : Nat, n : Nat \ {0}, time : Nat] : packet.seq = Reception!SeqNo(packet.n)}

\* Packets in order, all behind the packet u.
SortedAfter(q, u) ==
  /\ q \in Seq(Queued)
  /\ \A i, j \in 1 .. Len(q) : i < j => q[i].n < q[j].n
  /\ \A i \in 1 .. Len(q) : q[i].n > u

Held(q) == {q[i].n : i \in 1 .. Len(q)}

LEMMA InsertIs ==
  ASSUME queue \in Seq(Queued), NEW slot \in 1 .. Len(queue) + 1, NEW packet \in Queued,
         NEW r, r = Reception!InsertAt(queue, slot, packet)
  PROVE  /\ r \in Seq(Queued) /\ Len(r) = Len(queue) + 1
         /\ \A i \in 1 .. Len(queue) + 1 : i < slot => r[i] = queue[i]
         /\ r[slot] = packet
         /\ \A i \in 1 .. Len(queue) + 1 : i > slot => r[i] = queue[i - 1]
<1>1. /\ r \in Seq(Queued) /\ Len(r) = Len(queue) + 1
      /\ \A i \in 1 .. Len(queue) + 1 : r[i] = IF i < slot THEN queue[i] ELSE IF i = slot THEN packet ELSE queue[i - 1]
  <2>1. r = With(queue, slot, packet)
    BY Zenon DEF Reception!InsertAt, With
  <2> QED BY <2>1, PutIn
<1>2. slot \in Nat /\ Len(queue) \in Nat
  OBVIOUS
<1> QED BY <1>1, <1>2

\* storePacket: a packet that is not behind the expected one is in the queue then, at its place.
LEMMA StoredIs ==
  ASSUME NEW u \in Nat, SortedAfter(queue, u), NEW packet \in Queued,
         NEW expected, expected = Reception!SeqNo(u + 1),
         packet.n - (u + 1) < Half, (u + 1) - packet.n < Half,
         packet.n > u => \A i \in 1 .. Len(queue) : packet.n - queue[i].n < Half /\ queue[i].n - packet.n < Half,
         NEW q, q = Reception!Stored(packet, expected)
  PROVE  /\ SortedAfter(q, u)
         /\ \A n : n \in Held(q) <=> n \in Held(queue) \/ (packet.n > u /\ n = packet.n)
<1> DEFINE new == packet.n
           l == Len(queue)
<1>1. new \in Nat \ {0} /\ packet.seq = Reception!SeqNo(new) /\ u + 1 \in Nat \ {0}
  BY DEF Queued
<1>2. queue \in Seq(Queued) /\ l \in Nat /\ DOMAIN queue = 1 .. l
  BY DEF SortedAfter
<1>3. \A i \in 1 .. l : queue[i].n \in Nat \ {0} /\ queue[i].seq = Reception!SeqNo(queue[i].n) /\ queue[i].n > u
  BY <1>2 DEF SortedAfter, Queued
<1>4. Reception!seqNumLT(packet.seq, expected) <=> new < u + 1
  <2> HIDE DEF new
  <2> QED BY <1>1, NumbersInOrder DEF new
<1>5. CASE ~(new > u)
  <2>1. new < u + 1
    BY <1>1, <1>5
  <2>2. q = queue
    BY <1>4, <2>1 DEF Reception!Stored
  <2> QED BY <1>5, <2>2
<1>6. CASE new > u
  <2>1. ~Reception!seqNumLT(packet.seq, expected)
    BY <1>1, <1>4, <1>6
  <2>2. \A i \in 1 .. l : /\ queue[i].seq = packet.seq <=> queue[i].n = new
                          /\ Reception!seqNumLT(packet.seq, queue[i].seq) <=> new < queue[i].n
    <3> SUFFICES ASSUME NEW i \in 1 .. l
                 PROVE  /\ queue[i].seq = packet.seq <=> queue[i].n = new
                        /\ Reception!seqNumLT(packet.seq, queue[i].seq) <=> new < queue[i].n
      OBVIOUS
    <3> DEFINE it == queue[i].n
    <3>1. it \in Nat \ {0} /\ new - it < Half /\ it - new < Half /\ queue[i].seq = Reception!SeqNo(it)
      BY <1>3, <1>6
    <3> HIDE DEF new, it
    <3>2. /\ Reception!seqNumLT(Reception!SeqNo(new), Reception!SeqNo(it)) <=> new < it
          /\ Reception!SeqNo(new) = Reception!SeqNo(it) <=> new = it
      BY <1>1, <3>1, NumbersInOrder
    <3> QED BY <1>1, <3>1, <3>2 DEF it
  <2>3. CASE \E i \in 1 .. l : queue[i].n = new
    <3>1. q = queue
      BY <1>2, <2>2, <2>3 DEF Reception!Stored
    <3>2. new \in Held(queue)
      BY <2>3 DEF Held
    <3> QED BY <1>6, <3>1, <3>2
  <2>4. CASE \A i \in 1 .. l : queue[i].n # new
    <3> DEFINE later == {i \in DOMAIN queue : Reception!seqNumLT(packet.seq, queue[i].seq)}
               slot == IF later = {} THEN l + 1 ELSE Reception!Min(later)
    <3>1. q = Reception!InsertAt(queue, slot, packet)
      BY <1>2, <2>1, <2>2, <2>4 DEF Reception!Stored
    <3>2. later = {i \in 1 .. l : new < queue[i].n}
      BY <1>2, <2>2
    <3> HIDE DEF later
    <3>3. /\ slot \in 1 .. l + 1
          /\ \A i \in 1 .. l : i < slot => queue[i].n < new
          /\ \A i \in 1 .. l : i >= slot => queue[i].n > new
      <4>1. CASE later = {}
        <5>1. slot = l + 1 /\ \A i \in 1 .. l : ~(new < queue[i].n)
          BY <3>2, <4>1
        <5> HIDE DEF slot, new, l
        <5>2. \A i \in 1 .. l : queue[i].n < new /\ ~(i >= slot)
          BY <1>1, <1>2, <1>3, <2>4, <5>1
        <5> QED BY <1>2, <5>1, <5>2
      <4>2. CASE later # {}
        <5>1. later \subseteq 1 .. l /\ later \subseteq Nat
          BY <3>2
        <5>2. \E i \in later : \A j \in later : i <= j
          BY <4>2, <5>1, LeastOf
        <5>3. slot \in later /\ \A j \in later : slot <= j
          BY <4>2, <5>2 DEF Reception!Min
        <5> HIDE DEF slot, new, l
        <5>4. slot \in 1 .. l /\ new < queue[slot].n
          BY <3>2, <5>3
        <5>5. ASSUME NEW i \in 1 .. l, i < slot PROVE queue[i].n < new
          <6>1. ~(slot <= i) /\ queue[i].n \in Nat /\ queue[i].n # new
            BY <1>3, <2>4, <5>4, <5>5
          <6>2. ~(new < queue[i].n)
            BY <3>2, <5>3, <6>1
          <6> QED BY <1>1, <6>1, <6>2
        <5>6. ASSUME NEW i \in 1 .. l, i >= slot PROVE queue[i].n > new
          <6>1. queue[slot].n <= queue[i].n
            <7>1. CASE i = slot
              BY <1>3, <7>1
            <7>2. CASE i # slot
              <8>1. slot < i
                BY <5>4, <5>6, <7>2
              <8>2. queue[slot].n < queue[i].n
                BY <5>4, <8>1 DEF SortedAfter, l
              <8> QED BY <1>3, <5>4, <8>2
            <7> QED BY <7>1, <7>2
          <6> QED BY <1>1, <1>3, <5>4, <6>1
        <5>7. slot \in 1 .. l + 1
          BY <1>2, <5>4
        <5> QED BY <5>5, <5>6, <5>7
      <4> QED BY <4>1, <4>2
    <3> HIDE DEF slot
    <3>4. /\ q \in Seq(Queued) /\ Len(q) = l + 1
          /\ \A i \in 1 .. l + 1 : i < slot => q[i] = queue[i]
          /\ q[slot] = packet
          /\ \A i \in 1 .. l + 1 : i > slot => q[i] = queue[i - 1]
      <4>1. slot \in 1 .. Len(queue) + 1 /\ queue \in Seq(Queued) /\ packet \in Queued
        BY <1>2, <3>3
      <4>2. \A r : r = Reception!InsertAt(queue, slot, packet) =>
               /\ r \in Seq(Queued) /\ Len(r) = Len(queue) + 1
               /\ \A i \in 1 .. Len(queue) + 1 : i < slot => r[i] = queue[i]
               /\ r[slot] = packet
               /\ \A i \in 1 .. Len(queue) + 1 : i > slot => r[i] = queue[i - 1]
        <5> HIDE DEF slot, new, l
        <5> QED BY <4>1, InsertIs, Zenon
      <4> QED BY <3>1, <4>2, Zenon
    <3> HIDE DEF new, l
    <3>5. /\ \A i \in 1 .. l + 1 : i < slot => i \in 1 .. l /\ q[i].n = queue[i].n /\ q[i].n < new
          /\ q[slot].n = new
          /\ \A i \in 1 .. l + 1 : i > slot => i - 1 \in 1 .. l /\ q[i].n = queue[i - 1].n /\ q[i].n > new
      <4>1. ASSUME NEW i \in 1 .. l + 1, i < slot PROVE i \in 1 .. l /\ q[i].n = queue[i].n /\ q[i].n < new
        <5>1. i \in 1 .. l
          BY <1>2, <3>3, <4>1
        <5> QED BY <3>3, <3>4, <4>1, <5>1
      <4>2. q[slot].n = new
        BY <3>3, <3>4 DEF new
      <4>3. ASSUME NEW i \in 1 .. l + 1, i > slot PROVE i - 1 \in 1 .. l /\ q[i].n = queue[i - 1].n /\ q[i].n > new
        <5>1. i - 1 \in 1 .. l /\ i - 1 >= slot /\ ~(i < slot) /\ i # slot
          BY <1>2, <3>3, <4>3
        <5> QED BY <3>3, <3>4, <5>1
      <4> QED BY <4>1, <4>2, <4>3
    <3>6. ASSUME NEW i \in 1 .. l + 1, NEW j \in 1 .. l + 1, i < j PROVE q[i].n < q[j].n
      <4>1. \A a, b \in 1 .. l : a < b => queue[a].n < queue[b].n
        BY DEF SortedAfter, l
      <4>2. CASE j < slot
        <5>1. i < slot
          BY <1>2, <3>3, <3>6, <4>2
        <5> QED BY <3>5, <3>6, <4>1, <4>2, <5>1
      <4>3. CASE j = slot
        BY <3>5, <3>6, <4>3
      <4>4. CASE j > slot
        <5>1. CASE i < slot
          <6>1. q[i].n < new /\ new < q[j].n /\ q[i].n \in Nat /\ q[j].n \in Nat
            BY <1>3, <3>5, <4>4, <5>1
          <6> QED BY <1>1, <6>1
        <5>2. CASE i = slot
          <6>1. new < q[j].n /\ q[i].n = new
            BY <1>1, <1>3, <3>5, <4>4, <5>2
          <6> QED BY <6>1
        <5>3. CASE i > slot
          <6>1. i - 1 < j - 1
            BY <3>6
          <6> QED BY <3>5, <4>1, <4>4, <5>3, <6>1
        <5> QED BY <1>2, <3>3, <5>1, <5>2, <5>3
      <4> QED BY <1>2, <3>3, <4>2, <4>3, <4>4
    <3>7. ASSUME NEW i \in 1 .. l + 1 PROVE q[i].n > u
      <4>1. CASE i < slot
        BY <1>3, <3>5, <4>1
      <4>2. CASE i = slot
        BY <1>6, <3>5, <4>2
      <4>3. CASE i > slot
        BY <1>3, <3>5, <4>3
      <4> QED BY <1>2, <3>3, <4>1, <4>2, <4>3
    <3>8. SortedAfter(q, u)
      <4>1. 1 .. Len(q) = 1 .. l + 1
        BY <3>4
      <4> QED BY <3>4, <3>6, <3>7, <4>1 DEF SortedAfter
    <3>9. ASSUME NEW n PROVE n \in Held(q) <=> n \in Held(queue) \/ n = new
      <4>1. n \in Held(q) <=> \E i \in 1 .. l + 1 : n = q[i].n
        BY <3>4 DEF Held
      <4>2. n \in Held(queue) <=> \E i \in 1 .. l : n = queue[i].n
        BY DEF Held, l
      <4>3. ASSUME NEW i \in 1 .. l + 1, n = q[i].n PROVE n = new \/ \E j \in 1 .. l : n = queue[j].n
        <5>1. CASE i < slot
          BY <3>5, <4>3, <5>1
        <5>2. CASE i = slot
          BY <3>5, <4>3, <5>2
        <5>3. CASE i > slot
          BY <3>5, <4>3, <5>3
        <5> QED BY <1>2, <3>3, <5>1, <5>2, <5>3
      <4>4. ASSUME NEW j \in 1 .. l, n = queue[j].n PROVE \E i \in 1 .. l + 1 : n = q[i].n
        <5>1. CASE j < slot
          <6>1. j \in 1 .. l + 1
            BY <1>2
          <6> QED BY <3>5, <4>4, <5>1, <6>1
        <5>2. CASE ~(j < slot)
          <6>1. j + 1 \in 1 .. l + 1 /\ j + 1 > slot /\ (j + 1) - 1 = j
            BY <1>2, <3>3, <5>2
          <6>2. q[j + 1].n = queue[j].n
            BY <3>5, <6>1
          <6> QED BY <4>4, <6>1, <6>2
        <5> QED BY <5>1, <5>2
      <4>5. n = new => \E i \in 1 .. l + 1 : n = q[i].n
        BY <3>3, <3>5
      <4> QED BY <4>1, <4>2, <4>3, <4>4, <4>5
    <3> QED BY <1>6, <3>8, <3>9 DEF new
  <2> QED BY <2>3, <2>4
<1> QED BY <1>5, <1>6

\* What the sink has got: packets in order, none behind the packet u.
Given(o) == {o[i] : i \in 1 .. Len(o)}

SortedUpTo(o, u) ==
  /\ o \in Seq(Nat)
  /\ \A i, j \in 1 .. Len(o) : i < j => o[i] < o[j]
  /\ \A i \in 1 .. Len(o) : o[i] <= u

LEMMA TailIs ==
  ASSUME NEW q, NEW u, SortedAfter(q, u), q # <<>>
  PROVE  LET v == Head(q).n
         IN  /\ v \in Nat \ {0} /\ v > u /\ v \in Held(q) /\ Head(q) = q[1] /\ q[1].seq = Reception!SeqNo(v)
             /\ SortedAfter(Tail(q), v)
             /\ \A n : n \in Held(q) <=> n = v \/ n \in Held(Tail(q))
<1> DEFINE v == Head(q).n
           t == Tail(q)
           l == Len(q)
<1>1. q \in Seq(Queued) /\ l \in Nat /\ l # 0
  BY EmptySeq DEF SortedAfter
<1>2. Head(q) = q[1] /\ 1 \in 1 .. l
  BY <1>1
<1>3. v \in Nat \ {0} /\ v > u /\ q[1].seq = Reception!SeqNo(v)
  <2>1. q[1] \in Queued /\ q[1].n > u
    BY <1>1, <1>2 DEF SortedAfter
  <2> QED BY <1>2, <2>1 DEF Queued
<1>4. t \in Seq(Queued) /\ Len(t) = l - 1 /\ \A i \in 1 .. l - 1 : t[i] = q[i + 1]
  <2>1. t \in Seq(Queued) /\ Len(t) = l - 1 /\ \A i \in 1 .. Len(t) : t[i] = q[i + 1]
    BY <1>1, HeadTailProperties
  <2> QED BY <2>1
<1>5. \A i, j \in 1 .. l : i < j => q[i].n < q[j].n
  BY DEF SortedAfter
<1>6. v = q[1].n
  BY <1>2
<1> HIDE DEF v, t, l
<1>7. SortedAfter(t, v)
  <2>1. ASSUME NEW i \in 1 .. l - 1, NEW j \in 1 .. l - 1, i < j PROVE t[i].n < t[j].n
    <3>1. i + 1 \in 1 .. l /\ j + 1 \in 1 .. l /\ i + 1 < j + 1
      BY <1>1, <2>1
    <3> QED BY <1>4, <1>5, <3>1
  <2>2. ASSUME NEW i \in 1 .. l - 1 PROVE t[i].n > v
    <3>1. i + 1 \in 1 .. l /\ 1 < i + 1 /\ 1 \in 1 .. l
      BY <1>1
    <3>2. q[1].n < q[i + 1].n
      BY <1>5, <3>1
    <3> QED BY <1>4, <1>6, <3>2
  <2> QED BY <1>4, <2>1, <2>2 DEF SortedAfter
<1>8. ASSUME NEW n PROVE n \in Held(q) <=> n = v \/ n \in Held(t)
  <2>1. (n \in Held(q) <=> \E i \in 1 .. l : n = q[i].n) /\ (n \in Held(t) <=> \E i \in 1 .. l - 1 : n = t[i].n)
    BY <1>4 DEF Held, l
  <2>2. ASSUME NEW i \in 1 .. l, n = q[i].n PROVE n = v \/ \E j \in 1 .. l - 1 : n = t[j].n
    <3>1. CASE i = 1
      BY <1>6, <2>2, <3>1
    <3>2. CASE i # 1
      <4>1. i - 1 \in 1 .. l - 1 /\ (i - 1) + 1 = i
        BY <1>1, <3>2
      <4>2. t[i - 1].n = n
        BY <1>4, <2>2, <4>1
      <4> QED BY <4>1, <4>2
    <3> QED BY <3>1, <3>2
  <2>3. ASSUME NEW j \in 1 .. l - 1, n = t[j].n PROVE \E i \in 1 .. l : n = q[i].n
    <3>1. j + 1 \in 1 .. l
      BY <1>1
    <3>2. n = q[j + 1].n
      BY <1>4, <2>3
    <3> QED BY <3>1, <3>2
  <2> QED BY <1>2, <1>6, <2>1, <2>2, <2>3
<1>9. v \in Held(q)
  BY <1>8
<1> QED BY <1>2, <1>3, <1>7, <1>8, <1>9 DEF v, t

LEMMA AppendIs ==
  ASSUME NEW o, NEW u \in Nat, SortedUpTo(o, u), NEW v \in Nat, v > u
  PROVE  LET p == Append(o, v)
         IN  /\ SortedUpTo(p, v) /\ p # <<>> /\ Reception!Last(p) = v
             /\ \A n : n \in Given(p) <=> n = v \/ n \in Given(o)
<1> DEFINE p == Append(o, v)
           l == Len(o)
<1>1. o \in Seq(Nat) /\ l \in Nat
  BY DEF SortedUpTo
<1>2. p \in Seq(Nat) /\ p # <<>> /\ Len(p) = l + 1 /\ (\A i \in 1 .. l : p[i] = o[i]) /\ p[l + 1] = v
  BY <1>1, AppendProperties
<1>3. \A i \in 1 .. l : o[i] \in Nat /\ o[i] <= u
  BY <1>1 DEF SortedUpTo
<1>4. \A i, j \in 1 .. l : i < j => o[i] < o[j]
  BY DEF SortedUpTo
<1> HIDE DEF p, l
<1>5. SortedUpTo(p, v)
  <2>1. ASSUME NEW i \in 1 .. l + 1 PROVE p[i] <= v
    <3>1. CASE i = l + 1
      BY <1>2, <3>1
    <3>2. CASE i # l + 1
      <4>1. i \in 1 .. l
        BY <1>1, <3>2
      <4>2. p[i] \in Nat /\ p[i] <= u
        BY <1>2, <1>3, <4>1
      <4> QED BY <4>2
    <3> QED BY <3>1, <3>2
  <2>2. ASSUME NEW i \in 1 .. l + 1, NEW j \in 1 .. l + 1, i < j PROVE p[i] < p[j]
    <3>1. i \in 1 .. l
      BY <1>1, <2>2
    <3>2. p[i] = o[i] /\ o[i] \in Nat /\ o[i] <= u
      BY <1>2, <1>3, <3>1
    <3>3. CASE j = l + 1
      BY <1>2, <3>2, <3>3
    <3>4. CASE j # l + 1
      <4>1. j \in 1 .. l
        BY <1>1, <3>4
      <4> QED BY <1>2, <1>4, <2>2, <3>1, <4>1
    <3> QED BY <3>3, <3>4
  <2> QED BY <1>2, <2>1, <2>2 DEF SortedUpTo
<1>6. ASSUME NEW n PROVE n \in Given(p) <=> n = v \/ n \in Given(o)
  <2>1. (n \in Given(p) <=> \E i \in 1 .. l + 1 : n = p[i]) /\ (n \in Given(o) <=> \E i \in 1 .. l : n = o[i])
    BY <1>2 DEF Given, l
  <2>2. ASSUME NEW i \in 1 .. l + 1, n = p[i] PROVE n = v \/ \E j \in 1 .. l : n = o[j]
    <3>1. i = l + 1 \/ i \in 1 .. l
      BY <1>1
    <3> QED BY <1>2, <2>2, <3>1
  <2>3. ASSUME NEW i \in 1 .. l, n = o[i] PROVE \E j \in 1 .. l + 1 : n = p[j]
    <3>1. i \in 1 .. l + 1
      BY <1>1
    <3> QED BY <1>2, <2>3, <3>1
  <2>4. l + 1 \in 1 .. l + 1
    BY <1>1
  <2> QED BY <1>2, <2>1, <2>2, <2>3, <2>4
<1>7. Reception!Last(p) = v
  BY <1>2 DEF Reception!Last
<1> QED BY <1>2, <1>5, <1>6, <1>7 DEF p

\* doGetNextFrame1, with the packet behind u expected: it gives the first of the queue or nothing.
LEMMA DeliverIs ==
  ASSUME NEW u \in Nat, SortedUpTo(out, u), NEW q, SortedAfter(q, u),
         NEW expected, NEW need, Reception!Deliver(q, expected, need)
  PROVE  \/ /\ out' = out /\ queue' = q /\ fNextExpectedSeqNo' = expected
            /\ ~(need /\ q # <<>> /\ Head(q).seq = expected)
         \/ \E v \in Nat \ {0} :
              /\ v > u /\ v \in Held(q)
              /\ SortedUpTo(out', v) /\ out' # <<>> /\ Reception!Last(out') = v
              /\ SortedAfter(queue', v)
              /\ fNextExpectedSeqNo' = Reception!SeqNo(v + 1)
              /\ \A n : n \in Given(out') \/ n \in Held(queue') <=> n \in Given(out) \/ n \in Held(q)
<1>1. CASE need /\ q # <<>> /\ Reception!IsCompleted(Head(q), expected)
  <2> DEFINE v == Head(q).n
  <2>1. /\ out' = Append(out, v) /\ queue' = Tail(q)
        /\ fNextExpectedSeqNo' = (Head(q).seq + 1) % Reception!Numbers
    BY <1>1 DEF Reception!Deliver
  <2>2. /\ v \in Nat \ {0} /\ v > u /\ v \in Held(q) /\ Head(q).seq = Reception!SeqNo(v)
        /\ SortedAfter(Tail(q), v)
        /\ \A n : n \in Held(q) <=> n = v \/ n \in Held(Tail(q))
    BY <1>1, TailIs
  <2> HIDE DEF v
  <2>3. /\ SortedUpTo(out', v) /\ out' # <<>> /\ Reception!Last(out') = v
        /\ \A n : n \in Given(out') <=> n = v \/ n \in Given(out)
    BY <2>1, <2>2, AppendIs
  <2>4. fNextExpectedSeqNo' = Reception!SeqNo(v + 1)
    BY <2>1, <2>2, NumberIs
  <2> QED BY <2>1, <2>2, <2>3, <2>4
<1>2. CASE ~(need /\ q # <<>> /\ Reception!IsCompleted(Head(q), expected))
  BY <1>2 DEF Reception!Deliver, Reception!IsCompleted
<1> QED BY <1>1, <1>2

Twice == {n \in Reception!Came : copies[n] > 1}

ReceptionType ==
  /\ rtpSent \in Nat /\ rtpSent <= MaxSent /\ net \subseteq 1 .. rtpSent /\ rtpClock \in Nat
  /\ copies \in [1 .. MaxSent -> Nat] /\ Reception!Came \subseteq 1 .. rtpSent
  /\ fHaveSeenFirstPacket \in BOOLEAN

\* What may still come and what has been used is within half of the numbers.
WithinHalf ==
  /\ Reception!Used \in 0 .. rtpSent /\ rtpSent - Reception!Used < Half
  /\ \A n \in net : (rtpSent + 1) - n < Half

\* The sink has what is up to a packet and the queue what is behind it.
Reordered ==
  /\ SortedUpTo(out, Reception!Used) /\ SortedAfter(queue, Reception!Used)
  /\ \A n \in Held(queue) : n \in Reception!Came
  /\ \A n \in inTime : n \in Given(out) \/ n \in Held(queue)

Started ==
  IF fHaveSeenFirstPacket
  THEN /\ out # <<>> /\ begin \in Reception!Came /\ Reception!Used \in Reception!Came
       /\ fNextExpectedSeqNo = Reception!SeqNo(Reception!Used + 1)
  ELSE /\ out = <<>> /\ queue = <<>> /\ fNeedDelivery = TRUE
       /\ begin = 1 /\ Reception!Came = {} /\ stats = Reception!NoStats

Statistics == [base : Int, highest : Nat, total : Int, since : Int, lastReset : Int]

Counted ==
  /\ stats \in Statistics
  /\ stats.total = Cardinality(Reception!Came) + Cardinality(Twice)
  /\ fHaveSeenFirstPacket =>
       /\ stats.highest - stats.base = Reception!Newest - begin + 1
       /\ stats.highest % Reception!Numbers = Reception!SeqNo(Reception!Newest)
  /\ report.totNumLost = report.missing - report.before - report.twice

ReceptionInv == ReceptionType /\ WithinHalf /\ Reordered /\ Started /\ Counted

LEMMA GreatestOf ==
  ASSUME NEW k \in Nat, NEW S, S \subseteq 1 .. k, S # {}
  PROVE  Reception!Max(S) \in S /\ \A y \in S : y <= Reception!Max(S)
<1> DEFINE T == {x \in 0 .. k : k - x \in S}
<1>1. T \subseteq Nat /\ T # {}
  <2>1. PICK y \in S : TRUE
    OBVIOUS
  <2>2. k - y \in 0 .. k /\ k - (k - y) = y
    BY <2>1
  <2>3. k - y \in T
    BY <2>2
  <2>4. T \subseteq 0 .. k /\ 0 .. k \subseteq Nat
    OBVIOUS
  <2> HIDE DEF T
  <2> QED BY <2>3, <2>4
<1>2. PICK x \in T : \A z \in T : x <= z
  <2> HIDE DEF T
  <2> QED BY <1>1, LeastOf
<1>3. k - x \in S
  BY <1>2
<1>4. \A y \in S : y <= k - x
  <2> SUFFICES ASSUME NEW y \in S PROVE y <= k - x
    OBVIOUS
  <2>1. k - y \in 0 .. k /\ k - (k - y) = y
    OBVIOUS
  <2>2. x <= k - y
    BY <1>2, <2>1
  <2> QED BY <1>2, <2>2
<1>5. \E g \in S : \A y \in S : g >= y
  <2>1. \A y \in S : k - x >= y
    BY <1>2, <1>4
  <2> QED BY <1>3, <2>1
<1>6. Reception!Max(S) \in S /\ \A y \in S : Reception!Max(S) >= y
  BY <1>5 DEF Reception!Max
<1>7. \A y \in S : y \in Int
  OBVIOUS
<1> QED BY <1>6, <1>7

\* noteIncomingPacket: the count of numbers goes on where they wrap around.
LEMMA HighestIs ==
  ASSUME NEW n \in Nat \ {0}, NEW m \in Nat \ {0}, n - m < Half, m - n < Half,
         NEW h \in Nat, h % Reception!Numbers = Reception!SeqNo(m),
         NEW new, new = Reception!Highest(h, Reception!SeqNo(n))
  PROVE  /\ n > m => new = h + (n - m) /\ new \in Nat /\ new % Reception!Numbers = Reception!SeqNo(n)
         /\ ~(n > m) => new = h
<1> DEFINE N == Reception!Numbers
           old == Reception!SeqNo(m)
           seq == Reception!SeqNo(n)
           p == h \div N
           k == n - m
           next0 == (p + (IF seq < old THEN 1 ELSE 0)) * N + seq
<1>1. N \in Nat \ {0} /\ old \in Nat /\ old < N /\ seq \in Nat /\ Half \in Nat /\ N = 2 * Half
  BY NumberIs, ReceptionAssumption DEF Reception!Numbers
<1>2. Reception!seqNumLT(old, seq) <=> m < n
  BY NumbersInOrder
<1>3. new = IF Reception!seqNumLT(old, seq) /\ next0 > h THEN next0 ELSE h
  BY DEF Reception!Highest
<1>4. p \in Nat /\ h = (p * N) + old /\ p * N \in Nat
  <2>1. p \in Nat /\ h = (p * N) + (h % N)
    <3> HIDE DEF N
    <3> QED BY <1>1, Divided
  <2>2. p * N \in Nat
    <3> HIDE DEF N, p
    <3> QED BY <1>1, <2>1
  <2> QED BY <2>1, <2>2
<1> HIDE DEF N, p, old, seq, next0
<1>5. CASE n > m
  <2>1. k \in Nat /\ m + k = n /\ k < N /\ k # 0
    BY <1>1, <1>5
  <2>2. seq = IF old + k < N THEN old + k ELSE (old + k) - N
    <3> HIDE DEF k
    <3> QED BY <2>1, NumberBehind DEF N, old, seq
  <2> HIDE DEF k
  <2>3. next0 = h + k /\ (h + k) % N = seq
    <3>1. CASE old + k < N
      <4>1. seq = old + k /\ ~(seq < old)
        BY <1>1, <2>1, <2>2, <3>1
      <4>2. next0 = (p * N) + seq
        BY <1>4, <4>1 DEF next0
      <4>3. h + k = (p * N) + seq
        BY <1>1, <1>4, <2>1, <4>1
      <4>4. seq < N
        BY <3>1, <4>1
      <4> DEFINE sum == h + k
      <4>5. sum = (p * N) + seq
        BY <4>3
      <4> HIDE DEF sum
      <4>6. sum % N = seq
        BY <1>1, <1>4, <4>4, <4>5, RemainderOfSum
      <4> QED BY <4>2, <4>3, <4>6 DEF sum
    <3>2. CASE ~(old + k < N)
      <4>1. seq = (old + k) - N /\ seq < old
        BY <1>1, <2>1, <2>2, <3>2
      <4> DEFINE q == p + 1
      <4>2. next0 = (q * N) + seq
        BY <4>1 DEF next0
      <4>3. q \in Nat /\ q * N = (p * N) + N
        BY <1>1, <1>4
      <4> DEFINE sum == h + k
      <4>4. sum = (q * N) + seq
        BY <1>1, <1>4, <2>1, <4>1, <4>3
      <4>5. seq < N
        BY <1>1, <4>1
      <4> HIDE DEF sum, q
      <4>6. sum % N = seq
        <5>1. q \in Nat
          BY <4>3
        <5> QED BY <1>1, <4>4, <4>5, <5>1, RemainderOfSum
      <4> QED BY <4>2, <4>4, <4>6 DEF sum
    <3> QED BY <3>1, <3>2
  <2>4. next0 > h /\ h + k \in Nat
    BY <2>1, <2>3
  <2>5. new = h + k
    BY <1>2, <1>3, <1>5, <2>3, <2>4
  <2> QED BY <1>5, <2>3, <2>4, <2>5 DEF k, N, seq
<1>6. CASE ~(n > m)
  <2>1. ~(m < n)
    BY <1>6
  <2> QED BY <1>2, <1>3, <1>6, <2>1
<1> QED BY <1>5, <1>6

\* RTPTransmissionStats of the report: what is missing of the packets from the first on.
LEMMA MissingIs ==
  ASSUME NEW k \in Nat, NEW S, S \subseteq 1 .. k, NEW first \in S, NEW top \in S, \A n \in S : n <= top
  PROVE  LET missing == (first .. top) \ S
             before == {n \in S : n < first}
         IN  Cardinality(missing) - Cardinality(before) = (top - first + 1) - Cardinality(S)
<1> DEFINE all == first .. top
           missing == all \ S
           before == {n \in S : n < first}
           present == S \cap all
<1>1. first \in Nat /\ top \in Nat /\ first <= top /\ \A n \in S : n \in Nat
  OBVIOUS
<1>2. IsFiniteSet(1 .. k) /\ IsFiniteSet(all) /\ Cardinality(all) = top - first + 1
  BY <1>1, FS_Interval
<1>3. IsFiniteSet(S)
  BY <1>2, FS_Subset
<1>4. IsFiniteSet(present) /\ IsFiniteSet(before) /\ IsFiniteSet(missing)
  <2>1. present \in SUBSET S /\ before \in SUBSET S /\ missing \in SUBSET all
    OBVIOUS
  <2> HIDE DEF present, before, missing, all
  <2> QED BY <1>2, <1>3, <2>1, FS_Subset
<1>5. S = present \cup before /\ present \cap before = {}
  <2>1. \A n \in S : n \in all <=> ~(n < first)
    BY <1>1
  <2> HIDE DEF all
  <2> QED BY <2>1
<1>6. all = present \cup missing /\ present \cap missing = {}
  OBVIOUS
<1> DEFINE a == Cardinality(present)
           b == Cardinality(before)
           c == Cardinality(missing)
<1>7. Cardinality(S) = a + b /\ Cardinality(all) = a + c /\ a \in Nat /\ b \in Nat /\ c \in Nat
  <2> HIDE DEF present, before, missing, all
  <2>1. /\ Cardinality(present \cup before) = a + b - Cardinality(present \cap before)
        /\ Cardinality(present \cup missing) = a + c - Cardinality(present \cap missing)
    BY <1>4, FS_Union
  <2>2. Cardinality({}) = 0
    BY FS_EmptySet
  <2>3. a \in Nat /\ b \in Nat /\ c \in Nat
    BY <1>4, FS_CardinalityType
  <2> HIDE DEF a, b, c
  <2>4. Cardinality(present \cup before) = a + b /\ Cardinality(present \cup missing) = a + c
    BY <1>5, <1>6, <2>1, <2>2, <2>3
  <2> QED BY <1>5, <1>6, <2>3, <2>4
<1> HIDE DEF a, b, c, all
<1>8. c - b = (top - first + 1) - Cardinality(S)
  BY <1>1, <1>2, <1>7
<1> QED BY <1>8 DEF c, b, all

LEMMA ReceptionInitially ==
  ASSUME Reception!Init
  PROVE  ReceptionInv
<1>1. Half \in Nat \ {0} /\ MaxSent \in Nat
  BY ReceptionAssumption
<1>2. /\ rtpSent = 0 /\ net = {} /\ rtpClock = 0 /\ queue = <<>> /\ fHaveSeenFirstPacket = FALSE
      /\ fNeedDelivery = TRUE /\ out = <<>> /\ copies = [n \in 1 .. MaxSent |-> 0] /\ begin = 1 /\ inTime = {}
      /\ stats = Reception!NoStats /\ report = Reception!NoReport
  BY DEF Reception!Init
<1>3. Reception!Came = {} /\ Twice = {}
  <2>1. \A n \in 1 .. MaxSent : copies[n] = 0
    BY <1>2
  <2> QED BY <2>1 DEF Reception!Came, Twice
<1>4. Reception!Used = 0
  BY <1>2 DEF Reception!Used
<1>5. ReceptionType
  <2>1. copies \in [1 .. MaxSent -> Nat]
    BY <1>2
  <2>2. rtpSent \in Nat /\ rtpSent <= MaxSent /\ rtpClock \in Nat
    BY <1>1, <1>2
  <2>3. fHaveSeenFirstPacket \in BOOLEAN
    BY <1>2
  <2> QED BY <1>2, <1>3, <2>1, <2>2, <2>3 DEF ReceptionType
<1>6. WithinHalf
  BY <1>1, <1>2, <1>4 DEF WithinHalf
<1>7. Reordered
  <2>1. <<>> \in Seq(Nat) /\ <<>> \in Seq(Queued) /\ Len(<<>>) = 0
    BY EmptySeq
  <2> QED BY <1>2, <2>1 DEF Reordered, SortedUpTo, SortedAfter, Held
<1>8. Started
  BY <1>2, <1>3 DEF Started
<1>9. Counted
  <2>1. Cardinality({}) = 0
    BY FS_EmptySet
  <2>2. /\ stats \in Statistics /\ stats.total = 0
        /\ report.totNumLost = 0 /\ report.missing = 0 /\ report.before = 0 /\ report.twice = 0
    BY <1>2 DEF Statistics, Reception!NoStats, Reception!NoReport
  <2> QED BY <1>2, <1>3, <2>1, <2>2 DEF Counted
<1> QED BY <1>5, <1>6, <1>7, <1>8, <1>9 DEF ReceptionInv

\* What is counted depends on what has come only.
LEMMA CountedStays ==
  ASSUME Counted, UNCHANGED <<copies, begin, fHaveSeenFirstPacket, stats, report>>
  PROVE  Counted' /\ Reception!Came' = Reception!Came
BY DEF Counted, Reception!Came, Reception!Newest, Reception!Max, Reception!SeqNo, Reception!Numbers, Twice

LEMMA SendKeeps ==
  ASSUME ReceptionInv, Reception!Send
  PROVE  ReceptionInv'
<1>1. /\ rtpSent < MaxSent /\ rtpSent' = rtpSent + 1 /\ net' = net \cup {rtpSent'}
      /\ UNCHANGED <<rtpClock, queue, fHaveSeenFirstPacket, fNextExpectedSeqNo, fNeedDelivery, scheduled, out,
                     copies, begin, inTime, stats, report>>
  BY DEF Reception!Send, Reception!receiver, Reception!history
<1>2. \A n \in net \cup {Reception!Used} : rtpSent - n < Half - 2
  BY DEF Reception!Send
<1>3. rtpSent \in Nat /\ Half \in Nat /\ MaxSent \in Nat /\ net \subseteq 1 .. rtpSent
  BY ReceptionAssumption DEF ReceptionInv, ReceptionType
<1>4. Reception!Used' = Reception!Used /\ Reception!Used \in 0 .. rtpSent
  BY <1>1 DEF Reception!Used, Reception!Last, ReceptionInv, WithinHalf
<1>5. Counted' /\ Reception!Came' = Reception!Came
  BY <1>1, CountedStays DEF ReceptionInv
<1>6. ReceptionType'
  <2>1. net' \subseteq 1 .. rtpSent' /\ rtpSent' \in Nat /\ rtpSent' <= MaxSent
    BY <1>1, <1>3
  <2>2. Reception!Came' \subseteq 1 .. rtpSent'
    <3>1. Reception!Came \subseteq 1 .. rtpSent
      BY DEF ReceptionInv, ReceptionType
    <3> QED BY <1>1, <1>3, <1>5, <3>1
  <2> QED BY <1>1, <2>1, <2>2 DEF ReceptionInv, ReceptionType
<1>7. WithinHalf'
  <2>1. rtpSent - Reception!Used < Half - 2 /\ \A n \in net : rtpSent - n < Half - 2
    BY <1>2
  <2> DEFINE u == Reception!Used
  <2>2. u \in 0 .. rtpSent /\ rtpSent - u < Half - 2
    BY <1>4, <2>1
  <2> HIDE DEF u
  <2>3. u \in 0 .. rtpSent' /\ rtpSent' - u < Half /\ \A n \in net' : (rtpSent' + 1) - n < Half
    BY <1>1, <1>3, <2>1, <2>2
  <2> QED BY <1>4, <2>3 DEF WithinHalf, u
<1>8. Reordered' /\ Started'
  BY <1>1, <1>4, <1>5
     DEF ReceptionInv, Reordered, Started, SortedUpTo, SortedAfter, Held, Given, Queued,
         Reception!SeqNo, Reception!Numbers, Reception!NoStats
<1> QED BY <1>5, <1>6, <1>7, <1>8 DEF ReceptionInv

LEMMA QuietKeeps ==
  ASSUME ReceptionInv, rtpClock' \in Nat, net' \subseteq net,
         UNCHANGED <<rtpSent, queue, fHaveSeenFirstPacket, fNextExpectedSeqNo, fNeedDelivery, out,
                     copies, begin, inTime, stats, report>>
  PROVE  ReceptionInv'
<1>1. Reception!Used' = Reception!Used
  BY DEF Reception!Used, Reception!Last
<1>2. Counted' /\ Reception!Came' = Reception!Came
  BY CountedStays DEF ReceptionInv
<1>3. ReceptionType' /\ WithinHalf'
  BY <1>1, <1>2 DEF ReceptionInv, ReceptionType, WithinHalf
<1>4. Reordered' /\ Started'
  BY <1>1, <1>2
     DEF ReceptionInv, Reordered, Started, SortedUpTo, SortedAfter, Held, Given, Queued,
         Reception!SeqNo, Reception!Numbers, Reception!NoStats
<1> QED BY <1>2, <1>3, <1>4 DEF ReceptionInv

LEMMA ResetIs ==
  ASSUME NEW s \in Statistics, NEW h \in Int, NEW r, r = [s EXCEPT !.since = 0, !.lastReset = h]
  PROVE  r \in Statistics /\ r.total = s.total /\ r.highest = s.highest /\ r.base = s.base
<1> DEFINE one == [s EXCEPT !.since = 0]
<1>1. one \in Statistics /\ one.total = s.total /\ one.highest = s.highest /\ one.base = s.base
  BY DEF Statistics
<1>2. r = [one EXCEPT !.lastReset = h]
  OBVIOUS
<1> HIDE DEF one
<1> QED BY <1>1, <1>2 DEF Statistics

LEMMA ReportKeeps ==
  ASSUME ReceptionInv, Reception!Report
  PROVE  ReceptionInv'
<1> DEFINE S == Reception!Came
           top == Reception!Newest
           missing == (begin .. top) \ S
           before == {n \in S : n < begin}
<1>1. /\ stats.since > 0 /\ stats' = [stats EXCEPT !.since = 0, !.lastReset = stats.highest]
      /\ report'.totNumLost = stats.highest - stats.base - stats.total
      /\ report'.missing = Cardinality(missing) /\ report'.before = Cardinality(before)
      /\ report'.twice = Cardinality(Twice)
      /\ UNCHANGED <<rtpSent, net, rtpClock, queue, fHaveSeenFirstPacket, fNextExpectedSeqNo, fNeedDelivery,
                     scheduled, out, copies, begin, inTime>>
  BY DEF Reception!Report, Reception!receiver, Reception!history, Twice, Reception!Cardinality, Cardinality
<1>2. Reception!Used' = Reception!Used /\ Reception!Came' = Reception!Came /\ Twice' = Twice
      /\ Reception!Newest' = Reception!Newest
  BY <1>1 DEF Reception!Used, Reception!Last, Reception!Came, Twice, Reception!Newest, Reception!Max
<1>3. fHaveSeenFirstPacket
  BY <1>1 DEF ReceptionInv, Started, Reception!NoStats
<1>4. ReceptionType' /\ WithinHalf'
  BY <1>1, <1>2 DEF ReceptionInv, ReceptionType, WithinHalf
<1>5. Reordered' /\ Started'
  BY <1>1, <1>2, <1>3
     DEF ReceptionInv, Reordered, Started, SortedUpTo, SortedAfter, Held, Given, Queued,
         Reception!SeqNo, Reception!Numbers
<1>6. Counted'
  <2>1. rtpSent \in Nat /\ S \subseteq 1 .. rtpSent /\ begin \in S
    BY <1>3 DEF ReceptionInv, ReceptionType, Started
  <2>2. top \in S /\ \A n \in S : n <= top
    BY <2>1, GreatestOf DEF Reception!Newest
  <2>3. Cardinality(missing) - Cardinality(before) = (top - begin + 1) - Cardinality(S)
    <3> HIDE DEF S, top
    <3> QED BY <2>1, <2>2, MissingIs
  <2>4. /\ Cardinality(missing) \in Nat /\ Cardinality(before) \in Nat /\ Cardinality(S) \in Nat
        /\ Cardinality(Twice) \in Nat
    <3>1. IsFiniteSet(1 .. rtpSent) /\ IsFiniteSet(begin .. top)
      BY <2>1, <2>2, FS_Interval
    <3>2. /\ missing \in SUBSET (begin .. top) /\ before \in SUBSET (1 .. rtpSent)
          /\ S \in SUBSET (1 .. rtpSent) /\ Twice \in SUBSET (1 .. rtpSent)
      BY <2>1 DEF Twice
    <3> HIDE DEF missing, before, S, top
    <3> QED BY <3>1, <3>2, FS_Subset, FS_CardinalityType
  <2>5. /\ stats \in Statistics
        /\ stats.total = Cardinality(S) + Cardinality(Twice)
        /\ stats.highest - stats.base = top - begin + 1
        /\ stats.highest % Reception!Numbers = Reception!SeqNo(top)
    BY <1>3 DEF ReceptionInv, Counted
  <2>6. /\ stats' \in Statistics
        /\ stats'.total = stats.total /\ stats'.highest = stats.highest /\ stats'.base = stats.base
    <3>1. stats.highest \in Int
      BY <2>5 DEF Statistics
    <3>2. stats' = [stats EXCEPT !.since = 0, !.lastReset = stats.highest]
      BY <1>1
    <3>3. stats \in Statistics
      BY <2>5
    <3> DEFINE s == stats
               h == stats.highest
    <3> HIDE DEF s, h
    <3>4. s \in Statistics /\ h \in Int /\ stats' = [s EXCEPT !.since = 0, !.lastReset = h]
      BY <3>1, <3>2, <3>3 DEF s, h
    <3>5. stats' \in Statistics /\ stats'.total = s.total /\ stats'.highest = s.highest /\ stats'.base = s.base
      BY <3>4, ResetIs
    <3> QED BY <3>5 DEF s
  <2> DEFINE a == Cardinality(missing)
             b == Cardinality(before)
             c == Cardinality(S)
             d == Cardinality(Twice)
             h == stats.highest
             e == stats.base
             t == stats.total
  <2>7. top \in Int /\ begin \in Int
    BY <2>1, <2>2
  <2>8. h - e - t = a - b - d
    <3>1. /\ a - b = (top - begin + 1) - c /\ a \in Nat /\ b \in Nat /\ c \in Nat /\ d \in Nat
          /\ t = c + d /\ h - e = top - begin + 1 /\ h \in Nat /\ e \in Int
      BY <2>3, <2>4, <2>5 DEF Statistics
    <3> HIDE DEF a, b, c, d, h, e, t, top
    <3> QED BY <2>7, <3>1 DEF top
  <2>9. report'.totNumLost = report'.missing - report'.before - report'.twice
    <3> HIDE DEF missing, before
    <3> QED BY <1>1, <2>8
  <2> HIDE DEF a, b, c, d, h, e, t, missing, before
  <2> QED BY <1>1, <1>2, <1>3, <2>5, <2>6, <2>9 DEF Counted, Reception!SeqNo, Reception!Numbers
<1> QED BY <1>4, <1>5, <1>6 DEF ReceptionInv

-----------------------------------------------------------------------------
(* RtpReception: the steps that deliver.                                    *)

LEMMA HeldIs ==
  ASSUME NEW q, NEW u, SortedAfter(q, u)
  PROVE  \A n \in Held(q) : n > u /\ n \in Nat \ {0}
<1>1. \A i \in 1 .. Len(q) : q[i] \in Queued /\ q[i].n > u
  BY DEF SortedAfter
<1>2. \A i \in 1 .. Len(q) : q[i].n \in Nat \ {0}
  BY <1>1 DEF Queued
<1> QED BY <1>1, <1>2 DEF Held

\* A delivery from what is in order leaves it in order, and drops nothing.
LEMMA DeliveryKeeps ==
  ASSUME NEW u \in Nat, SortedUpTo(out, u), NEW q, SortedAfter(q, u),
         NEW expected, expected = Reception!SeqNo(u + 1), NEW need, Reception!Deliver(q, expected, need)
  PROVE  \E w \in Nat :
           /\ w >= u /\ SortedUpTo(out', w) /\ SortedAfter(queue', w)
           /\ fNextExpectedSeqNo' = Reception!SeqNo(w + 1)
           /\ \/ w = u /\ out' = out /\ ~(need /\ q # <<>> /\ Head(q).seq = expected)
              \/ w \in Held(q) /\ out' # <<>> /\ Reception!Last(out') = w
           /\ \A n \in Held(queue') : n \in Held(q)
           /\ \A n : n \in Given(out') \/ n \in Held(queue') <=> n \in Given(out) \/ n \in Held(q)
<1>1. CASE /\ out' = out /\ queue' = q /\ fNextExpectedSeqNo' = expected
           /\ ~(need /\ q # <<>> /\ Head(q).seq = expected)
  <2> DEFINE after == Reception!SeqNo(u + 1)
  <2>1. /\ SortedUpTo(out', u) /\ SortedAfter(queue', u) /\ fNextExpectedSeqNo' = after
        /\ \A n \in Held(queue') : n \in Held(q)
        /\ \A n : n \in Given(out') \/ n \in Held(queue') <=> n \in Given(out) \/ n \in Held(q)
    BY <1>1
  <2> HIDE DEF after
  <2>2. u >= u
    OBVIOUS
  <2> QED BY <1>1, <2>1, <2>2 DEF after
<1>2. ASSUME NEW v \in Nat \ {0},
             v > u, v \in Held(q), SortedUpTo(out', v), out' # <<>>, Reception!Last(out') = v,
             SortedAfter(queue', v), fNextExpectedSeqNo' = Reception!SeqNo(v + 1),
             \A n : n \in Given(out') \/ n \in Held(queue') <=> n \in Given(out) \/ n \in Held(q)
      PROVE  \E w \in Nat :
           /\ w >= u /\ SortedUpTo(out', w) /\ SortedAfter(queue', w)
           /\ fNextExpectedSeqNo' = Reception!SeqNo(w + 1)
           /\ \/ w = u /\ out' = out /\ ~(need /\ q # <<>> /\ Head(q).seq = expected)
              \/ w \in Held(q) /\ out' # <<>> /\ Reception!Last(out') = w
           /\ \A n \in Held(queue') : n \in Held(q)
           /\ \A n : n \in Given(out') \/ n \in Held(queue') <=> n \in Given(out) \/ n \in Held(q)
  <2>1. v >= u /\ v \in Nat
    BY <1>2
  <2>2. \A n \in Held(queue') : n > v /\ n \in Nat
    BY <1>2, HeldIs
  <2>3. \A n \in Given(out) : n <= u
    BY DEF SortedUpTo, Given
  <2>4. \A n \in Held(queue') : n \notin Given(out)
    BY <1>2, <2>2, <2>3
  <2>5. \A n \in Held(queue') : n \in Held(q)
    BY <1>2, <2>4
  <2> QED BY <1>2, <2>1, <2>5
<1> QED BY <1>1, <1>2, DeliverIs

LEMMA DeliveredKeeps ==
  ASSUME NEW w \in Nat, SortedUpTo(out', w), SortedAfter(queue', w), out' # <<>>, Reception!Last(out') = w,
         fNextExpectedSeqNo' = Reception!SeqNo(w + 1), fHaveSeenFirstPacket',
         rtpSent' \in Nat, w <= rtpSent', rtpSent' - w < Half, \A n \in net' : (rtpSent' + 1) - n < Half,
         w \in Reception!Came', begin' \in Reception!Came', \A n \in Held(queue') : n \in Reception!Came',
         \A n \in inTime' : n \in Given(out') \/ n \in Held(queue')
  PROVE  WithinHalf' /\ Reordered' /\ Started'
<1>1. Reception!Used' = w
  BY DEF Reception!Used, Reception!Last
<1>2. WithinHalf'
  BY <1>1 DEF WithinHalf
<1>3. Reordered'
  BY <1>1 DEF Reordered, SortedUpTo, SortedAfter, Held, Given, Queued, Reception!SeqNo, Reception!Numbers
<1>4. Started'
  BY <1>1 DEF Started, Reception!SeqNo, Reception!Numbers
<1> QED BY <1>2, <1>3, <1>4

LEMMA AfterGettingKeeps ==
  ASSUME ReceptionInv, Reception!AfterGetting
  PROVE  ReceptionInv'
<1> DEFINE u == Reception!Used
<1>1. /\ scheduled /\ Reception!Deliver(queue, fNextExpectedSeqNo, TRUE)
      /\ UNCHANGED <<rtpSent, net, rtpClock, fHaveSeenFirstPacket, copies, begin, inTime, stats, report>>
  BY DEF Reception!AfterGetting, Reception!history
<1>2. Counted' /\ Reception!Came' = Reception!Came
  BY <1>1, CountedStays DEF ReceptionInv
<1>3. ReceptionType'
  BY <1>1, <1>2 DEF ReceptionInv, ReceptionType
<1>4. u \in Nat /\ u <= rtpSent /\ rtpSent - u < Half /\ rtpSent \in Nat
  BY DEF ReceptionInv, ReceptionType, WithinHalf
<1>5. CASE ~fHaveSeenFirstPacket
  <2>1. /\ queue = <<>> /\ out = <<>> /\ fNeedDelivery = TRUE
        /\ begin = 1 /\ Reception!Came = {} /\ stats = Reception!NoStats
    BY <1>5 DEF ReceptionInv, Started
  <2>2. queue' = queue /\ fNeedDelivery' = TRUE /\ out' = out
    BY <1>1, <2>1 DEF Reception!Deliver
  <2>3. Reception!Used' = Reception!Used
    BY <1>1, <2>2 DEF Reception!Used, Reception!Last
  <2>4. WithinHalf'
    BY <1>1, <2>3 DEF ReceptionInv, WithinHalf
  <2>5. Reordered'
    BY <1>1, <1>2, <2>2, <2>3
       DEF ReceptionInv, Reordered, SortedUpTo, SortedAfter, Held, Given, Queued, Reception!SeqNo, Reception!Numbers
  <2>6. Started'
    BY <1>1, <1>2, <1>5, <2>1, <2>2 DEF Started, Reception!NoStats
  <2> QED BY <1>2, <1>3, <2>4, <2>5, <2>6 DEF ReceptionInv
<1>6. CASE fHaveSeenFirstPacket
  <2>1. /\ out # <<>> /\ begin \in Reception!Came /\ u \in Reception!Came
        /\ fNextExpectedSeqNo = Reception!SeqNo(u + 1)
    BY <1>6 DEF ReceptionInv, Started
  <2>2. /\ SortedUpTo(out, u) /\ SortedAfter(queue, u)
        /\ \A n \in Held(queue) : n \in Reception!Came
        /\ \A n \in inTime : n \in Given(out) \/ n \in Held(queue)
    BY DEF ReceptionInv, Reordered
  <2> HIDE DEF u
  <2>3. PICK w \in Nat :
           /\ w >= u /\ SortedUpTo(out', w) /\ SortedAfter(queue', w)
           /\ fNextExpectedSeqNo' = Reception!SeqNo(w + 1)
           /\ \/ w = u /\ out' = out
              \/ w \in Held(queue) /\ out' # <<>> /\ Reception!Last(out') = w
           /\ \A n \in Held(queue') : n \in Held(queue)
           /\ \A n : n \in Given(out') \/ n \in Held(queue') <=> n \in Given(out) \/ n \in Held(queue)
    BY <1>1, <1>4, <2>1, <2>2, DeliveryKeeps
  <2>4. w \in Reception!Came /\ w <= rtpSent /\ rtpSent - w < Half /\ out' # <<>> /\ Reception!Last(out') = w
    <3>1. CASE w = u /\ out' = out
      <4>1. Reception!Last(out') = w
        BY <2>1, <3>1 DEF u, Reception!Used, Reception!Last
      <4> QED BY <1>4, <2>1, <3>1, <4>1
    <3>2. CASE w \in Held(queue) /\ out' # <<>> /\ Reception!Last(out') = w
      <4>1. w \in Reception!Came /\ Reception!Came \subseteq 1 .. rtpSent
        BY <2>2, <3>2 DEF ReceptionInv, ReceptionType
      <4>2. w <= rtpSent
        BY <1>4, <4>1
      <4>3. w >= u /\ w \in Nat /\ u \in Nat /\ rtpSent \in Nat /\ rtpSent - u < Half
        BY <1>4, <2>3
      <4>4. rtpSent - w < Half
        BY <4>3, ReceptionAssumption
      <4> QED BY <3>2, <4>1, <4>2, <4>4
    <3> QED BY <2>3, <3>1, <3>2
  <2>5. /\ \A n \in Held(queue') : n \in Reception!Came
        /\ \A n \in inTime : n \in Given(out') \/ n \in Held(queue')
    BY <2>2, <2>3
  <2>6. \A n \in net : (rtpSent + 1) - n < Half
    BY DEF ReceptionInv, WithinHalf
  <2>7. WithinHalf' /\ Reordered' /\ Started'
    BY <1>1, <1>2, <1>4, <1>6, <2>1, <2>3, <2>4, <2>5, <2>6, DeliveredKeeps
  <2> QED BY <1>2, <1>3, <2>7 DEF ReceptionInv
<1> QED BY <1>5, <1>6

LEMMA ArrivalDelivers ==
  ASSUME ReceptionInv, rtpClock \in Nat, NEW n \in net, NEW u \in Nat, SortedUpTo(out, u), SortedAfter(queue, u),
         u <= rtpSent, rtpSent - u < Half, NEW expected, expected = Reception!SeqNo(u + 1),
         NEW packet, packet = [seq |-> Reception!SeqNo(n), n |-> n, time |-> rtpClock],
         Reception!Deliver(Reception!Stored(packet, expected), expected, fNeedDelivery)
  PROVE  \E w \in Nat :
           /\ w >= u /\ SortedUpTo(out', w) /\ SortedAfter(queue', w)
           /\ fNextExpectedSeqNo' = Reception!SeqNo(w + 1)
           /\ \/ w = u /\ out' = out /\ ~(fNeedDelivery /\ queue = <<>> /\ n = u + 1)
              \/ /\ w \in Held(queue) \/ (n > u /\ w = n)
                 /\ out' # <<>> /\ Reception!Last(out') = w
           /\ \A m \in Held(queue') : m \in Held(queue) \/ (n > u /\ m = n)
           /\ \A m : m \in Given(out') \/ m \in Held(queue')
                       <=> m \in Given(out) \/ m \in Held(queue) \/ (n > u /\ m = n)
<1>1. /\ rtpSent \in Nat /\ n \in Nat \ {0} /\ n <= rtpSent /\ (rtpSent + 1) - n < Half /\ Half \in Nat
      /\ \A m \in Held(queue) : m \in 1 .. rtpSent
  <2>1. /\ rtpSent \in Nat /\ net \subseteq 1 .. rtpSent /\ (rtpSent + 1) - n < Half
        /\ Reception!Came \subseteq 1 .. rtpSent /\ \A m \in Held(queue) : m \in Reception!Came
    BY DEF ReceptionInv, ReceptionType, WithinHalf, Reordered
  <2>2. n \in Nat \ {0} /\ n <= rtpSent
    BY <2>1
  <2>3. \A m \in Held(queue) : m \in 1 .. rtpSent
    BY <2>1
  <2> QED BY <2>1, <2>2, <2>3, ReceptionAssumption
<1>2. packet \in Queued /\ packet.n = n /\ packet.seq = Reception!SeqNo(n)
  <2> DEFINE s == Reception!SeqNo(n)
  <2>1. s \in Nat
    BY <1>1, NumberIs
  <2> HIDE DEF s
  <2>2. packet = [seq |-> s, n |-> n, time |-> rtpClock]
    BY DEF s
  <2>3. packet \in [seq : Nat, n : Nat \ {0}, time : Nat] /\ packet.n = n /\ packet.seq = s
    BY <1>1, <2>1, <2>2
  <2> QED BY <2>3 DEF s, Queued
<1>3. packet.n - (u + 1) < Half /\ (u + 1) - packet.n < Half
  BY <1>1, <1>2
<1>4. packet.n > u => \A i \in 1 .. Len(queue) : packet.n - queue[i].n < Half /\ queue[i].n - packet.n < Half
  <2> SUFFICES ASSUME n > u, NEW i \in 1 .. Len(queue)
               PROVE  n - queue[i].n < Half /\ queue[i].n - n < Half
    BY <1>2
  <2> DEFINE m == queue[i].n
  <2>1. m \in Held(queue)
    BY DEF Held
  <2>2. m \in 1 .. rtpSent /\ m > u
    BY <1>1, <2>1, HeldIs
  <2> HIDE DEF m
  <2>3. n - m < Half /\ m - n < Half
    BY <1>1, <2>2
  <2> QED BY <2>3 DEF m
<1> DEFINE q == Reception!Stored(packet, expected)
<1>5. /\ SortedAfter(q, u)
      /\ \A m : m \in Held(q) <=> m \in Held(queue) \/ (packet.n > u /\ m = packet.n)
  BY <1>2, <1>3, <1>4, StoredIs
<1>6. Reception!Deliver(q, expected, fNeedDelivery)
  OBVIOUS
<1> HIDE DEF q
<1>7. PICK w \in Nat :
           /\ w >= u /\ SortedUpTo(out', w) /\ SortedAfter(queue', w)
           /\ fNextExpectedSeqNo' = Reception!SeqNo(w + 1)
           /\ \/ w = u /\ out' = out /\ ~(fNeedDelivery /\ q # <<>> /\ Head(q).seq = expected)
              \/ w \in Held(q) /\ out' # <<>> /\ Reception!Last(out') = w
           /\ \A m \in Held(queue') : m \in Held(q)
           /\ \A m : m \in Given(out') \/ m \in Held(queue') <=> m \in Given(out) \/ m \in Held(q)
  BY <1>5, <1>6, DeliveryKeeps
<1>8. queue = <<>> /\ n = u + 1 => q # <<>> /\ Head(q).seq = expected
  <2> SUFFICES ASSUME queue = <<>>, n = u + 1
               PROVE  q # <<>> /\ Head(q).seq = expected
    OBVIOUS
  <2>1. Held(queue) = {}
    <3>1. Len(<<>>) = 0
      BY EmptySeq
    <3> QED BY <3>1 DEF Held
  <2>2. n \in Held(q) /\ \A m \in Held(q) : m = n
    BY <1>1, <1>2, <1>5, <2>1
  <2>3. q \in Seq(Queued) /\ q # <<>>
    <3>1. Len(<<>>) = 0
      BY EmptySeq
    <3> QED BY <1>5, <2>2, <3>1 DEF SortedAfter, Held
  <2>4. Head(q) = q[1] /\ 1 \in 1 .. Len(q)
    BY <2>3, EmptySeq
  <2>5. q[1] \in Queued /\ q[1].n = n
    BY <2>2, <2>3, <2>4 DEF Held
  <2>6. q[1].seq = Reception!SeqNo(n)
    BY <2>5 DEF Queued
  <2> QED BY <2>3, <2>4, <2>6
<1>9. \A m : m \in Held(q) <=> m \in Held(queue) \/ (n > u /\ m = n)
  BY <1>2, <1>5
<1> DEFINE after == Reception!SeqNo(w + 1)
<1>10. fNextExpectedSeqNo' = after
  BY <1>7
<1> HIDE DEF after
<1>11. \/ w = u /\ out' = out /\ ~(fNeedDelivery /\ queue = <<>> /\ n = u + 1)
       \/ /\ w \in Held(queue) \/ (n > u /\ w = n)
          /\ out' # <<>> /\ Reception!Last(out') = w
  BY <1>7, <1>8, <1>9
<1>12. /\ \A m \in Held(queue') : m \in Held(queue) \/ (n > u /\ m = n)
       /\ \A m : m \in Given(out') \/ m \in Held(queue')
                   <=> m \in Given(out) \/ m \in Held(queue) \/ (n > u /\ m = n)
  BY <1>7, <1>9
<1> QED BY <1>7, <1>10, <1>11, <1>12 DEF after

LEMMA ArrivalCounted ==
  ASSUME ReceptionInv, NEW n \in net, copies[n] < 2, copies' = [copies EXCEPT ![n] = @ + 1]
  PROVE  /\ copies' \in [1 .. MaxSent -> Nat]
         /\ Reception!Came' = Reception!Came \cup {n} /\ Reception!Came' \subseteq 1 .. rtpSent
         /\ Cardinality(Reception!Came') + Cardinality(Twice') = (Cardinality(Reception!Came) + Cardinality(Twice)) + 1
<1> DEFINE S == Reception!Came
           T == Reception!Came'
           V == Twice
           W == Twice'
<1>1. /\ rtpSent \in Nat /\ n \in 1 .. rtpSent /\ n \in 1 .. MaxSent /\ S \subseteq 1 .. rtpSent
      /\ copies \in [1 .. MaxSent -> Nat]
  <2>1. /\ rtpSent \in Nat /\ rtpSent <= MaxSent /\ net \subseteq 1 .. rtpSent /\ S \subseteq 1 .. rtpSent
        /\ copies \in [1 .. MaxSent -> Nat]
    BY DEF ReceptionInv, ReceptionType
  <2> QED BY <2>1, ReceptionAssumption
<1>2. copies' \in [1 .. MaxSent -> Nat] /\ copies'[n] = copies[n] + 1
      /\ \A m \in 1 .. MaxSent : m # n => copies'[m] = copies[m]
  BY <1>1
<1>3. copies[n] = 0 \/ copies[n] = 1
  BY <1>1
<1>4. T = S \cup {n} /\ T \subseteq 1 .. rtpSent
  <2>1. T = {m \in 1 .. MaxSent : copies'[m] > 0} /\ S = {m \in 1 .. MaxSent : copies[m] > 0}
    BY DEF Reception!Came
  <2> HIDE DEF S, T
  <2>2. T = S \cup {n}
    BY <1>1, <1>2, <1>3, <2>1
  <2> QED BY <1>1, <2>2
<1>5. /\ W = {m \in T : copies'[m] > 1} /\ V = {m \in S : copies[m] > 1}
      /\ n \in S <=> copies[n] > 0
  <2>1. n \in S <=> copies[n] > 0
    BY <1>1 DEF Reception!Came
  <2> QED BY <2>1 DEF Twice
<1>6. IsFiniteSet(S) /\ IsFiniteSet(V)
  <2>1. IsFiniteSet(1 .. rtpSent)
    BY <1>1, FS_Interval
  <2>2. S \in SUBSET (1 .. rtpSent) /\ V \in SUBSET S
    BY <1>1, <1>5
  <2> HIDE DEF S, V
  <2> QED BY <2>1, <2>2, FS_Subset
<1> HIDE DEF S, T, V, W
<1>7. Cardinality(S) \in Nat /\ Cardinality(V) \in Nat
  BY <1>6, FS_CardinalityType
<1>8. \A m \in S : m \in 1 .. MaxSent
  BY DEF S, Reception!Came
<1>9. Cardinality(T) + Cardinality(W) = (Cardinality(S) + Cardinality(V)) + 1
  <2>1. CASE copies[n] = 0
    <3>1. n \notin S /\ W = V
      BY <1>2, <1>4, <1>5, <1>8, <2>1
    <3>2. Cardinality(T) = Cardinality(S) + 1
      BY <1>4, <1>6, <3>1, FS_AddElement
    <3> QED BY <1>7, <3>1, <3>2
  <2>2. CASE copies[n] = 1
    <3>1. T = S /\ n \notin V /\ W = V \cup {n}
      BY <1>2, <1>4, <1>5, <1>8, <2>2
    <3>2. Cardinality(W) = Cardinality(V) + 1
      BY <1>6, <3>1, FS_AddElement
    <3> QED BY <1>7, <3>1, <3>2
  <2> QED BY <1>3, <2>1, <2>2
<1> QED BY <1>2, <1>4, <1>9 DEF S, T, V, W

LEMMA ArrivalNoted ==
  ASSUME ReceptionInv, NEW n \in net, copies' = [copies EXCEPT ![n] = @ + 1],
         Reception!NoteIncomingPacket(Reception!SeqNo(n)), fHaveSeenFirstPacket' = TRUE,
         begin' = IF fHaveSeenFirstPacket THEN begin ELSE n, UNCHANGED report,
         n \in Nat \ {0}, n <= rtpSent, rtpSent \in Nat, (rtpSent + 1) - n < Half, Half \in Nat,
         Reception!Came' = Reception!Came \cup {n}, Reception!Came' \subseteq 1 .. rtpSent,
         Cardinality(Reception!Came') + Cardinality(Twice') = (Cardinality(Reception!Came) + Cardinality(Twice)) + 1
  PROVE  Counted'
<1> DEFINE S == Reception!Came
           seq == Reception!SeqNo(n)
           known == IF fHaveSeenFirstPacket THEN stats
                    ELSE [Reception!NoStats EXCEPT !.base = seq - 1, !.highest = seq, !.lastReset = seq]
           h == Reception!Highest(known.highest, seq)
<1>1. stats' = [known EXCEPT !.highest = Reception!Highest(@, seq), !.total = @ + 1, !.since = @ + 1]
  BY DEF Reception!NoteIncomingPacket
<1>2. seq \in Nat /\ seq < Reception!Numbers /\ Reception!Numbers \in Nat \ {0}
  BY NumberIs
<1>3. stats \in Statistics /\ stats.total = Cardinality(S) + Cardinality(Twice)
      /\ report.totNumLost = report.missing - report.before - report.twice
  BY DEF ReceptionInv, Counted
<1>4. Reception!Newest' \in S' /\ \A m \in S' : m <= Reception!Newest'
  <2> DEFINE T == S'
  <2>1. T \subseteq 1 .. rtpSent /\ T # {}
    OBVIOUS
  <2>2. Reception!Newest' = Reception!Max(T)
    BY DEF Reception!Newest, Reception!Max
  <2> HIDE DEF T
  <2>3. Reception!Max(T) \in T /\ \A y \in T : y <= Reception!Max(T)
    BY <2>1, GreatestOf
  <2> QED BY <2>2, <2>3 DEF T
<1>5. known \in Statistics /\ known.total = stats.total
      /\ h \in Nat /\ h - known.base = Reception!Newest' - begin' + 1
      /\ h % Reception!Numbers = Reception!SeqNo(Reception!Newest')
  <2>1. CASE fHaveSeenFirstPacket
    <3> DEFINE top == Reception!Newest
               u == Reception!Used
    <3>1. /\ known = stats /\ begin' = begin /\ begin \in S /\ u \in S
          /\ stats.highest - stats.base = top - begin + 1 /\ stats.highest % Reception!Numbers = Reception!SeqNo(top)
          /\ S \subseteq 1 .. rtpSent /\ u \in 0 .. rtpSent /\ rtpSent - u < Half
      BY <2>1 DEF ReceptionInv, Counted, Started, ReceptionType, WithinHalf
    <3>2. top \in S /\ \A m \in S : m <= top
      BY <3>1, GreatestOf DEF Reception!Newest
    <3> DEFINE new == Reception!Newest'
               old == stats.highest
               base == stats.base
               b == begin
    <3> HIDE DEF S, top, u, seq, known, new
    <3>3. top \in Nat \ {0} /\ top <= rtpSent /\ u <= top /\ u \in Nat /\ b \in Nat
      BY <3>1, <3>2
    <3>4. n - top < Half /\ top - n < Half
      BY <3>1, <3>3
    <3>5. IF n > top THEN new = n ELSE new = top
      <4>1. S' = S \cup {n} /\ \A m \in S : m \in Nat
        BY <3>1 DEF S
      <4>2. new \in S' /\ \A m \in S' : m <= new
        BY <1>4 DEF new
      <4> HIDE DEF S
      <4> QED BY <3>2, <3>3, <4>1, <4>2
    <3>6. old \in Nat /\ base \in Int /\ known.highest = old /\ old - base = top - b + 1
          /\ old % Reception!Numbers = Reception!SeqNo(top)
      BY <1>3, <3>1 DEF Statistics
    <3> HIDE DEF old, base, h, b
    <3>7. h = Reception!Highest(old, Reception!SeqNo(n))
      BY <3>6 DEF h, seq
    <3>8. /\ n > top => h = old + (n - top) /\ h \in Nat /\ h % Reception!Numbers = Reception!SeqNo(n)
          /\ ~(n > top) => h = old
      BY <3>3, <3>4, <3>6, <3>7, HighestIs
    <3>9. h \in Nat /\ h - base = new - b + 1 /\ h % Reception!Numbers = Reception!SeqNo(new)
      <4>1. CASE n > top
        <5>1. h = old + (n - top) /\ new = n /\ h % Reception!Numbers = Reception!SeqNo(n) /\ h \in Nat
          BY <3>5, <3>8, <4>1
        <5> QED BY <3>3, <3>6, <5>1
      <4>2. CASE ~(n > top)
        BY <3>5, <3>6, <3>8, <4>2
      <4> QED BY <4>1, <4>2
    <3> QED BY <1>3, <3>1, <3>9 DEF base, b, new
  <2>2. CASE ~fHaveSeenFirstPacket
    <3>1. S = {} /\ stats = Reception!NoStats /\ begin' = n
      BY <2>2 DEF ReceptionInv, Started
    <3>2. Reception!Newest' = n
      BY <1>4, <3>1
    <3>3. known = [base |-> seq - 1, highest |-> seq, total |-> 0, since |-> 0, lastReset |-> seq]
      <4> DEFINE one == [Reception!NoStats EXCEPT !.base = seq - 1]
                 two == [one EXCEPT !.highest = seq]
      <4> HIDE DEF seq
      <4>1. one = [base |-> seq - 1, highest |-> 0, total |-> 0, since |-> 0, lastReset |-> 0]
        BY DEF Reception!NoStats
      <4>2. known = [two EXCEPT !.lastReset = seq]
        BY <2>2
      <4> HIDE DEF one
      <4>3. two = [base |-> seq - 1, highest |-> seq, total |-> 0, since |-> 0, lastReset |-> 0]
        BY <4>1
      <4> HIDE DEF two, known
      <4> QED BY <4>2, <4>3
    <3> HIDE DEF seq, known
    <3>4. /\ known \in Statistics /\ known.total = 0 /\ known.highest = seq /\ known.base = seq - 1
      BY <1>2, <3>3 DEF Statistics
    <3>5. stats.total = 0
      BY <3>1 DEF Reception!NoStats
    <3>6. seq % Reception!Numbers = seq
      BY <1>2
    <3>7. h = Reception!Highest(seq, Reception!SeqNo(n))
      BY <3>4 DEF seq
    <3>8. seq % Reception!Numbers = Reception!SeqNo(n)
      BY <3>6 DEF seq
    <3> HIDE DEF h
    <3>9. n - n < Half
      BY ReceptionAssumption
    <3>10. h = seq
      BY <1>2, <3>7, <3>8, <3>9, HighestIs
    <3>11. h - known.base = 1 /\ n - n + 1 = 1
      BY <1>2, <3>4, <3>10
    <3> QED BY <1>2, <3>1, <3>2, <3>4, <3>5, <3>8, <3>10, <3>11
  <2> QED BY <2>1, <2>2
<1>6. stats' = [known EXCEPT !.highest = h, !.total = @ + 1, !.since = @ + 1]
  BY <1>1
<1> HIDE DEF h, known
<1>7. known \in Statistics /\ h \in Nat
  BY <1>5
<1>8. stats' \in Statistics /\ stats'.total = known.total + 1 /\ stats'.highest = h /\ stats'.base = known.base
  <2> DEFINE one == [known EXCEPT !.highest = h]
             two == [one EXCEPT !.total = @ + 1]
  <2>1. one \in Statistics /\ one.total = known.total /\ one.highest = h /\ one.base = known.base
    BY <1>7 DEF Statistics
  <2>2. stats' = [two EXCEPT !.since = @ + 1]
    BY <1>6
  <2> HIDE DEF one
  <2>3. two \in Statistics /\ two.total = known.total + 1 /\ two.highest = h /\ two.base = known.base
    BY <1>7, <2>1 DEF Statistics
  <2> HIDE DEF two
  <2> QED BY <2>2, <2>3 DEF Statistics
<1>9. stats'.total = Cardinality(S') + Cardinality(Twice')
  BY <1>3, <1>5, <1>8
<1> QED BY <1>3, <1>5, <1>8, <1>9 DEF Counted, Reception!SeqNo, Reception!Numbers

LEMMA ArriveKeeps ==
  ASSUME ReceptionInv, NEW n \in net, NEW again \in BOOLEAN, Reception!Arrive(n, again)
  PROVE  ReceptionInv'
<1> DEFINE S == Reception!Came
           seq == Reception!SeqNo(n)
<1>1. /\ copies[n] < 2 /\ copies' = [copies EXCEPT ![n] = @ + 1]
      /\ net' = (IF again THEN net ELSE net \ {n}) /\ Reception!NoteIncomingPacket(seq)
      /\ fHaveSeenFirstPacket' = TRUE /\ begin' = (IF fHaveSeenFirstPacket THEN begin ELSE n)
      /\ inTime' = (IF fHaveSeenFirstPacket /\ n <= Reception!Used THEN inTime ELSE inTime \cup {n})
      /\ UNCHANGED <<rtpSent, rtpClock, report>>
  BY DEF Reception!Arrive
<1>2. /\ copies' \in [1 .. MaxSent -> Nat] /\ S' = S \cup {n} /\ S' \subseteq 1 .. rtpSent
      /\ Cardinality(S') + Cardinality(Twice') = (Cardinality(S) + Cardinality(Twice)) + 1
  BY <1>1, ArrivalCounted
<1>3. /\ rtpSent \in Nat /\ n \in Nat \ {0} /\ n <= rtpSent /\ (rtpSent + 1) - n < Half /\ Half \in Nat
      /\ rtpClock \in Nat
  <2>1. rtpSent \in Nat /\ net \subseteq 1 .. rtpSent /\ (rtpSent + 1) - n < Half /\ rtpClock \in Nat
    BY DEF ReceptionInv, ReceptionType, WithinHalf
  <2>2. n \in Nat \ {0} /\ n <= rtpSent
    BY <2>1
  <2> QED BY <2>1, <2>2, ReceptionAssumption
<1>4. ReceptionType'
  <2>1. net' \subseteq net /\ fHaveSeenFirstPacket' \in BOOLEAN
    BY <1>1
  <2> QED BY <1>1, <1>2, <2>1 DEF ReceptionInv, ReceptionType
<1>5. \A m \in net' : (rtpSent' + 1) - m < Half
  <2>1. net' \subseteq net
    BY <1>1
  <2> QED BY <1>1, <2>1 DEF ReceptionInv, WithinHalf
<1> DEFINE u == IF fHaveSeenFirstPacket THEN Reception!Used ELSE n - 1
           expected == IF fHaveSeenFirstPacket THEN fNextExpectedSeqNo ELSE seq
           packet == [seq |-> seq, n |-> n, time |-> rtpClock]
<1>6. Reception!Deliver(Reception!Stored(packet, expected), expected, fNeedDelivery)
  BY DEF Reception!Arrive
<1>7. /\ u \in Nat /\ u <= rtpSent /\ rtpSent - u < Half /\ SortedUpTo(out, u) /\ SortedAfter(queue, u)
      /\ expected = Reception!SeqNo(u + 1)
      /\ ~fHaveSeenFirstPacket => u = n - 1 /\ queue = <<>> /\ fNeedDelivery = TRUE
  <2>1. CASE fHaveSeenFirstPacket
    <3>1. /\ Reception!Used \in Nat /\ Reception!Used <= rtpSent /\ rtpSent - Reception!Used < Half
          /\ SortedUpTo(out, Reception!Used) /\ SortedAfter(queue, Reception!Used)
          /\ fNextExpectedSeqNo = Reception!SeqNo(Reception!Used + 1)
      BY <1>3, <2>1 DEF ReceptionInv, WithinHalf, Reordered, Started
    <3> QED BY <2>1, <3>1
  <2>2. CASE ~fHaveSeenFirstPacket
    <3>1. out = <<>> /\ queue = <<>> /\ fNeedDelivery = TRUE
      BY <2>2 DEF ReceptionInv, Started
    <3>2. <<>> \in Seq(Nat) /\ <<>> \in Seq(Queued) /\ Len(<<>>) = 0
      BY EmptySeq
    <3>3. SortedUpTo(out, n - 1) /\ SortedAfter(queue, n - 1)
      BY <3>1, <3>2 DEF SortedUpTo, SortedAfter
    <3>4. n - 1 \in Nat /\ n - 1 <= rtpSent /\ rtpSent - (n - 1) < Half /\ (n - 1) + 1 = n
      BY <1>3
    <3> QED BY <2>2, <3>1, <3>3, <3>4
  <2> QED BY <2>1, <2>2
<1> HIDE DEF u, expected, packet
<1>8. PICK w \in Nat :
           /\ w >= u /\ SortedUpTo(out', w) /\ SortedAfter(queue', w)
           /\ fNextExpectedSeqNo' = Reception!SeqNo(w + 1)
           /\ \/ w = u /\ out' = out /\ ~(fNeedDelivery /\ queue = <<>> /\ n = u + 1)
              \/ /\ w \in Held(queue) \/ (n > u /\ w = n)
                 /\ out' # <<>> /\ Reception!Last(out') = w
           /\ \A m \in Held(queue') : m \in Held(queue) \/ (n > u /\ m = n)
           /\ \A m : m \in Given(out') \/ m \in Held(queue')
                       <=> m \in Given(out) \/ m \in Held(queue) \/ (n > u /\ m = n)
  <2>1. packet = [seq |-> Reception!SeqNo(n), n |-> n, time |-> rtpClock]
    BY DEF packet
  <2> QED BY <1>3, <1>6, <1>7, <2>1, ArrivalDelivers
<1>9. /\ \A m \in Held(queue) : m \in S
      /\ \A m \in inTime : m \in Given(out) \/ m \in Held(queue)
  BY DEF ReceptionInv, Reordered
<1>10. w \in S' /\ out' # <<>> /\ Reception!Last(out') = w
  <2>1. CASE w = u /\ out' = out /\ ~(fNeedDelivery /\ queue = <<>> /\ n = u + 1)
    <3>1. fHaveSeenFirstPacket
      BY <1>3, <1>7, <2>1
    <3>2. u = Reception!Used /\ out # <<>> /\ Reception!Used \in S
      BY <3>1 DEF u, ReceptionInv, Started
    <3>3. Reception!Last(out') = u
      BY <2>1, <3>2 DEF Reception!Used, Reception!Last
    <3> QED BY <1>2, <2>1, <3>2, <3>3
  <2>2. CASE (w \in Held(queue) \/ (n > u /\ w = n)) /\ out' # <<>> /\ Reception!Last(out') = w
    BY <1>2, <1>9, <2>2
  <2> QED BY <1>8, <2>1, <2>2
<1>11. w <= rtpSent /\ rtpSent - w < Half
  <2>1. w <= rtpSent
    BY <1>2, <1>3, <1>10
  <2> QED BY <1>3, <1>7, <1>8, <2>1
<1>12. /\ \A m \in Held(queue') : m \in S'
       /\ \A m \in inTime' : m \in Given(out') \/ m \in Held(queue')
  <2>1. \A m \in Held(queue') : m \in S'
    BY <1>2, <1>8, <1>9
  <2>2. \A m \in inTime' : m \in inTime \/ (m = n /\ n > u)
    <3>1. CASE fHaveSeenFirstPacket /\ n <= Reception!Used
      BY <1>1, <3>1
    <3>2. ASSUME ~(fHaveSeenFirstPacket /\ n <= Reception!Used)
          PROVE  n > u /\ inTime' = inTime \cup {n}
      <4>1. CASE fHaveSeenFirstPacket
        <5>1. u = Reception!Used
          BY <4>1 DEF u
        <5> QED BY <1>1, <1>3, <1>7, <3>2, <4>1, <5>1
      <4>2. CASE ~fHaveSeenFirstPacket
        BY <1>1, <1>3, <1>7, <4>2
      <4> QED BY <4>1, <4>2
    <3> QED BY <3>1, <3>2
  <2> QED BY <1>8, <1>9, <2>1, <2>2
<1>13. begin' \in S'
  <2>1. CASE fHaveSeenFirstPacket
    <3>1. begin \in S
      BY <2>1 DEF ReceptionInv, Started
    <3> QED BY <1>1, <1>2, <2>1, <3>1
  <2>2. CASE ~fHaveSeenFirstPacket
    BY <1>1, <1>2, <2>2
  <2> QED BY <2>1, <2>2
<1>14. WithinHalf' /\ Reordered' /\ Started'
  BY <1>1, <1>3, <1>5, <1>8, <1>10, <1>11, <1>12, <1>13, DeliveredKeeps
<1>15. Counted'
  BY <1>1, <1>2, <1>3, ArrivalNoted
<1> QED BY <1>4, <1>14, <1>15 DEF ReceptionInv

LEMMA ReceptionIsRight ==
  ASSUME ReceptionInv
  PROVE  Reception!FramesInOrder /\ Reception!LossReported
<1>1. /\ SortedUpTo(out, Reception!Used) /\ SortedAfter(queue, Reception!Used)
      /\ \A n \in inTime : n \in Given(out) \/ n \in Held(queue)
  BY DEF ReceptionInv, Reordered
<1>2. DOMAIN out = 1 .. Len(out) /\ DOMAIN queue = 1 .. Len(queue)
  BY <1>1 DEF SortedUpTo, SortedAfter
<1>3. Reception!FramesInOrder
  <2>1. \A i, j \in DOMAIN out : i < j => out[i] < out[j]
    BY <1>1, <1>2 DEF SortedUpTo
  <2>2. \A n \in inTime : (\E i \in DOMAIN out : out[i] = n) \/ (\E i \in DOMAIN queue : queue[i].n = n)
    BY <1>1, <1>2 DEF Given, Held
  <2> QED BY <2>1, <2>2 DEF Reception!FramesInOrder
<1>4. Reception!LossReported
  BY DEF ReceptionInv, Counted, Reception!LossReported
<1> QED BY <1>3, <1>4

LEMMA ReceptionStep ==
  ASSUME ReceptionInv, Reception!Next \/ UNCHANGED reception
  PROVE  ReceptionInv'
<1>1. rtpClock \in Nat
  BY DEF ReceptionInv, ReceptionType
<1>2. CASE UNCHANGED reception
  <2>1. /\ rtpClock' \in Nat /\ net' \subseteq net
        /\ UNCHANGED <<rtpSent, queue, fHaveSeenFirstPacket, fNextExpectedSeqNo, fNeedDelivery, out,
                       copies, begin, inTime, stats, report>>
    BY <1>1, <1>2 DEF reception
  <2> QED BY <2>1, QuietKeeps
<1>3. CASE Reception!Send
  BY <1>3, SendKeeps
<1>4. ASSUME NEW n \in net, Reception!Lose(n)
      PROVE  ReceptionInv'
  <2>1. /\ rtpClock' \in Nat /\ net' \subseteq net
        /\ UNCHANGED <<rtpSent, queue, fHaveSeenFirstPacket, fNextExpectedSeqNo, fNeedDelivery, out,
                       copies, begin, inTime, stats, report>>
    BY <1>1, <1>4 DEF Reception!Lose, Reception!receiver, Reception!history
  <2> QED BY <2>1, QuietKeeps
<1>5. ASSUME NEW n \in net, NEW again \in BOOLEAN, Reception!Arrive(n, again)
      PROVE  ReceptionInv'
  BY <1>5, ArriveKeeps
<1>6. CASE Reception!AfterGetting
  BY <1>6, AfterGettingKeeps
<1>7. CASE Reception!Tick
  <2>1. /\ rtpClock' \in Nat /\ net' \subseteq net
        /\ UNCHANGED <<rtpSent, queue, fHaveSeenFirstPacket, fNextExpectedSeqNo, fNeedDelivery, out,
                       copies, begin, inTime, stats, report>>
    BY <1>1, <1>7 DEF Reception!Tick, Reception!receiver, Reception!history
  <2> QED BY <2>1, QuietKeeps
<1>8. CASE Reception!Report
  BY <1>8, ReportKeeps
<1> QED BY <1>2, <1>3, <1>4, <1>5, <1>6, <1>7, <1>8 DEF Reception!Next

LEMMA ReceptionOnly ==
  ASSUME part = "reception", [InputNext]_inputVars
  PROVE  part' = "reception" /\ (Reception!Next \/ UNCHANGED reception)
BY DEF InputNext, inputVars, Others

\* ReorderingPacketBuffer and RTPReceptionStats: in whatever order the packets come, twice or not at
\* all, and wherever their numbers wrap around, the sink gets them in the order sent, none twice, none
\* that came in time is dropped, and the report says how many are missing.
THEOREM ReceptionSurvivesTheWrap == InputSpec => []RightAcrossTheWrap
<1> DEFINE Inv == part = "reception" => ReceptionInv
<1>1. InputInit => Inv
  BY ReceptionInitially DEF InputInit
<1>2. Inv /\ [InputNext]_inputVars => Inv'
  <2> SUFFICES ASSUME Inv, [InputNext]_inputVars, part' = "reception" PROVE ReceptionInv'
    OBVIOUS
  <2>1. part = "reception"
    BY DEF InputNext, inputVars, Others
  <2> QED BY <2>1, ReceptionOnly, ReceptionStep
<1>3. Inv => RightAcrossTheWrap
  BY ReceptionIsRight DEF RightAcrossTheWrap, Reception!RightAcrossTheWrap
<1> QED BY <1>1, <1>2, <1>3, PTL DEF InputSpec

-----------------------------------------------------------------------------
(* Demultiplexer                                                           *)

\* Languages and types: the ones that the stream has and the ones of the parser.
Words == STRING \cup {"UNK", "lpcm", "mpeg2"}
Descriptors == [tag : STRING, lang : STRING]
Streams == [pid : Nat, type : STRING, descriptors : Seq(Descriptors)]
Videos == [pid : Nat, type : Words]
Audios == [pid : Nat, type : Words, lang : Words]
Named == [pid : Nat, lang : Words]

\* The PMT gives a stream of that pid the language.
Gives(pmt, pid, lang) ==
  \E s \in DOMAIN pmt :
    /\ pmt[s].pid = pid
    /\ \E d \in DOMAIN pmt[s].descriptors : pmt[s].descriptors[d].tag = "lang" /\ pmt[s].descriptors[d].lang = lang

\* The pids and the state of a parser whose languages are those that the PMT gives.
OwnAudios(pmt) == {a \in Audios : a.lang = "UNK" \/ Gives(pmt, a.pid, a.lang)}
OwnNames(pmt) == {t \in Named : Gives(pmt, t.pid, t.lang)}
OwnPids(pmt) == [video : Seq(Videos), audio : Seq(OwnAudios(pmt)), subtitle : Seq(Named), teletext : Nat]
ParserStates(pmt) == [pids : OwnPids(pmt), temp : Seq(OwnNames(pmt)), found : BOOLEAN, lpcm : BOOLEAN]

LEMMA WordsAre ==
  "UNK" \in Words /\ "lpcm" \in Words /\ "mpeg2" \in Words /\ \A w \in STRING : w \in Words
BY DEF Words

LEMMA GreatestOfTables ==
  \A S : Tables!Max(S) = Greatest(S)
BY Zenon DEF Tables!Max, Greatest

LEMMA StreamedIs ==
  ASSUME NEW pmt, NEW st \in ParserStates(pmt), NEW stream \in Streams
  PROVE  Tables!Streamed(st, stream) \in ParserStates(pmt)
<1> DEFINE v == [pid |-> stream.pid, type |-> stream.type]
           a == [pid |-> stream.pid, type |-> stream.type, lang |-> "UNK"]
           videos == Append(st.pids.video, v)
           audios == Append(st.pids.audio, a)
<1>1. v \in Videos /\ a \in Audios /\ a.lang = "UNK"
  BY WordsAre DEF Streams, Videos, Audios
<1>2. st.pids.video \in Seq(Videos) /\ st.pids.audio \in Seq(OwnAudios(pmt))
  BY DEF ParserStates, OwnPids
<1> HIDE DEF v, a
<1>3. a \in OwnAudios(pmt)
  BY <1>1 DEF OwnAudios
<1>4. videos \in Seq(Videos) /\ audios \in Seq(OwnAudios(pmt))
  BY <1>1, <1>2, <1>3, AppendProperties
<1>5. Tables!Streamed(st, stream) \in {st, [st EXCEPT !.pids.video = videos], [st EXCEPT !.pids.audio = audios]}
  BY Zenon DEF Tables!Streamed, Tables!AudioPid, Tables!Unnamed, v, a
<1> HIDE DEF videos, audios
<1>6. [st EXCEPT !.pids.video = videos] \in ParserStates(pmt)
  BY <1>4 DEF ParserStates, OwnPids
<1>7. [st EXCEPT !.pids.audio = audios] \in ParserStates(pmt)
  BY <1>4 DEF ParserStates, OwnPids
<1> QED BY <1>5, <1>6, <1>7

\* A language that waits goes to a stream of its pid.
LEMMA Ac3Is ==
  ASSUME NEW pmt, NEW st \in ParserStates(pmt), NEW stream \in Streams, NEW type \in Words
  PROVE  Tables!Ac3(st, stream, type) \in ParserStates(pmt)
<1> DEFINE names == st.temp
           mine == {i \in DOMAIN names : names[i].pid = stream.pid}
           first == CHOOSE i \in mine : \A j \in mine : i <= j
           lang == IF mine = {} THEN "UNK" ELSE names[first].lang
           a == [pid |-> stream.pid, type |-> type, lang |-> lang]
           audios == Append(st.pids.audio, a)
           rest == IF mine = {} THEN names ELSE Tables!Front(names)
<1>1. names \in Seq(OwnNames(pmt)) /\ st.pids.audio \in Seq(OwnAudios(pmt)) /\ stream.pid \in Nat
  BY DEF ParserStates, OwnPids, Streams
<1>2. ASSUME mine # {} PROVE first \in mine
  <2>1. mine \subseteq Nat
    BY <1>1
  <2> HIDE DEF mine
  <2>2. \E i \in mine : \A j \in mine : i <= j
    BY <1>2, <2>1, LeastOf
  <2> QED BY <2>2
<1> HIDE DEF first
<1>3. ASSUME mine # {} PROVE names[first] \in OwnNames(pmt) /\ names[first].pid = stream.pid
  BY <1>1, <1>2, <1>3
<1>4. a \in OwnAudios(pmt)
  <2>1. lang \in Words /\ (lang = "UNK" \/ Gives(pmt, stream.pid, lang))
    <3>1. CASE mine = {}
      <4>1. lang = "UNK"
        BY <3>1
      <4> HIDE DEF lang, mine
      <4> QED BY <4>1, WordsAre
    <3>2. CASE mine # {}
      <4>1. lang = names[first].lang
        BY <3>2
      <4> HIDE DEF lang, mine, names
      <4> QED BY <1>3, <3>2, <4>1 DEF OwnNames, Named
    <3> QED BY <3>1, <3>2
  <2> HIDE DEF lang
  <2>2. a \in Audios /\ a.pid = stream.pid /\ a.lang = lang
    BY <1>1, <2>1 DEF Audios
  <2> HIDE DEF a
  <2> QED BY <2>1, <2>2 DEF OwnAudios
<1>5. rest \in Seq(OwnNames(pmt))
  <2>1. CASE mine = {}
    BY <1>1, <2>1
  <2>2. CASE mine # {}
    <3>1. rest = SubSeq(names, 1, Len(names) - 1)
      BY <2>2 DEF Tables!Front
    <3> HIDE DEF rest, mine
    <3>2. \A i \in 1 .. Len(names) - 1 : names[i] \in OwnNames(pmt)
      BY <1>1
    <3>3. Len(names) - 1 \in Int
      BY <1>1
    <3> QED BY <3>1, <3>2, <3>3, SubSeqProperties
  <2> QED BY <2>1, <2>2
<1> HIDE DEF a
<1>6. audios \in Seq(OwnAudios(pmt))
  BY <1>1, <1>4, AppendProperties
<1>7. Tables!Ac3(st, stream, type) = [st EXCEPT !.pids.audio = audios, !.temp = rest]
  BY Zenon DEF Tables!Ac3, Tables!AudioPid, Tables!Unnamed, a, first
<1> HIDE DEF audios, rest
<1>8. [st EXCEPT !.pids.audio = audios, !.temp = rest] \in ParserStates(pmt)
  BY <1>5, <1>6 DEF ParserStates, OwnPids
<1> QED BY <1>7, <1>8

\* What a round of IsoLanguage leaves of pids, and of the state of the parser.
Mine(s, pid) == {i \in DOMAIN s : s[i].pid = pid}
WithName(s, of, lang) == [i \in DOMAIN s |-> IF i \in of THEN [s[i] EXCEPT !.lang = lang] ELSE s[i]]
OneRound(stream, lang, acc, i) ==
  [acc EXCEPT !.pids.audio = WithName(@, Mine(acc.pids.audio, stream.pid) \cap {i}, lang),
              !.pids.subtitle = WithName(@, Mine(acc.pids.subtitle, stream.pid), lang),
              !.found = acc.found \/ (Mine(acc.pids.audio, stream.pid) \cap {i})
                                        \cup Mine(acc.pids.subtitle, stream.pid) # {},
              !.temp = IF acc.found \/ (Mine(acc.pids.audio, stream.pid) \cap {i})
                                         \cup Mine(acc.pids.subtitle, stream.pid) # {}
                       THEN @ ELSE Append(@, [pid |-> stream.pid, lang |-> lang])]

LEMMA NamedAudios ==
  ASSUME NEW pmt, NEW pid \in Nat, NEW lang \in Words, Gives(pmt, pid, lang),
         NEW s \in Seq(OwnAudios(pmt)), NEW of, of \subseteq Mine(s, pid)
  PROVE  WithName(s, of, lang) \in Seq(OwnAudios(pmt))
<1> DEFINE w == WithName(s, of, lang)
<1>1. ASSUME NEW i \in 1 .. Len(s) PROVE (IF i \in of THEN [s[i] EXCEPT !.lang = lang] ELSE s[i]) \in OwnAudios(pmt)
  <2>1. s[i] \in OwnAudios(pmt)
    OBVIOUS
  <2>2. ASSUME i \in of PROVE [s[i] EXCEPT !.lang = lang] \in OwnAudios(pmt)
    <3>1. s[i].pid = pid
      BY <2>2 DEF Mine
    <3>2. PICK a \in Audios : a = s[i] /\ a.pid = pid
      BY <2>1, <3>1 DEF OwnAudios
    <3> DEFINE b == [a EXCEPT !.lang = lang]
    <3>3. b \in Audios /\ b.pid = pid /\ b.lang = lang
      BY <3>2 DEF Audios
    <3> HIDE DEF b
    <3>4. b \in OwnAudios(pmt)
      BY <3>3 DEF OwnAudios
    <3> QED BY <3>2, <3>4 DEF b
  <2> QED BY <2>1, <2>2
<1>2. Len(s) \in Nat /\ DOMAIN s = 1 .. Len(s)
  OBVIOUS
<1>3. w = [i \in 1 .. Len(s) |-> IF i \in of THEN [s[i] EXCEPT !.lang = lang] ELSE s[i]]
  BY <1>2 DEF WithName
<1>4. w \in [1 .. Len(s) -> OwnAudios(pmt)]
  BY <1>1, <1>3, Zenon
<1> HIDE DEF w
<1>5. w \in Seq(OwnAudios(pmt))
  BY <1>2, <1>4, SeqDef
<1> QED BY <1>5 DEF w

LEMMA NamedSubtitles ==
  ASSUME NEW lang \in Words, NEW s \in Seq(Named), NEW of
  PROVE  WithName(s, of, lang) \in Seq(Named)
<1> DEFINE w == WithName(s, of, lang)
<1>1. ASSUME NEW i \in 1 .. Len(s) PROVE (IF i \in of THEN [s[i] EXCEPT !.lang = lang] ELSE s[i]) \in Named
  <2>1. s[i] \in Named
    OBVIOUS
  <2> QED BY <2>1 DEF Named
<1>2. Len(s) \in Nat /\ DOMAIN s = 1 .. Len(s)
  OBVIOUS
<1>3. w = [i \in 1 .. Len(s) |-> IF i \in of THEN [s[i] EXCEPT !.lang = lang] ELSE s[i]]
  BY <1>2 DEF WithName
<1>4. w \in [1 .. Len(s) -> Named]
  BY <1>1, <1>3, Zenon
<1> HIDE DEF w
<1>5. w \in Seq(Named)
  BY <1>2, <1>4, SeqDef
<1> QED BY <1>5 DEF w

LEMMA OneRoundIs ==
  ASSUME NEW pmt, NEW stream \in Streams, NEW lang \in Words, Gives(pmt, stream.pid, lang),
         NEW acc \in ParserStates(pmt), NEW i
  PROVE  OneRound(stream, lang, acc, i) \in ParserStates(pmt)
<1> DEFINE pid == stream.pid
           audio == acc.pids.audio
           subtitle == acc.pids.subtitle
           names == acc.temp
           here == Mine(audio, pid) \cap {i}
           there == Mine(subtitle, pid)
           isFound == acc.found \/ here \cup there # {}
           audios == WithName(audio, here, lang)
           subtitles == WithName(subtitle, there, lang)
           name == [pid |-> pid, lang |-> lang]
           waits == IF isFound THEN names ELSE Append(names, name)
<1>1. /\ pid \in Nat /\ audio \in Seq(OwnAudios(pmt)) /\ subtitle \in Seq(Named)
      /\ names \in Seq(OwnNames(pmt)) /\ acc.found \in BOOLEAN
  BY DEF Streams, ParserStates, OwnPids
<1>2. here \subseteq Mine(audio, pid)
  OBVIOUS
<1>3. OneRound(stream, lang, acc, i)
        = [acc EXCEPT !.pids.audio = audios, !.pids.subtitle = subtitles, !.found = isFound, !.temp = waits]
  BY Zenon DEF OneRound
<1>4. isFound \in BOOLEAN
  OBVIOUS
<1>5. name \in OwnNames(pmt)
  <2>1. name \in Named /\ name.pid = pid /\ name.lang = lang
    BY <1>1 DEF Named
  <2> HIDE DEF name
  <2> QED BY <2>1 DEF OwnNames
<1>6. Gives(pmt, pid, lang)
  OBVIOUS
<1> HIDE DEF pid, audio, subtitle, names, here, there, isFound, name
<1>7. audios \in Seq(OwnAudios(pmt))
  BY <1>1, <1>2, <1>6, NamedAudios
<1>8. subtitles \in Seq(Named)
  BY <1>1, NamedSubtitles
<1>9. waits \in Seq(OwnNames(pmt))
  BY <1>1, <1>5, AppendProperties
<1> HIDE DEF audios, subtitles, waits
<1>10. [acc EXCEPT !.pids.audio = audios, !.pids.subtitle = subtitles, !.found = isFound, !.temp = waits]
         \in ParserStates(pmt)
  BY <1>4, <1>7, <1>8, <1>9 DEF ParserStates, OwnPids
<1> QED BY <1>3, <1>10

\* All rounds.
LEMMA IsoLanguageIs ==
  ASSUME NEW pmt, NEW st \in ParserStates(pmt), NEW stream \in Streams, NEW lang \in Words,
         Gives(pmt, stream.pid, lang)
  PROVE  Tables!IsoLanguage(st, stream, lang) \in ParserStates(pmt)
<1> DEFINE A == ParserStates(pmt)
           q == [i \in DOMAIN st.pids.audio |-> i]
           n == Len(st.pids.audio)
           base == [st EXCEPT !.found = FALSE]
           Op(a, i) == OneRound(stream, lang, a, q[i])
           F == [x \in A \X (1 .. n) |-> Op(x[1], x[2])]
           All == SUBSET (1 .. n)
           M(S) == Tables!Max(S)
<1>1. n \in Nat /\ DOMAIN q = 1 .. n
  <2>1. st.pids.audio \in Seq(OwnAudios(pmt))
    BY DEF ParserStates, OwnPids
  <2> QED BY <2>1
<1>2. base \in A
  BY DEF ParserStates
<1>3. \A a \in A, i \in 1 .. n : Op(a, i) \in A
  BY OneRoundIs
<1>4. \E g : /\ Tables!IsoLanguage(st, stream, lang) = g[DOMAIN q]
             /\ g = CHOOSE h : h = [S \in SUBSET DOMAIN q |-> IF S = {} THEN base ELSE Op(h[S \ {M(S)}], M(S))]
  BY Zenon DEF Tables!IsoLanguage, Tables!FoldLeft, Tables!MapThenFoldSet, OneRound, Mine, WithName
<1> HIDE DEF A, q, n, base, Op
<1>5. F \in [A \X (1 .. n) -> A] /\ \A a \in A, i \in 1 .. n : F[<<a, i>>] = Op(a, i)
  BY <1>3
<1> HIDE DEF F
<1>6. PICK h : FoldOf(n, A, base, F, h)
  BY <1>1, <1>2, <1>5, FoldExists
<1>7. ASSUME NEW S \in All PROVE h[S] = IF S = {} THEN base ELSE Op(h[S \ {M(S)}], M(S))
  <2>1. S \ {M(S)} \in All
    OBVIOUS
  <2>2. h[S \ {M(S)}] \in A
    BY <1>6, <2>1 DEF FoldOf
  <2> HIDE DEF M
  <2>3. S # {} => h[S] = Op(h[S \ {M(S)}], M(S))
    BY <1>5, <1>6, <2>2, GreatestOfTables DEF FoldOf, M
  <2> QED BY <1>6, <2>3 DEF FoldOf
<1>8. h = [S \in All |-> h[S]]
  BY <1>6 DEF FoldOf
<1> HIDE DEF All, M
<1>9. h = [S \in All |-> IF S = {} THEN base ELSE Op(h[S \ {M(S)}], M(S))]
  BY <1>7, <1>8, Zenon
<1>10. PICK g : /\ Tables!IsoLanguage(st, stream, lang) = g[1 .. n]
                /\ g = [S \in All |-> IF S = {} THEN base ELSE Op(g[S \ {M(S)}], M(S))]
  BY <1>1, <1>4, <1>9, Zenon DEF All
<1>11. g[{}] \in A
  <2>1. {} \in All
    BY DEF All
  <2> QED BY <1>2, <1>10, <2>1
<1>12. ASSUME NEW S \in SUBSET (1 .. n), S # {}, g[S \ {Greatest(S)}] \in A
       PROVE  g[S] = F[<<g[S \ {Greatest(S)}], Greatest(S)>>]
  <2>1. M(S) = Greatest(S)
    BY GreatestOfTables DEF M
  <2>2. Greatest(S) \in 1 .. n
    BY <1>6, <1>12 DEF FoldOf
  <2>3. g[S] = Op(g[S \ {M(S)}], M(S))
    BY <1>10, <1>12 DEF All
  <2> QED BY <1>5, <1>12, <2>1, <2>2, <2>3
<1>13. g[1 .. n] \in A
  BY <1>1, <1>5, <1>11, <1>12, FoldEnds
<1> QED BY <1>10, <1>13 DEF A

\* A descriptor of a stream of that PMT.
LEMMA DescribedIs ==
  ASSUME NEW pmt, NEW st \in ParserStates(pmt), NEW stream \in Streams, NEW d \in Descriptors,
         d.tag = "lang" => Gives(pmt, stream.pid, d.lang)
  PROVE  Tables!Described(st, stream, d) \in ParserStates(pmt)
<1> DEFINE pid == stream.pid
           tag == d.tag
           lang == d.lang
           named == [pid |-> pid, lang |-> lang]
           subtitles == Append(st.pids.subtitle, named)
           lpcm == [pid |-> pid, type |-> "lpcm", lang |-> "UNK"]
           audios == Append(st.pids.audio, lpcm)
<1>1. pid \in Nat /\ tag \in Words /\ lang \in Words
  BY WordsAre DEF Streams, Descriptors
<1>2. st.pids.subtitle \in Seq(Named) /\ st.pids.audio \in Seq(OwnAudios(pmt))
  BY DEF ParserStates, OwnPids
<1>3. /\ tag \in {"ac3", "eac3"} => Tables!Described(st, stream, d) = Tables!Ac3(st, stream, tag)
      /\ tag = "lang" => Tables!Described(st, stream, d) = Tables!IsoLanguage(st, stream, lang)
  BY Zenon DEF Tables!Described
<1>4. tag \notin {"ac3", "eac3", "lang"} =>
        Tables!Described(st, stream, d) \in {st, [st EXCEPT !.pids.teletext = pid],
                                             [st EXCEPT !.pids.subtitle = subtitles],
                                             [st EXCEPT !.pids.audio = audios, !.lpcm = TRUE]}
  BY DEF Tables!Described, Tables!AudioPid, Tables!Unnamed
<1>5. tag = "lang" => Gives(pmt, stream.pid, lang)
  OBVIOUS
<1>6. named \in Named
  BY <1>1 DEF Named
<1>7. lpcm \in OwnAudios(pmt)
  <2>1. lpcm \in Audios /\ lpcm.lang = "UNK"
    BY <1>1, WordsAre DEF Audios
  <2> HIDE DEF lpcm
  <2> QED BY <2>1 DEF OwnAudios
<1> HIDE DEF pid, tag, lang, named, lpcm
<1>8. subtitles \in Seq(Named) /\ audios \in Seq(OwnAudios(pmt))
  BY <1>2, <1>6, <1>7, AppendProperties
<1> HIDE DEF subtitles, audios
<1>9. [st EXCEPT !.pids.teletext = pid] \in ParserStates(pmt)
  BY <1>1 DEF ParserStates, OwnPids
<1>10. [st EXCEPT !.pids.subtitle = subtitles] \in ParserStates(pmt)
  BY <1>8 DEF ParserStates, OwnPids
<1>11. [st EXCEPT !.pids.audio = audios, !.lpcm = TRUE] \in ParserStates(pmt)
  BY <1>8 DEF ParserStates, OwnPids
<1>12. CASE tag \in {"ac3", "eac3"}
  BY <1>1, <1>3, <1>12, Ac3Is
<1>13. CASE tag = "lang"
  BY <1>1, <1>3, <1>5, <1>13, IsoLanguageIs
<1>14. CASE tag \notin {"ac3", "eac3", "lang"}
  BY <1>4, <1>9, <1>10, <1>11, <1>14
<1> QED BY <1>12, <1>13, <1>14

\* A stream, with its descriptors.
LEMMA StreamOfIs ==
  ASSUME NEW pmt \in Seq(Streams), NEW st \in ParserStates(pmt), NEW s \in DOMAIN pmt
  PROVE  Tables!StreamOf(st, pmt[s]) \in ParserStates(pmt)
<1> DEFINE A == ParserStates(pmt)
           stream == pmt[s]
           q == stream.descriptors
           n == Len(q)
           base == Tables!Streamed(st, stream)
           Op(a, i) == Tables!Described(a, stream, q[i])
           F == [x \in A \X (1 .. n) |-> Op(x[1], x[2])]
           All == SUBSET (1 .. n)
           M(S) == Tables!Max(S)
           video == [pid |-> stream.pid, type |-> "mpeg2"]
           ended(a) == IF stream.type = "lpcm" /\ ~a.lpcm
                       THEN [a EXCEPT !.pids.video = Append(@, video)] ELSE a
<1>0. stream \in Streams
  OBVIOUS
<1>1. n \in Nat /\ DOMAIN q = 1 .. n /\ q \in Seq(Descriptors)
  <2>1. q \in Seq(Descriptors)
    BY <1>0 DEF Streams
  <2> QED BY <2>1
<1>2. base \in A
  BY <1>0, StreamedIs
<1>3. \A a \in A, i \in 1 .. n : Op(a, i) \in A
  <2> SUFFICES ASSUME NEW a \in A, NEW i \in 1 .. n PROVE Op(a, i) \in A
    OBVIOUS
  <2>1. q[i].tag = "lang" => Gives(pmt, stream.pid, q[i].lang)
    BY <1>1 DEF Gives
  <2>2. q[i] \in Descriptors
    BY <1>1
  <2> HIDE DEF q, stream, n
  <2> QED BY <1>0, <2>1, <2>2, DescribedIs
<1>4. \E g : /\ Tables!StreamOf(st, stream) = ended(g[DOMAIN q])
             /\ g = CHOOSE h : h = [S \in SUBSET DOMAIN q |-> IF S = {} THEN base ELSE Op(h[S \ {M(S)}], M(S))]
  BY Zenon DEF Tables!StreamOf, Tables!FoldLeft, Tables!MapThenFoldSet
<1>5. ASSUME NEW a \in A PROVE ended(a) \in A
  <2> DEFINE videos == Append(a.pids.video, video)
  <2>1. video \in Videos
    BY <1>0, WordsAre DEF Videos, Streams
  <2> HIDE DEF video
  <2>2. a.pids.video \in Seq(Videos)
    BY DEF ParserStates, OwnPids
  <2>3. videos \in Seq(Videos)
    BY <2>1, <2>2, AppendProperties
  <2>4. ended(a) \in {a, [a EXCEPT !.pids.video = videos]}
    OBVIOUS
  <2> HIDE DEF videos
  <2>5. [a EXCEPT !.pids.video = videos] \in A
    BY <2>3 DEF ParserStates, OwnPids
  <2> HIDE DEF ended
  <2> QED BY <2>4, <2>5
<1> HIDE DEF A, stream, q, n, base, Op, ended
<1>6. F \in [A \X (1 .. n) -> A] /\ \A a \in A, i \in 1 .. n : F[<<a, i>>] = Op(a, i)
  BY <1>3
<1> HIDE DEF F
<1>7. PICK h : FoldOf(n, A, base, F, h)
  BY <1>1, <1>2, <1>6, FoldExists
<1>8. ASSUME NEW S \in All PROVE h[S] = IF S = {} THEN base ELSE Op(h[S \ {M(S)}], M(S))
  <2>1. S \ {M(S)} \in All
    OBVIOUS
  <2>2. h[S \ {M(S)}] \in A
    BY <1>7, <2>1 DEF FoldOf
  <2> HIDE DEF M
  <2>3. S # {} => h[S] = Op(h[S \ {M(S)}], M(S))
    BY <1>6, <1>7, <2>2, GreatestOfTables DEF FoldOf, M
  <2> QED BY <1>7, <2>3 DEF FoldOf
<1>9. h = [S \in All |-> h[S]]
  BY <1>7 DEF FoldOf
<1> HIDE DEF All, M
<1>10. h = [S \in All |-> IF S = {} THEN base ELSE Op(h[S \ {M(S)}], M(S))]
  BY <1>8, <1>9, Zenon
<1>11. PICK g : /\ Tables!StreamOf(st, stream) = ended(g[1 .. n])
                /\ g = [S \in All |-> IF S = {} THEN base ELSE Op(g[S \ {M(S)}], M(S))]
  BY <1>1, <1>4, <1>10, Zenon DEF All
<1>12. g[{}] \in A
  <2>1. {} \in All
    BY DEF All
  <2> QED BY <1>2, <1>11, <2>1
<1>13. ASSUME NEW S \in SUBSET (1 .. n), S # {}, g[S \ {Greatest(S)}] \in A
       PROVE  g[S] = F[<<g[S \ {Greatest(S)}], Greatest(S)>>]
  <2>1. M(S) = Greatest(S)
    BY GreatestOfTables DEF M
  <2>2. Greatest(S) \in 1 .. n
    BY <1>7, <1>13 DEF FoldOf
  <2>3. g[S] = Op(g[S \ {M(S)}], M(S))
    BY <1>11, <1>13 DEF All
  <2> QED BY <1>6, <1>13, <2>1, <2>2, <2>3
<1>14. g[1 .. n] \in A
  BY <1>1, <1>6, <1>12, <1>13, FoldEnds
<1> QED BY <1>5, <1>11, <1>14 DEF A, stream

\* OnNewSection: the languages of the pids are those that the PMT gives.
LEMMA PidsOfIs ==
  ASSUME NEW pmt \in Seq(Streams)
  PROVE  Tables!PidsOf(pmt) \in OwnPids(pmt)
<1> DEFINE A == ParserStates(pmt)
           n == Len(pmt)
           none == [video |-> <<>>, audio |-> <<>>, subtitle |-> <<>>, teletext |-> 0]
           base == [pids |-> none, temp |-> <<>>, found |-> FALSE, lpcm |-> FALSE]
           Op(a, i) == Tables!StreamOf(a, pmt[i])
           F == [x \in A \X (1 .. n) |-> Op(x[1], x[2])]
           All == SUBSET (1 .. n)
           M(S) == Tables!Max(S)
<1>1. n \in Nat /\ DOMAIN pmt = 1 .. n
  OBVIOUS
<1>2. base \in A
  <2>1. none \in OwnPids(pmt)
    BY DEF OwnPids
  <2> HIDE DEF none
  <2> QED BY <2>1 DEF ParserStates
<1>3. \A a \in A, i \in 1 .. n : Op(a, i) \in A
  BY <1>1, StreamOfIs
<1>4. \E g : /\ Tables!PidsOf(pmt) = g[DOMAIN pmt].pids
             /\ g = CHOOSE h : h = [S \in SUBSET DOMAIN pmt |-> IF S = {} THEN base ELSE Op(h[S \ {M(S)}], M(S))]
  BY Zenon DEF Tables!PidsOf, Tables!NoPids, Tables!FoldLeft, Tables!MapThenFoldSet
<1>5. \A a \in A : a.pids \in OwnPids(pmt)
  BY DEF ParserStates
<1> HIDE DEF A, n, base, Op
<1>6. F \in [A \X (1 .. n) -> A] /\ \A a \in A, i \in 1 .. n : F[<<a, i>>] = Op(a, i)
  BY <1>3
<1> HIDE DEF F
<1>7. PICK h : FoldOf(n, A, base, F, h)
  BY <1>1, <1>2, <1>6, FoldExists
<1>8. ASSUME NEW S \in All PROVE h[S] = IF S = {} THEN base ELSE Op(h[S \ {M(S)}], M(S))
  <2>1. S \ {M(S)} \in All
    OBVIOUS
  <2>2. h[S \ {M(S)}] \in A
    BY <1>7, <2>1 DEF FoldOf
  <2> HIDE DEF M
  <2>3. S # {} => h[S] = Op(h[S \ {M(S)}], M(S))
    BY <1>6, <1>7, <2>2, GreatestOfTables DEF FoldOf, M
  <2> QED BY <1>7, <2>3 DEF FoldOf
<1>9. h = [S \in All |-> h[S]]
  BY <1>7 DEF FoldOf
<1> HIDE DEF All, M
<1>10. h = [S \in All |-> IF S = {} THEN base ELSE Op(h[S \ {M(S)}], M(S))]
  BY <1>8, <1>9, Zenon
<1>11. PICK g : /\ Tables!PidsOf(pmt) = g[1 .. n].pids
                /\ g = [S \in All |-> IF S = {} THEN base ELSE Op(g[S \ {M(S)}], M(S))]
  BY <1>1, <1>4, <1>10, Zenon DEF All
<1>12. g[{}] \in A
  <2>1. {} \in All
    BY DEF All
  <2> QED BY <1>2, <1>11, <2>1
<1>13. ASSUME NEW S \in SUBSET (1 .. n), S # {}, g[S \ {Greatest(S)}] \in A
       PROVE  g[S] = F[<<g[S \ {Greatest(S)}], Greatest(S)>>]
  <2>1. M(S) = Greatest(S)
    BY GreatestOfTables DEF M
  <2>2. Greatest(S) \in 1 .. n
    BY <1>7, <1>13 DEF FoldOf
  <2>3. g[S] = Op(g[S \ {M(S)}], M(S))
    BY <1>11, <1>13 DEF All
  <2> QED BY <1>6, <1>13, <2>1, <2>2, <2>3
<1>14. g[1 .. n] \in A
  BY <1>1, <1>6, <1>12, <1>13, FoldEnds
<1> QED BY <1>5, <1>11, <1>14

LEMMA SeqOfMore ==
  ASSUME NEW S, NEW T, \A x \in S : x \in T, NEW s \in Seq(S)
  PROVE  s \in Seq(T)
<1>1. Len(s) \in Nat /\ s \in [1 .. Len(s) -> S]
  OBVIOUS
<1>2. s \in [1 .. Len(s) -> T]
  BY <1>1
<1> QED BY <1>1, <1>2, SeqDef

\* The parsers after the PAT of tune p, with a PMT of one of the tunes up to a or none yet.
AnyPids == [video : Seq(Videos), audio : Seq(Audios), subtitle : Seq(Named), teletext : Nat]
TableOf(t, parser) == t[parser.from].pmts[parser.pid]
Parsers(t, a, p) ==
  {parser \in [pid : Nat, m_isFound : BOOLEAN, m_pidInfo : AnyPids, from : Nat] :
     /\ parser.from \in 0 .. a
     /\ parser.m_isFound => parser.from >= p
     /\ parser.from = 0 => parser.m_pidInfo.audio = <<>>
     /\ \E k \in DOMAIN t[p].pids : t[p].pids[k] = parser.pid
     /\ \A k \in DOMAIN parser.m_pidInfo.audio :
          LET audio == parser.m_pidInfo.audio[k] IN
          audio.lang = "UNK" \/ Gives(TableOf(t, parser), audio.pid, audio.lang)}

TablesInv ==
  /\ Len(tunes) \in 1 .. MaxTunes /\ tunes \in Seq(Channels)
  /\ at \in 1 .. Len(tunes) /\ patOf \in 0 .. at
  /\ m_iPatTableVersion = IF patOf = 0 THEN -1 ELSE patOf
  /\ IF patOf = 0 THEN m_pmtParsers = <<>> ELSE m_pmtParsers \in Seq(Parsers(tunes, at, patOf))

\* What has ended the wait is no older than the PAT that was the last one then.
WaitInv ==
  /\ endedBy \in [pat : Nat, table : Nat]
  /\ m_bGotNewChannel => endedBy.table # 0 /\ endedBy.pat <= endedBy.table /\ endedBy.table <= Len(tunes)

LEMMA TunesAre ==
  ASSUME TablesInv
  PROVE  /\ at \in Nat /\ patOf \in Nat /\ at % Versions = at /\ tunes[at].pids \in Seq(Nat)
         /\ \A pid \in DOMAIN tunes[at].pmts : pid \in Nat /\ tunes[at].pmts[pid] \in Seq(Streams)
<1>1. at \in Nat /\ patOf \in Nat /\ at <= MaxTunes /\ MaxTunes \in Nat /\ Versions \in Nat /\ MaxTunes < Versions
  BY TablesAssumption DEF TablesInv
<1>2. at % Versions = at
  BY <1>1
<1>3. tunes[at] \in Channels
  BY DEF TablesInv
<1> QED BY <1>1, <1>2, <1>3, TablesAssumption DEF Streams, Descriptors

LEMMA ListedIs ==
  ASSUME NEW pids \in Seq(Nat)
  PROVE  Tables!Listed(pids) \in Seq(Nat) /\ \A i \in DOMAIN Tables!Listed(pids) : \E k \in DOMAIN pids : Tables!Listed(pids)[i] = pids[k]
<1> DEFINE invalid == {i \in DOMAIN pids : pids[i] < 16 \/ pids[i] >= 8191}
           first == CHOOSE i \in invalid : \A j \in invalid : i <= j
           q == Tables!Listed(pids)
<1>1. q = IF invalid = {} THEN pids ELSE SubSeq(pids, 1, first - 1)
  BY DEF Tables!Listed, q, invalid, first
<1>2. ASSUME invalid # {} PROVE first \in 1 .. Len(pids)
  <2>1. invalid \subseteq Nat /\ invalid \subseteq 1 .. Len(pids)
    OBVIOUS
  <2> HIDE DEF invalid
  <2>2. \E i \in invalid : \A j \in invalid : i <= j
    BY <1>2, <2>1, LeastOf
  <2>3. first \in invalid
    BY <2>2
  <2> HIDE DEF first
  <2> QED BY <2>1, <2>3
<1> HIDE DEF q, first, invalid
<1>3. CASE invalid = {}
  <2>1. q = pids
    BY <1>1, <1>3
  <2>2. q \in Seq(Nat) /\ \A i \in DOMAIN q : \E k \in DOMAIN pids : q[i] = pids[k]
    BY <2>1
  <2> QED BY <2>2 DEF q
<1>4. CASE invalid # {}
  <2>1. q = SubSeq(pids, 1, first - 1) /\ first \in 1 .. Len(pids)
    BY <1>1, <1>2, <1>4
  <2>2. /\ q \in Seq(Nat) /\ Len(q) = IF 1 <= first - 1 THEN first - 1 - 1 + 1 ELSE 0
        /\ \A i \in 1 .. first - 1 - 1 + 1 : q[i] = pids[1 + i - 1]
    <3>1. (\A i \in 1 .. first - 1 : pids[i] \in Nat) /\ first - 1 \in Int
      BY <2>1
    <3> QED BY <2>1, <3>1, SubSeqProperties
  <2>3. ASSUME NEW i \in DOMAIN q PROVE \E k \in DOMAIN pids : q[i] = pids[k]
    <3>1. i \in 1 .. Len(q) /\ Len(pids) \in Nat /\ DOMAIN pids = 1 .. Len(pids)
      BY <2>2, <2>3
    <3>2. i \in 1 .. first - 1 - 1 + 1 /\ 1 + i - 1 = i /\ i \in 1 .. Len(pids)
      BY <2>1, <2>2, <3>1
    <3> QED BY <2>2, <3>1, <3>2
  <2> QED BY <2>2, <2>3 DEF q
<1> QED BY <1>3, <1>4

\* CPatParser::OnNewSection: the parsers listen to pids that the PAT lists.
LEMMA WithPatIs ==
  ASSUME NEW P, NEW pat, pat.pids \in Seq(Nat), \A k \in DOMAIN pat.pids : Tables!NewParser(pat.pids[k]) \in P,
         pat.version = m_iPatTableVersion => m_pmtParsers \in Seq(P)
  PROVE  Tables!WithPat(m_pmtParsers, pat) \in Seq(P)
<1> DEFINE A == Seq(P)
           q == Tables!Listed(pat.pids)
           n == Len(q)
           base == IF pat.version = m_iPatTableVersion THEN m_pmtParsers ELSE <<>>
           Op(a, i) == IF \E j \in DOMAIN a : a[j].pid = q[i] THEN a ELSE Append(a, Tables!NewParser(q[i]))
           F == [x \in A \X (1 .. n) |-> Op(x[1], x[2])]
           All == SUBSET (1 .. n)
           M(S) == Tables!Max(S)
<1>1. n \in Nat /\ DOMAIN q = 1 .. n /\ \A i \in 1 .. n : \E k \in DOMAIN pat.pids : q[i] = pat.pids[k]
  <2>1. q \in Seq(Nat) /\ \A i \in DOMAIN q : \E k \in DOMAIN pat.pids : q[i] = pat.pids[k]
    BY ListedIs
  <2> HIDE DEF q
  <2> QED BY <2>1
<1>2. base \in A
  BY EmptySeq
<1>3. \E g : /\ Tables!WithPat(m_pmtParsers, pat) = g[DOMAIN q]
             /\ g = CHOOSE h : h = [S \in SUBSET DOMAIN q |-> IF S = {} THEN base ELSE Op(h[S \ {M(S)}], M(S))]
  BY Zenon DEF Tables!WithPat, Tables!CleanUp, Tables!FoldLeft, Tables!MapThenFoldSet
<1> HIDE DEF q, n, base
<1>4. \A a \in A, i \in 1 .. n : Op(a, i) \in A
  <2> SUFFICES ASSUME NEW a \in A, NEW i \in 1 .. n PROVE Op(a, i) \in A
    OBVIOUS
  <2> DEFINE new == Tables!NewParser(q[i])
  <2>1. new \in P
    BY <1>1
  <2> HIDE DEF new
  <2>2. Append(a, new) \in A
    BY <2>1, AppendProperties
  <2> QED BY <2>2 DEF new
<1> HIDE DEF A, Op
<1>5. F \in [A \X (1 .. n) -> A] /\ \A a \in A, i \in 1 .. n : F[<<a, i>>] = Op(a, i)
  BY <1>4
<1> HIDE DEF F
<1>6. PICK h : FoldOf(n, A, base, F, h)
  BY <1>1, <1>2, <1>5, FoldExists
<1>7. ASSUME NEW S \in All PROVE h[S] = IF S = {} THEN base ELSE Op(h[S \ {M(S)}], M(S))
  <2>1. S \ {M(S)} \in All
    OBVIOUS
  <2>2. h[S \ {M(S)}] \in A
    BY <1>6, <2>1 DEF FoldOf
  <2> HIDE DEF M
  <2>3. S # {} => h[S] = Op(h[S \ {M(S)}], M(S))
    BY <1>5, <1>6, <2>2, GreatestOfTables DEF FoldOf, M
  <2> QED BY <1>6, <2>3 DEF FoldOf
<1>8. h = [S \in All |-> h[S]]
  BY <1>6 DEF FoldOf
<1> HIDE DEF All, M
<1>9. h = [S \in All |-> IF S = {} THEN base ELSE Op(h[S \ {M(S)}], M(S))]
  BY <1>7, <1>8, Zenon
<1>10. PICK g : /\ Tables!WithPat(m_pmtParsers, pat) = g[1 .. n]
                /\ g = [S \in All |-> IF S = {} THEN base ELSE Op(g[S \ {M(S)}], M(S))]
  BY <1>1, <1>3, <1>9, Zenon DEF All
<1>11. g[{}] \in A
  <2>1. {} \in All
    BY DEF All
  <2> QED BY <1>2, <1>10, <2>1
<1>12. ASSUME NEW S \in SUBSET (1 .. n), S # {}, g[S \ {Greatest(S)}] \in A
       PROVE  g[S] = F[<<g[S \ {Greatest(S)}], Greatest(S)>>]
  <2>1. M(S) = Greatest(S)
    BY GreatestOfTables DEF M
  <2>2. Greatest(S) \in 1 .. n
    BY <1>6, <1>12 DEF FoldOf
  <2>3. g[S] = Op(g[S \ {M(S)}], M(S))
    BY <1>10, <1>12 DEF All
  <2> QED BY <1>5, <1>12, <2>1, <2>2, <2>3
<1>13. g[1 .. n] \in A
  BY <1>1, <1>5, <1>11, <1>12, FoldEnds
<1> QED BY <1>10, <1>13 DEF A

\* The tunes and the place grow; what the parsers hold stays theirs.
LEMMA ParsersStay ==
  ASSUME TablesInv, patOf # 0, NEW t, NEW b \in Nat, b >= at, \A j \in 1 .. Len(tunes) : t[j] = tunes[j]
  PROVE  m_pmtParsers \in Seq(Parsers(t, b, patOf))
<1>1. /\ at \in Nat /\ patOf \in 1 .. Len(tunes) /\ at <= Len(tunes) /\ Len(tunes) \in Nat
      /\ m_pmtParsers \in Seq(Parsers(tunes, at, patOf))
  BY DEF TablesInv
<1>2. ASSUME NEW parser \in Parsers(tunes, at, patOf) PROVE parser \in Parsers(t, b, patOf)
  <2>1. /\ parser \in [pid : Nat, m_isFound : BOOLEAN, m_pidInfo : AnyPids, from : Nat]
        /\ parser.from \in 0 .. at /\ (parser.m_isFound => parser.from >= patOf)
        /\ parser.from = 0 => parser.m_pidInfo.audio = <<>>
        /\ \E k \in DOMAIN tunes[patOf].pids : tunes[patOf].pids[k] = parser.pid
        /\ \A k \in DOMAIN parser.m_pidInfo.audio :
             \/ parser.m_pidInfo.audio[k].lang = "UNK"
             \/ Gives(TableOf(tunes, parser), parser.m_pidInfo.audio[k].pid, parser.m_pidInfo.audio[k].lang)
    BY DEF Parsers
  <2>2. t[patOf] = tunes[patOf]
    BY <1>1
  <2>3. parser.from \in 0 .. b
    BY <1>1, <2>1
  <2>4. ASSUME NEW k \in DOMAIN parser.m_pidInfo.audio
        PROVE  \/ parser.m_pidInfo.audio[k].lang = "UNK"
               \/ Gives(TableOf(t, parser), parser.m_pidInfo.audio[k].pid, parser.m_pidInfo.audio[k].lang)
    <3>1. parser.from # 0
      <4>1. DOMAIN <<>> = {}
        OBVIOUS
      <4> QED BY <2>1, <2>4, <4>1
    <3>2. t[parser.from] = tunes[parser.from]
      BY <1>1, <2>1, <3>1
    <3>3. TableOf(t, parser) = TableOf(tunes, parser)
      BY <3>2 DEF TableOf
    <3> QED BY <2>1, <2>4, <3>3
  <2> QED BY <2>1, <2>2, <2>3, <2>4 DEF Parsers
<1> QED BY <1>1, <1>2, SeqOfMore

LEMMA PmtKeeps ==
  ASSUME TablesInv, NEW pid \in DOMAIN tunes[at].pmts, Tables!Pmt(pid), UNCHANGED <<tunes, at>>
  PROVE  TablesInv'
<1> DEFINE pmt == tunes[at].pmts[pid]
           info == Tables!PidsOf(pmt)
<1>1. pid \in Nat /\ pmt \in Seq(Streams) /\ at \in Nat /\ patOf \in 0 .. at
  BY TunesAre DEF TablesInv
<1> HIDE DEF info
<1>2. info \in OwnPids(pmt)
  BY <1>1, PidsOfIs DEF info
<1>3. /\ UNCHANGED <<tunes, at, m_iPatTableVersion, patOf>>
      /\ m_pmtParsers' = [i \in DOMAIN m_pmtParsers |->
                            IF m_pmtParsers[i].pid # pid THEN m_pmtParsers[i]
                            ELSE [m_pmtParsers[i] EXCEPT !.m_isFound = TRUE, !.from = at, !.m_pidInfo = info]]
  BY DEF Tables!Pmt, Tables!WithPmt, info
<1>4. CASE patOf = 0
  <2>1. m_pmtParsers = <<>> /\ DOMAIN m_pmtParsers = {}
    BY <1>4 DEF TablesInv
  <2>2. m_pmtParsers' = <<>>
    BY <1>3, <2>1
  <2> QED BY <1>3, <1>4, <2>2 DEF TablesInv
<1>5. CASE patOf # 0
  <2> DEFINE P == Parsers(tunes, at, patOf)
             new(parser) == IF parser.pid # pid THEN parser
                            ELSE [parser EXCEPT !.m_isFound = TRUE, !.from = at, !.m_pidInfo = info]
  <2>1. m_pmtParsers \in Seq(P)
    BY <1>5 DEF TablesInv
  <2>2. ASSUME NEW parser \in P, parser.pid = pid
        PROVE  [parser EXCEPT !.m_isFound = TRUE, !.from = at, !.m_pidInfo = info] \in P
    <3> DEFINE next == [parser EXCEPT !.m_isFound = TRUE, !.from = at, !.m_pidInfo = info]
    <3>1. /\ parser \in [pid : Nat, m_isFound : BOOLEAN, m_pidInfo : AnyPids, from : Nat]
          /\ \E k \in DOMAIN tunes[patOf].pids : tunes[patOf].pids[k] = parser.pid
      BY DEF Parsers
    <3>2. info \in AnyPids
      <4>1. OwnAudios(pmt) \subseteq Audios
        BY DEF OwnAudios
      <4>2. info.audio \in Seq(OwnAudios(pmt))
        BY <1>2 DEF OwnPids
      <4>3. info.audio \in Seq(Audios)
        BY <4>1, <4>2, SeqOfMore
      <4> QED BY <1>2, <4>3 DEF OwnPids, AnyPids
    <3>3. \A k \in DOMAIN info.audio : info.audio[k].lang = "UNK" \/ Gives(pmt, info.audio[k].pid, info.audio[k].lang)
      <4>1. info.audio \in Seq(OwnAudios(pmt))
        BY <1>2 DEF OwnPids
      <4>2. \A k \in DOMAIN info.audio : info.audio[k] \in OwnAudios(pmt)
        BY <4>1
      <4> QED BY <4>2 DEF OwnAudios
    <3>4. /\ next \in [pid : Nat, m_isFound : BOOLEAN, m_pidInfo : AnyPids, from : Nat]
          /\ next.pid = pid /\ next.from = at /\ next.m_pidInfo = info
      BY <1>1, <2>2, <3>1, <3>2
    <3> HIDE DEF next
    <3>5. TableOf(tunes, next) = pmt
      BY <3>4 DEF TableOf
    <3>6. at >= patOf /\ at \in 0 .. at /\ at # 0
      BY <1>1, <1>5
    <3> HIDE DEF pmt
    <3>7. next \in P
      BY <2>2, <3>1, <3>3, <3>4, <3>5, <3>6 DEF Parsers
    <3> QED BY <3>7 DEF next
  <2> HIDE DEF P
  <2>3. \A i \in 1 .. Len(m_pmtParsers) : new(m_pmtParsers[i]) \in P
    <3>1. \A parser \in P : new(parser) \in P
      BY <2>2
    <3>2. \A i \in 1 .. Len(m_pmtParsers) : m_pmtParsers[i] \in P
      BY <2>1
    <3> HIDE DEF new
    <3> QED BY <3>1, <3>2
  <2>4. Len(m_pmtParsers) \in Nat /\ DOMAIN m_pmtParsers = 1 .. Len(m_pmtParsers)
    BY <2>1
  <2>5. m_pmtParsers' = [i \in 1 .. Len(m_pmtParsers) |-> new(m_pmtParsers[i])]
    BY <1>3, <2>4, Zenon
  <2> HIDE DEF new
  <2>6. m_pmtParsers' \in [1 .. Len(m_pmtParsers) -> P]
    BY <2>3, <2>5, Zenon
  <2>7. m_pmtParsers' \in Seq(P)
    BY <2>4, <2>6, SeqDef
  <2> QED BY <1>3, <1>5, <2>7 DEF TablesInv, P
<1> QED BY <1>4, <1>5

LEMMA PatKeeps ==
  ASSUME TablesInv, Tables!Pat, UNCHANGED <<tunes, at>>
  PROVE  TablesInv'
<1> DEFINE P == Parsers(tunes, at, at)
           pids == tunes[at].pids
           pat == [version |-> at, pids |-> pids]
<1>1. at \in Nat /\ at # 0 /\ patOf \in Nat /\ at % Versions = at /\ pids \in Seq(Nat)
  BY TunesAre DEF TablesInv
<1>2. /\ m_pmtParsers' = Tables!WithPat(m_pmtParsers, pat)
      /\ m_iPatTableVersion' = at /\ patOf' = at
  BY <1>1 DEF Tables!Pat, Tables!Version
<1>3. at = m_iPatTableVersion => m_pmtParsers \in Seq(P)
  BY <1>1 DEF TablesInv
<1>4. ASSUME NEW k \in DOMAIN pids PROVE Tables!NewParser(pids[k]) \in P
  <2> DEFINE none == [video |-> <<>>, audio |-> <<>>, subtitle |-> <<>>, teletext |-> 0]
             parser == [pid |-> pids[k], m_isFound |-> FALSE, m_pidInfo |-> none, from |-> 0]
  <2>1. Tables!NewParser(pids[k]) = parser
    BY DEF Tables!NewParser, Tables!NoPids
  <2>2. none \in AnyPids /\ none.audio = <<>>
    BY DEF AnyPids
  <2>3. DOMAIN none.audio = {}
    BY <2>2
  <2> HIDE DEF none
  <2>4. pids[k] \in Nat
    BY <1>1
  <2>5. /\ parser \in [pid : Nat, m_isFound : BOOLEAN, m_pidInfo : AnyPids, from : Nat]
        /\ parser.pid = pids[k] /\ parser.from = 0 /\ ~parser.m_isFound /\ parser.m_pidInfo = none
    BY <2>2, <2>4
  <2> HIDE DEF parser
  <2>6. 0 \in 0 .. at
    BY <1>1
  <2>7. \E j \in DOMAIN tunes[at].pids : tunes[at].pids[j] = parser.pid
    BY <2>5
  <2>8. parser \in P
    BY <2>2, <2>3, <2>5, <2>6, <2>7 DEF Parsers
  <2> QED BY <2>1, <2>8
<1>5. pat.version = at /\ pat.pids = pids
  OBVIOUS
<1> HIDE DEF P, pids, pat
<1>6. m_pmtParsers' \in Seq(P)
  BY <1>1, <1>2, <1>3, <1>4, <1>5, WithPatIs
<1>7. at \in 0 .. at
  BY <1>1
<1> QED BY <1>1, <1>2, <1>6, <1>7 DEF TablesInv, P

\* The next channel begins, or the reader zaps.
LEMMA MovesKeep ==
  ASSUME TablesInv, UNCHANGED <<m_iPatTableVersion, m_pmtParsers, patOf>>,
         tunes' \in Seq(Channels), Len(tunes') \in 1 .. MaxTunes, \A j \in 1 .. Len(tunes) : tunes'[j] = tunes[j],
         at' \in at .. Len(tunes')
  PROVE  TablesInv'
<1>1. at \in Nat /\ at # 0 /\ patOf \in 0 .. at /\ at' \in Nat /\ at' >= at /\ at' <= Len(tunes') /\ Len(tunes') \in Nat
  BY DEF TablesInv
<1>2. patOf' \in 0 .. at' /\ at' \in 1 .. Len(tunes')
  BY <1>1
<1>3. ASSUME patOf # 0 PROVE m_pmtParsers \in Seq(Parsers(tunes', at', patOf))
  BY <1>1, <1>3, ParsersStay
<1> QED BY <1>2, <1>3 DEF TablesInv

LEMMA TablesStep ==
  ASSUME TablesInv, Tables!Next \/ UNCHANGED parsers
  PROVE  TablesInv'
<1>1. ASSUME UNCHANGED <<tunes, at, m_iPatTableVersion, m_pmtParsers, patOf>> PROVE TablesInv'
  BY <1>1 DEF TablesInv
<1>2. ASSUME Tables!ReadFromFile PROVE TablesInv'
  <2>1. UNCHANGED <<tunes, at>>
    BY <1>2 DEF Tables!ReadFromFile
  <2>2. CASE Tables!OtherPacket
    BY <1>1, <2>1, <2>2 DEF Tables!OtherPacket
  <2> QED BY <1>2, <2>1, <2>2, PmtKeeps, PatKeeps DEF Tables!ReadFromFile
<1>3. ASSUME Tables!NextTune PROVE TablesInv'
  <2>1. UNCHANGED <<tunes, m_iPatTableVersion, m_pmtParsers, patOf>> /\ at < Len(tunes) /\ at' = at + 1
    BY <1>3 DEF Tables!NextTune
  <2>2. at \in Nat /\ Len(tunes) \in 1 .. MaxTunes /\ tunes \in Seq(Channels)
    BY DEF TablesInv
  <2>3. at' \in at .. Len(tunes)
    BY <2>1, <2>2
  <2> QED BY <2>1, <2>2, <2>3, MovesKeep
<1>4. ASSUME Tables!WaitEnds PROVE TablesInv'
  BY <1>1, <1>4 DEF Tables!WaitEnds
<1>5. ASSUME NEW channel \in Channels, NEW to \in 1 .. MaxTunes, Tables!Zap(channel, to) PROVE TablesInv'
  <2>1. /\ UNCHANGED <<m_iPatTableVersion, m_pmtParsers, patOf>> /\ Len(tunes) < MaxTunes
        /\ tunes' = Append(tunes, channel) /\ to \in at .. Len(tunes) + 1 /\ at' = to
    BY <1>5 DEF Tables!Zap
  <2>2. at \in Nat /\ Len(tunes) \in Nat /\ tunes \in Seq(Channels) /\ MaxTunes \in Nat
    BY TablesAssumption DEF TablesInv
  <2>3. /\ tunes' \in Seq(Channels) /\ Len(tunes') = Len(tunes) + 1
        /\ \A j \in 1 .. Len(tunes) : tunes'[j] = tunes[j]
    BY <2>1, <2>2, AppendProperties
  <2>4. Len(tunes') \in 1 .. MaxTunes
    BY <2>1, <2>2, <2>3
  <2> QED BY <2>1, <2>3, <2>4, MovesKeep
<1>6. CASE UNCHANGED parsers
  BY <1>1, <1>6 DEF parsers
<1> QED BY <1>2, <1>3, <1>4, <1>5, <1>6 DEF Tables!Next

\* CPatParser::OnTsPacket calls OnNewChannel back for a parser that is ready: after this packet
\* it has a table of the last PAT's tune or of a later one.
LEMMA WaitStep ==
  ASSUME TablesInv, TablesInv', WaitInv, Tables!Next \/ UNCHANGED parsers
  PROVE  WaitInv'
<1>1. ASSUME UNCHANGED endedBy, m_bGotNewChannel' => m_bGotNewChannel, Len(tunes') >= Len(tunes) PROVE WaitInv'
  <2>1. Len(tunes) \in Nat /\ Len(tunes') \in Nat
    BY DEF TablesInv
  <2> QED BY <1>1, <2>1 DEF WaitInv
<1>2. ASSUME Tables!ReadFromFile PROVE WaitInv'
  <2> DEFINE ready == IF Tables!Idle THEN {} ELSE {i \in DOMAIN m_pmtParsers' : m_pmtParsers'[i].m_isFound}
             first == CHOOSE i \in ready : \A j \in ready : i <= j
  <2>1. /\ UNCHANGED <<tunes, at>>
        /\ m_bGotNewChannel' = (m_bGotNewChannel \/ ready # {})
        /\ endedBy' = IF m_bGotNewChannel \/ ready = {} THEN endedBy
                      ELSE [pat |-> patOf', table |-> m_pmtParsers'[first].from]
    BY <1>2, Zenon DEF Tables!ReadFromFile, Tables!CallBack
  <2>2. at \in Nat /\ at <= Len(tunes) /\ Len(tunes) \in Nat /\ patOf' \in 0 .. at /\ at' = at
    BY <2>1 DEF TablesInv
  <2>3. CASE m_bGotNewChannel \/ ready = {}
    <3>1. UNCHANGED <<endedBy, tunes>> /\ (m_bGotNewChannel' => m_bGotNewChannel)
      BY <2>1, <2>3, Zenon
    <3> QED BY <1>1, <2>2, <3>1
  <2>4. CASE ~(m_bGotNewChannel \/ ready = {})
    <3>1. ready \subseteq DOMAIN m_pmtParsers' /\ \A i \in ready : m_pmtParsers'[i].m_isFound
      OBVIOUS
    <3>2. patOf' # 0
      <4>1. SUFFICES ASSUME patOf' = 0 PROVE FALSE
        BY <2>2
      <4>2. m_pmtParsers' = <<>> /\ DOMAIN <<>> = {}
        BY <4>1 DEF TablesInv
      <4> QED BY <2>4, <3>1, <4>2
    <3>3. m_pmtParsers' \in Seq(Parsers(tunes', at', patOf'))
      BY <3>2 DEF TablesInv
    <3>4. Len(m_pmtParsers') \in Nat /\ DOMAIN m_pmtParsers' = 1 .. Len(m_pmtParsers')
      BY <3>3
    <3>5. ready # {} /\ ready \subseteq Nat
      BY <2>4, <3>1, <3>4
    <3> HIDE DEF ready
    <3>6. first \in ready
      BY <3>5, LeastOf
    <3> HIDE DEF first
    <3>7. m_pmtParsers'[first] \in Parsers(tunes', at', patOf') /\ m_pmtParsers'[first].m_isFound
      BY <3>1, <3>3, <3>6
    <3>8. /\ m_pmtParsers'[first].from \in 0 .. at /\ m_pmtParsers'[first].from >= patOf'
      BY <2>2, <3>7 DEF Parsers
    <3>9. endedBy' = [pat |-> patOf', table |-> m_pmtParsers'[first].from]
      BY <2>1, <2>4
    <3>10. endedBy'.pat = patOf' /\ endedBy'.table = m_pmtParsers'[first].from
           /\ endedBy' \in [pat : Nat, table : Nat]
      BY <2>2, <3>8, <3>9
    <3>11. endedBy'.table # 0 /\ endedBy'.pat <= endedBy'.table /\ endedBy'.table <= Len(tunes')
      BY <2>1, <2>2, <3>2, <3>8, <3>10
    <3> QED BY <3>10, <3>11 DEF WaitInv
  <2> QED BY <2>3, <2>4
<1>3. ASSUME NEW channel \in Channels, NEW to \in 1 .. MaxTunes, Tables!Zap(channel, to) PROVE WaitInv'
  <2>1. m_bGotNewChannel' = FALSE /\ endedBy' = [pat |-> 0, table |-> 0]
    BY <1>3 DEF Tables!Zap, Tables!NotEnded
  <2> QED BY <2>1 DEF WaitInv
<1>4. Len(tunes) \in Nat
  BY DEF TablesInv
<1>5. ASSUME Tables!NextTune \/ Tables!WaitEnds PROVE WaitInv'
  <2>1. UNCHANGED <<tunes, endedBy, m_bGotNewChannel>>
    BY <1>5 DEF Tables!NextTune, Tables!WaitEnds
  <2> QED BY <1>1, <1>4, <2>1
<1>6. CASE UNCHANGED parsers
  <2>1. UNCHANGED <<tunes, endedBy, m_bGotNewChannel>>
    BY <1>6 DEF parsers
  <2> QED BY <1>1, <1>4, <2>1
<1> QED BY <1>2, <1>3, <1>5, <1>6 DEF Tables!Next

LEMMA TablesInvIsEnough ==
  ASSUME TablesInv, WaitInv
  PROVE  Tables!TablesAreTheChannels
<1>3. Tables!WaitEndsByNewest
  <2>1. Len(tunes) \in Nat
    BY DEF TablesInv
  <2> QED BY <2>1 DEF WaitInv, Tables!WaitEndsByNewest
<1> SUFFICES ASSUME NEW i \in DOMAIN m_pmtParsers
             PROVE  /\ m_pmtParsers[i].m_isFound => m_pmtParsers[i].from >= patOf
                    /\ \E k \in DOMAIN tunes[patOf].pids : tunes[patOf].pids[k] = m_pmtParsers[i].pid
                    /\ \A k \in DOMAIN m_pmtParsers[i].m_pidInfo.audio :
                         \/ m_pmtParsers[i].m_pidInfo.audio[k].lang = "UNK"
                         \/ Gives(TableOf(tunes, m_pmtParsers[i]), m_pmtParsers[i].m_pidInfo.audio[k].pid,
                                  m_pmtParsers[i].m_pidInfo.audio[k].lang)
  BY <1>3, Zenon DEF Tables!TablesAreTheChannels, Tables!TablesOfOneChannel, Tables!LanguagesBelong, Tables!Unnamed,
               Gives, TableOf
<1>1. patOf # 0
  BY DEF TablesInv
<1>2. m_pmtParsers[i] \in Parsers(tunes, at, patOf)
  BY <1>1 DEF TablesInv
<1> QED BY <1>2 DEF Parsers

LEMMA TablesOnly ==
  ASSUME part = "tables", [InputNext]_inputVars
  PROVE  part' = "tables" /\ (Tables!Next \/ UNCHANGED parsers)
BY DEF InputNext, inputVars, Others

\* CPatParser, CPmtParser: however the tunes and the tables in the stream follow each other, no
\* parser is left of the channel before the last PAT, none of that channel ends a wait of
\* RequestNewPat, and a language that OnNewSection gives a stream is one that the PMT gives that
\* stream.  Until the PAT of a new channel has come, the tables are those of the one before.
THEOREM ChannelsKeepTheirTables == InputSpec => []TablesAreTheChannels
<1> DEFINE Inv == part = "tables" => TablesInv /\ WaitInv
<1>1. InputInit => Inv
  <2> SUFFICES ASSUME Tables!Init PROVE TablesInv /\ WaitInv
    BY DEF InputInit
  <2>1. PICK channel \in Channels : tunes = <<channel>>
    BY DEF Tables!Init
  <2>2. at = 1 /\ patOf = 0 /\ m_iPatTableVersion = -1 /\ m_pmtParsers = <<>>
        /\ m_bGotNewChannel = FALSE /\ endedBy = [pat |-> 0, table |-> 0]
    BY DEF Tables!Init, Tables!NoVersion, Tables!NotEnded
  <2>3. tunes \in Seq(Channels) /\ Len(tunes) = 1
    BY <2>1
  <2>4. WaitInv
    BY <2>2 DEF WaitInv
  <2> QED BY <2>2, <2>3, <2>4, TablesAssumption DEF TablesInv
<1>2. Inv /\ [InputNext]_inputVars => Inv'
  <2> SUFFICES ASSUME Inv, [InputNext]_inputVars, part' = "tables" PROVE TablesInv' /\ WaitInv'
    OBVIOUS
  <2>1. part = "tables"
    BY DEF InputNext, inputVars, Others
  <2> QED BY <2>1, TablesOnly, TablesStep, WaitStep
<1>3. Inv => TablesAreTheChannels
  BY TablesInvIsEnough DEF TablesAreTheChannels
<1> QED BY <1>1, <1>2, <1>3, PTL DEF InputSpec

=============================================================================
