-------------------------- MODULE Connection_proofs --------------------------
(***************************************************************************)
(* The connection and its reliable stream, for every size of the map and   *)
(* every bound on the network.                                             *)
(*                                                                         *)
(* What a position of the stream holds depends on the position alone       *)
(* (Expected), so the invariant says of the stream, of every packet on the *)
(* way and of what the client has copied that they hold what is expected   *)
(* at their place; and it orders the four positions: acknowledged, copied, *)
(* sent, written.  How much is written follows from the state of the       *)
(* server, and what the client asks for from how much it has read.         *)
(***************************************************************************)
EXTENDS Connection, SequenceTheorems, TLAPS

Message == [kind : {"verified", "map", "started", "news"}, n : Int]

(* s is the part of the stream behind position from. *)
AsExpected(s, from) ==
  /\ s \in Seq(Message)
  /\ \A i \in 1..Len(s) : s[i] = Expected(from + i)

Positions ==
  /\ offset \in Nat /\ unsent \in Nat
  /\ offset <= Len(received)
  /\ Len(received) <= unsent
  /\ unsent <= Len(stream)

PacketRight(p, limit) ==
  /\ p.rel \in Nat
  /\ AsExpected(p.units, p.rel)
  /\ p.rel + Len(p.units) <= limit

TimerRight ==
  /\ timer \in {"off", "running", "due"}
  /\ timer = "off" => unsent = offset

StreamInv ==
  /\ AsExpected(stream, 0)
  /\ AsExpected(received, 0)
  /\ \A p \in data : PacketRight(p, unsent)
  /\ \A rel \in ackSet : rel \in Nat /\ rel <= Len(received)
  /\ Positions
  /\ window \in 0..MaxAcks
  /\ TimerRight

(* How much the server has written, and where it goes from a drain. *)
Life ==
  /\ setup \in 0..SetupSize
  /\ reason \notin {"bad ack", "undefined packet"}
  /\ \/ state = "listening" /\ drainState = "free" /\ setup = 0 /\ Len(stream) = 0
     \/ state = "drain" /\ drainState = "setup" /\ setup = 0 /\ Len(stream) = 1
     \/ state = "setup" /\ drainState = "setup" /\ Len(stream) = 1 + setup
     \/ state = "drain" /\ drainState = "login" /\ Len(stream) = Prologue
     \/ state = "login" /\ drainState = "login" /\ Len(stream) = Prologue
     \/ /\ state \in {"ready", "playing"} /\ drainState = "playing"
        /\ Len(stream) > Prologue /\ Len(received) >= Prologue
     \/ state = "free" /\ drainState = "free"

(* What the client has read, and has asked for. *)
Reading ==
  /\ phase \in {PhaseWith(Len(received)), "closed"}
  /\ requests \subseteq Requests
  /\ "play" \in requests => Len(received) >= Prologue
  /\ "keys" \in requests => Len(received) > Prologue

Inv == StreamInv /\ Life /\ Reading
-----------------------------------------------------------------------------
(* Sequences. *)

LEMMA Constants == /\ MaxPacket \in Nat /\ MaxPacket > 0
                   /\ SetupSize \in Nat /\ SetupSize > 0 /\ 0 \in 0..SetupSize
                   /\ SetupChunk \in Nat /\ SetupChunk > 0
                   /\ MaxAcks \in Nat
                   /\ Prologue \in Nat /\ Prologue = 1 + SetupSize
  BY StreamAssumption, ConnectionAssumption DEF Prologue

LEMMA SmallerLarger ==
  \A a, b \in Int : /\ Smaller(a, b) \in {a, b} /\ Smaller(a, b) <= a /\ Smaller(a, b) <= b
                    /\ Larger(a, b) \in {a, b} /\ Larger(a, b) >= a /\ Larger(a, b) >= b
  BY DEF Smaller, Larger

LEMMA ExpectedAt ==
  /\ Expected(1) = Verified
  /\ \A i \in Int : i > 1 /\ i <= Prologue => Expected(i) = MapUnit(i - 1)
  /\ Expected(Prologue + 1) = Started
  /\ \A i \in Int : i > Prologue + 1 => Expected(i) = News(i - Prologue - 2)
  BY Constants DEF Expected

LEMMA AppendExpected ==
  ASSUME NEW s, NEW t, NEW k \in Nat, AsExpected(s, k), AsExpected(t, k + Len(s))
  PROVE  AsExpected(s \o t, k) /\ Len(s \o t) = Len(s) + Len(t)
<1>. USE DEF AsExpected
<1>1. s \in Seq(Message) /\ t \in Seq(Message) /\ Len(s) \in Nat /\ Len(t) \in Nat
  OBVIOUS
<1>2. /\ s \o t \in Seq(Message)
      /\ Len(s \o t) = Len(s) + Len(t)
      /\ \A i \in 1..Len(s) + Len(t) : (s \o t)[i] = IF i <= Len(s) THEN s[i] ELSE t[i - Len(s)]
  BY <1>1, ConcatProperties
<1>3. ASSUME NEW i \in 1..Len(s \o t) PROVE (s \o t)[i] = Expected(k + i)
  <2>1. CASE i <= Len(s)
    BY <2>1, <1>1, <1>2
  <2>2. CASE i > Len(s)
    <3>1. i - Len(s) \in 1..Len(t) /\ (k + Len(s)) + (i - Len(s)) = k + i
      BY <2>2, <1>1, <1>2
    <3>2. (s \o t)[i] = t[i - Len(s)]
      BY <2>2, <1>1, <1>2
    <3>. QED  BY <3>1, <3>2
  <2>. QED  BY <2>1, <2>2, <1>1
<1>. QED  BY <1>2, <1>3

LEMMA PartExpected ==
  ASSUME NEW s, NEW k \in Nat, AsExpected(s, k),
         NEW a \in Nat, NEW n \in Nat, a + n <= Len(s)
  PROVE  /\ AsExpected(SubSeq(s, a + 1, a + n), k + a)
         /\ Len(SubSeq(s, a + 1, a + n)) = n
<1>. USE DEF AsExpected
<1>0. s \in Seq(Message) /\ Len(s) \in Nat
  OBVIOUS
<1>. DEFINE t == SubSeq(s, a + 1, a + n)
<1>1. /\ t \in Seq(Message)
      /\ Len(t) = IF a + 1 <= a + n THEN (a + n) - (a + 1) + 1 ELSE 0
      /\ \A i \in 1..((a + n) - (a + 1) + 1) : t[i] = s[(a + 1) + i - 1]
  BY <1>0, SubSeqProperties
<1>2. Len(t) = n
  BY <1>1
<1>3. ASSUME NEW i \in 1..n PROVE t[i] = Expected((k + a) + i)
  <2>1. t[i] = s[a + i]
    <3>1. (a + 1) + i - 1 = a + i /\ i \in 1..((a + n) - (a + 1) + 1)
      OBVIOUS
    <3>. QED  BY <3>1, <1>1
  <2>2. a + i \in 1..Len(s) /\ k + (a + i) = (k + a) + i
    BY <1>0
  <2>. QED  BY <2>1, <2>2
<1>. QED  BY <1>1, <1>2, <1>3
-----------------------------------------------------------------------------
(* Sending. *)

LEMMA BurstPlaces ==
  ASSUME NEW todo \in Nat, NEW count \in Nat, count <= PacketsIn(todo), NEW i \in 0..count - 1
  PROVE  /\ i * MaxPacket \in Nat
         /\ i * MaxPacket < todo
         /\ i * MaxPacket + MaxPacket <= count * MaxPacket
<1>. DEFINE q == PacketsIn(todo)
<1>1. q \in Nat /\ MaxPacket * q <= todo + MaxPacket - 1
  BY Constants DEF PacketsIn
<1>. HIDE DEF q
<1>2. i * MaxPacket + MaxPacket <= count * MaxPacket
  <2>1. count - (i + 1) \in Nat /\ (count - (i + 1)) * MaxPacket >= 0
    BY Constants
  <2>. QED  BY <2>1, Constants
<1>3. count * MaxPacket <= q * MaxPacket
  <2>1. q - count \in Nat /\ (q - count) * MaxPacket >= 0
    BY Constants, <1>1 DEF q
  <2>. QED  BY <2>1, <1>1, Constants
<1>4. i * MaxPacket \in Nat
  BY Constants
<1>. QED  BY <1>1, <1>2, <1>3, <1>4, Constants

LEMMA WindowBounded ==
  ASSUME window \in 0..MaxAcks PROVE Window \in 0..MaxAcks
  BY Constants DEF Window

LEMMA TransmitKeeps ==
  ASSUME StreamInv, AsExpected(stream', 0), Len(stream) <= Len(stream'),
         NEW todo \in Nat, todo <= Len(stream') - offset,
         NEW full \in Nat, NEW count \in Nat, count <= PacketsIn(todo),
         Transmit(todo, full, count), UNCHANGED <<offset, received, ackSet>>
  PROVE  StreamInv'
<1>. DEFINE sent == Smaller(todo, count * MaxPacket)
<1>1. /\ offset \in Nat /\ unsent \in Nat /\ Len(received) \in Nat
      /\ Len(stream) \in Nat /\ Len(stream') \in Nat
      /\ offset <= Len(received) /\ Len(received) <= unsent /\ unsent <= Len(stream)
  BY DEF StreamInv, Positions, AsExpected
<1>2. count * MaxPacket \in Nat
  BY Constants
<1>3. /\ sent \in Nat /\ sent <= todo /\ sent <= count * MaxPacket
      /\ (sent = todo \/ sent = count * MaxPacket)
  BY <1>2, SmallerLarger
<1>. HIDE DEF sent
<1>4. unsent' = Larger(unsent, offset + sent)
  BY DEF Transmit, sent
<1>5. unsent' \in Nat /\ unsent' >= unsent /\ unsent' >= offset + sent /\ unsent' <= Len(stream')
  BY <1>1, <1>3, <1>4, SmallerLarger
<1>6. Positions'
  BY <1>1, <1>5 DEF Positions
<1>7. ASSUME NEW p \in Burst(todo, count) PROVE PacketRight(p, unsent')
  <2>1. PICK i \in 0..count - 1 :
          p = Packet(offset + i * MaxPacket, Smaller(MaxPacket, todo - i * MaxPacket))
    BY DEF Burst
  <2>. DEFINE a == offset + i * MaxPacket
              n == Smaller(MaxPacket, todo - i * MaxPacket)
              m == i * MaxPacket
  <2>2. m \in Nat /\ m < todo /\ m + MaxPacket <= count * MaxPacket
    BY BurstPlaces
  <2>3. p.rel = a /\ p.units = SubSeq(stream', a + 1, a + n)
    BY <2>1 DEF Packet
  <2>4. a = offset + m /\ n = Smaller(MaxPacket, todo - m)
    OBVIOUS
  <2>. HIDE DEF a, n, m
  <2>5. n \in Nat /\ n <= MaxPacket /\ n <= todo - m
    BY <2>2, <2>4, Constants, SmallerLarger
  <2>6. a \in Nat /\ a + n <= Len(stream') /\ a + n <= offset + sent
    BY <1>1, <1>2, <1>3, <2>2, <2>4, <2>5, Constants
  <2>7. AsExpected(p.units, 0 + a) /\ Len(p.units) = n
    <3>1. 0 \in Nat
      OBVIOUS
    <3>2. AsExpected(SubSeq(stream', a + 1, a + n), 0 + a)
      BY <2>5, <2>6, <3>1, PartExpected
    <3>3. Len(SubSeq(stream', a + 1, a + n)) = n
      BY <2>5, <2>6, <3>1, PartExpected
    <3>. QED  BY <2>3, <3>2, <3>3
  <2>. QED  BY <1>5, <1>1, <1>3, <2>3, <2>5, <2>6, <2>7 DEF PacketRight
<1>8. ASSUME NEW p \in data PROVE PacketRight(p, unsent')
  <2>1. PacketRight(p, unsent)
    BY DEF StreamInv
  <2>2. p.rel \in Nat /\ AsExpected(p.units, p.rel) /\ p.rel + Len(p.units) <= unsent
    BY <2>1 DEF PacketRight
  <2>3. Len(p.units) \in Nat
    BY <2>2 DEF AsExpected
  <2>4. p.rel + Len(p.units) <= unsent'
    BY <2>2, <2>3, <1>1, <1>5
  <2>. QED  BY <2>2, <2>4 DEF PacketRight
<1>9. data' \subseteq data \union Burst(todo, count)
  BY DEF Transmit, ToClient, Held
<1>10. window' \in 0..MaxAcks
  BY WindowBounded, Constants DEF Transmit, StreamInv
<1>11. TimerRight'
  <2>1. CASE count = 0
    <3>0. 0 * MaxPacket = 0
      BY Constants
    <3>1. sent = 0
      BY <2>1, <1>3, <3>0
    <3>2. unsent' = unsent /\ timer' = timer /\ offset' = offset
      BY <3>1, <2>1, <1>1, <1>4, SmallerLarger DEF Transmit
    <3>. QED  BY <3>2 DEF TimerRight, StreamInv
  <2>2. CASE count # 0
    BY <2>2 DEF Transmit, TimerRight
  <2>. QED  BY <2>1, <2>2
<1>12. AsExpected(received', 0)
  BY DEF StreamInv
<1>13. \A rel \in ackSet' : rel \in Nat /\ rel <= Len(received')
  BY DEF StreamInv
<1>14. \A p \in data' : PacketRight(p, unsent')
  BY <1>7, <1>8, <1>9
<1>. QED  BY <1>6, <1>10, <1>11, <1>12, <1>13, <1>14 DEF StreamInv

LEMMA SendNothingKeeps ==
  ASSUME StreamInv, AsExpected(stream', 0), Len(stream) <= Len(stream'),
         SendNothing, UNCHANGED <<offset, received, ackSet>>
  PROVE  StreamInv'
<1>1. /\ UNCHANGED <<unsent, window, timer, data>>
      /\ Len(stream) \in Nat /\ Len(stream') \in Nat
  BY DEF SendNothing, StreamInv, AsExpected
<1>2. Positions'
  BY <1>1 DEF StreamInv, Positions
<1>3. TimerRight'
  BY <1>1 DEF StreamInv, TimerRight
<1>. QED  BY <1>1, <1>2, <1>3 DEF StreamInv

LEMMA KeptIsNat ==
  ASSUME StreamInv, AsExpected(stream', 0), Len(stream) <= Len(stream')
  PROVE  Kept \in Nat
  BY DEF StreamInv, Positions, AsExpected, Kept

LEMMA SendReliableKeeps ==
  ASSUME StreamInv, AsExpected(stream', 0), Len(stream) <= Len(stream'),
         SendReliable, UNCHANGED <<offset, received, ackSet>>
  PROVE  StreamInv'
<1>0. Kept \in Nat /\ Kept <= Len(stream') - offset
  <2>1. Len(stream') \in Nat /\ offset \in Nat
    BY DEF StreamInv, Positions, AsExpected
  <2>. QED  BY <2>1, KeptIsNat DEF Kept
<1>1. CASE SendNothing
  BY <1>1, SendNothingKeeps
<1>2. CASE ~SendNothing
  <2>. DEFINE full == Smaller(Window + 1, PacketsIn(Kept))
  <2>1. Window + 1 \in Nat
    BY WindowBounded, Constants DEF StreamInv
  <2>2. PacketsIn(Kept) \in Nat
    BY <1>0, Constants DEF PacketsIn
  <2>3. full \in Nat /\ full <= PacketsIn(Kept)
    BY <2>1, <2>2, SmallerLarger
  <2>4. PICK count \in 0..full : Transmit(Kept, full, count)
    BY <1>2 DEF SendReliable
  <2>. HIDE DEF full
  <2>5. count \in Nat /\ count <= PacketsIn(Kept)
    BY <2>2, <2>3
  <2>. QED  BY <1>0, <2>3, <2>4, <2>5, TransmitKeeps
<1>. QED  BY <1>1, <1>2

LEMMA SendWithFrameKeeps ==
  ASSUME StreamInv, AsExpected(stream', 0), Len(stream) <= Len(stream'),
         NEW room \in 1..MaxPacket - 1,
         SendWithFrame(room), UNCHANGED <<offset, received, ackSet>>
  PROVE  StreamInv'
<1>0. Kept \in Nat /\ Kept <= Len(stream') - offset
  <2>1. Len(stream') \in Nat /\ offset \in Nat
    BY DEF StreamInv, Positions, AsExpected
  <2>. QED  BY <2>1, KeptIsNat DEF Kept
<1>1. CASE SendNothing
  BY <1>1, SendNothingKeeps
<1>2. CASE ~SendNothing
  <2>. DEFINE todo == Smaller(Kept, room)
  <2>1. Kept > 0
    BY <1>0, <1>2 DEF SendWithFrame
  <2>2. todo \in Nat /\ todo > 0 /\ todo <= Kept
    BY <1>0, <2>1, Constants, SmallerLarger
  <2>3. PICK count \in 0..1 : Transmit(todo, 1, count)
    BY <1>2 DEF SendWithFrame
  <2>. HIDE DEF todo
  <2>4. PacketsIn(todo) >= 1 /\ PacketsIn(todo) \in Nat
    BY <2>2, Constants DEF PacketsIn
  <2>5. count \in Nat /\ count <= PacketsIn(todo)
    BY <2>4
  <2>6. todo <= Len(stream') - offset
    <3>1. Len(stream') \in Nat /\ offset \in Nat
      BY DEF StreamInv, Positions, AsExpected
    <3>. QED  BY <1>0, <2>2, <3>1
  <2>. QED  BY <2>2, <2>3, <2>5, <2>6, TransmitKeeps
<1>. QED  BY <1>1, <1>2
-----------------------------------------------------------------------------
(* Acknowledging and receiving. *)

LEMMA AdvanceKeeps ==
  ASSUME StreamInv, NEW rel \in ackSet, ~LateAck(rel), AdvanceTo(rel),
         UNCHANGED <<stream, received, ackSet>>
  PROVE  StreamInv'
<1>1. /\ rel \in Nat /\ rel <= Len(received) /\ offset' = rel /\ unsent' = unsent /\ data' = data
      /\ Len(received) \in Nat /\ Len(stream) \in Nat
      /\ offset \in Nat /\ rel > offset
  BY DEF StreamInv, AdvanceTo, LateAck, Positions, AsExpected
<1>2. Positions'
  BY <1>1 DEF StreamInv, Positions
<1>3. window' \in 0..MaxAcks
  <2>1. window \in Nat /\ rel - offset \in Nat
    BY <1>1, Constants DEF StreamInv
  <2>. QED  BY <2>1, Constants, SmallerLarger DEF AdvanceTo, GrowWindow, Smaller
<1>4. TimerRight'
  BY <1>1 DEF StreamInv, TimerRight, Positions, AdvanceTo
<1>. QED  BY <1>1, <1>2, <1>3, <1>4 DEF StreamInv

LEMMA ReceiveKeeps ==
  ASSUME StreamInv, NEW p \in data, ReceiveReliable(p)
  PROVE  /\ AsExpected(received', 0)
         /\ Len(received') >= Len(received)
         /\ Len(received') <= unsent
         /\ received' = received \/ Len(received') > Len(received)
<1>. DEFINE have == Len(received)
            cut  == SubSeq(p.units, have - p.rel + 1, Len(p.units))
<1>1. /\ p.rel \in Nat /\ AsExpected(p.units, p.rel) /\ p.rel + Len(p.units) <= unsent
      /\ Len(p.units) \in Nat /\ have \in Nat /\ AsExpected(received, 0)
      /\ have <= unsent /\ unsent \in Nat
  BY DEF StreamInv, PacketRight, AsExpected, Positions
<1>2. CASE p.rel > have \/ p.rel + Len(p.units) <= have
  BY <1>1, <1>2 DEF ReceiveReliable
<1>3. CASE ~(p.rel > have \/ p.rel + Len(p.units) <= have)
  <2>. DEFINE r == p.rel
              l == Len(p.units)
              a == have - r
              n == l - a
  <2>0. r \in Nat /\ l \in Nat /\ have \in Nat /\ ~(r > have) /\ ~(r + l <= have)
    BY <1>1, <1>3
  <2>1. a \in Nat /\ n \in Nat /\ n > 0 /\ a + n = Len(p.units) /\ p.rel + a = have
    <3>. HIDE DEF r, l, have
    <3>1. a \in Nat /\ n \in Nat /\ n > 0 /\ a + n = l /\ r + a = have
      BY <2>0
    <3>. QED  BY <3>1 DEF r, l, have
  <2>2. received' = received \o cut
    BY <1>3 DEF ReceiveReliable
  <2>3. cut = SubSeq(p.units, a + 1, a + n)
    BY <2>1
  <2>. HIDE DEF a, n, cut
  <2>4. AsExpected(cut, p.rel + a) /\ Len(cut) = n
    <3>1. a + n <= Len(p.units)
      BY <2>1, <1>1
    <3>2. AsExpected(SubSeq(p.units, a + 1, a + n), p.rel + a)
      BY <1>1, <2>1, <3>1, PartExpected
    <3>3. Len(SubSeq(p.units, a + 1, a + n)) = n
      BY <1>1, <2>1, <3>1, PartExpected
    <3>. QED  BY <2>3, <3>2, <3>3
  <2>5. AsExpected(cut, 0 + have)
    BY <2>1, <2>4, <1>1
  <2>6. AsExpected(received \o cut, 0) /\ Len(received \o cut) = have + Len(cut)
    <3>. HIDE DEF have
    <3>1. have = Len(received)
      BY DEF have
    <3>. QED  BY <1>1, <2>5, <3>1, AppendExpected
  <2>. QED  BY <1>1, <2>1, <2>2, <2>4, <2>6
<1>. QED  BY <1>2, <1>3

LEMMA ReceiveKeepsStream ==
  ASSUME StreamInv, NEW p \in data, ReceiveReliable(p)
  PROVE  StreamInv'
<1>1. /\ AsExpected(received', 0)
      /\ Len(received') >= Len(received)
      /\ Len(received') <= unsent
  BY ReceiveKeeps
<1>2. Len(received') \in Nat /\ Len(received) \in Nat
  BY <1>1 DEF StreamInv, AsExpected
<1>3. UNCHANGED <<stream, offset, unsent, window, timer, data>>
  BY DEF ReceiveReliable, serverStream
<1>4. ackSet' \subseteq ackSet \union {Len(received')}
  BY DEF ReceiveReliable, SendAck, ToServer, Held
<1>5. \A rel \in ackSet' : rel \in Nat /\ rel <= Len(received')
  BY <1>1, <1>2, <1>4 DEF StreamInv
<1>6. Positions'
  BY <1>1, <1>2, <1>3 DEF StreamInv, Positions
<1>7. TimerRight'
  BY <1>3 DEF StreamInv, TimerRight
<1>. QED  BY <1>1, <1>3, <1>5, <1>6, <1>7 DEF StreamInv
-----------------------------------------------------------------------------
(* The invariant: one lemma for each kind of step. *)

Draining ==
  \/ drainState = "setup" /\ setup = 0 /\ Len(stream) = 1
  \/ drainState = "login" /\ Len(stream) = Prologue

LEMMA LifeAt ==
  ASSUME Life
  PROVE  /\ state = "listening" => drainState = "free" /\ setup = 0 /\ Len(stream) = 0
         /\ state = "drain" => Draining
         /\ state = "setup" => drainState = "setup" /\ Len(stream) = 1 + setup
         /\ state = "login" => drainState = "login" /\ Len(stream) = Prologue
         /\ state \in {"ready", "playing"} =>
              drainState = "playing" /\ Len(stream) > Prologue /\ Len(received) >= Prologue
         /\ state = "free" => drainState = "free"
         /\ setup \in 0..SetupSize
         /\ reason \notin {"bad ack", "undefined packet"}
         /\ state \in {"free", "listening", "drain", "setup", "login", "ready", "playing"}
         /\ drainState \in {"free", "setup", "login", "playing"}
<1>1. state = "listening" => drainState = "free" /\ setup = 0 /\ Len(stream) = 0
  BY DEF Life
<1>2. state = "drain" => Draining
  <2>1. CASE state = "drain"
    BY <2>1 DEF Life, Draining
  <2>. QED  BY <2>1
<1>3. state = "setup" => drainState = "setup" /\ Len(stream) = 1 + setup
  BY DEF Life
<1>4. state = "login" => drainState = "login" /\ Len(stream) = Prologue
  BY DEF Life
<1>5. state \in {"ready", "playing"} =>
        drainState = "playing" /\ Len(stream) > Prologue /\ Len(received) >= Prologue
  BY DEF Life
<1>6. state = "free" => drainState = "free"
  BY DEF Life
<1>7. setup \in 0..SetupSize /\ reason \notin {"bad ack", "undefined packet"}
  BY DEF Life
<1>8. state \in {"free", "listening", "drain", "setup", "login", "ready", "playing"}
  BY DEF Life
<1>9. drainState \in {"free", "setup", "login", "playing"}
  BY DEF Life
<1>. QED  BY <1>1, <1>2, <1>3, <1>4, <1>5, <1>6, <1>7, <1>8, <1>9

LEMMA InvInit == ConnInit => Inv
<1>. SUFFICES ASSUME ConnInit PROVE Inv
  OBVIOUS
<1>1. AsExpected(<<>>, 0)
  BY DEF AsExpected
<1>2. StreamInv
  BY <1>1, Constants DEF ConnInit, StreamInit, StreamInv, Positions, TimerRight
<1>3. Life
  BY Constants DEF ConnInit, StreamInit, Life
<1>4. Reading
  <2>1. Len(received) = 0 /\ phase = "verify" /\ requests = {}
    BY DEF ConnInit, StreamInit
  <2>2. PhaseWith(0) = "verify"
    BY Constants DEF PhaseWith
  <2>. QED  BY <2>1, <2>2 DEF Reading
<1>. QED  BY <1>2, <1>3, <1>4 DEF Inv

LEMMA DestroyKeeps ==
  ASSUME Inv, NEW why, why \notin {"bad ack", "undefined packet"}, DestroyConnection(why)
  PROVE  Inv'
<1>1. StreamInv'
  <2>1. /\ UNCHANGED <<stream, offset, unsent, window, timer, data, received>>
        /\ ackSet' = {}
    BY DEF DestroyConnection, serverStream
  <2>2. Positions' /\ TimerRight'
    BY <2>1 DEF Inv, StreamInv, Positions, TimerRight
  <2>. QED  BY <2>1, <2>2 DEF Inv, StreamInv
<1>2. Life'
  <2>1. setup' \in 0..SetupSize
    <3>1. setup' = 0
      BY DEF DestroyConnection
    <3>. QED  BY <3>1, Constants
  <2>2. reason' = why /\ state' = "free" /\ drainState' = "free"
    BY DEF DestroyConnection, ConnSetState
  <2>. QED  BY <2>1, <2>2 DEF Life
<1>3. Reading'
  BY DEF DestroyConnection, Inv, Reading
<1>. QED  BY <1>1, <1>2, <1>3 DEF Inv

LEMMA Lengths ==
  ASSUME StreamInv
  PROVE  /\ Len(stream) \in Nat /\ Len(received) \in Nat
         /\ offset \in Nat /\ unsent \in Nat
         /\ offset <= Len(received) /\ Len(received) <= Len(stream)
  BY DEF StreamInv, Positions, AsExpected

LEMMA WrittenOn ==
  ASSUME StreamInv, NEW t, AsExpected(t, Len(stream)), stream' = stream \o t
  PROVE  /\ AsExpected(stream', 0)
         /\ Len(stream') = Len(stream) + Len(t)
         /\ Len(t) \in Nat
         /\ Len(stream) <= Len(stream')
<1>1. AsExpected(stream, 0) /\ Len(stream) \in Nat /\ 0 + Len(stream) = Len(stream)
  BY DEF StreamInv, AsExpected
<1>2. AsExpected(t, 0 + Len(stream))
  BY <1>1
<1>3. AsExpected(stream \o t, 0) /\ Len(stream \o t) = Len(stream) + Len(t)
  BY <1>1, <1>2, AppendExpected
<1>4. Len(t) \in Nat
  BY DEF AsExpected
<1>. QED  BY <1>1, <1>3, <1>4

LEMMA ReplyExpected == AsExpected(<<Started, News(0)>>, Prologue)
<1>1. Started \in Message /\ News(0) \in Message
  BY DEF Started, News, Unit, Message
<1>2. Expected(Prologue + 1) = Started /\ Expected(Prologue + 2) = News(0)
  <2>1. Prologue + 2 \in Int /\ Prologue + 2 > Prologue + 1 /\ (Prologue + 2) - Prologue - 2 = 0
    BY Constants
  <2>. QED  BY <2>1, ExpectedAt
<1>. DEFINE s == <<Started, News(0)>>
<1>3. s \in Seq(Message) /\ Len(s) = 2 /\ s[1] = Started /\ s[2] = News(0)
  BY <1>1
<1>. HIDE DEF s
<1>4. \A i \in 1..Len(s) : s[i] = Expected(Prologue + i)
  BY <1>2, <1>3
<1>. QED  BY <1>3, <1>4 DEF AsExpected, s

LEMMA MapExpected ==
  ASSUME NEW k \in Nat, NEW n \in Nat, k + n <= SetupSize
  PROVE  /\ AsExpected([i \in 1..n |-> MapUnit(k + i)], 1 + k)
         /\ Len([i \in 1..n |-> MapUnit(k + i)]) = n
<1>. DEFINE s == [i \in 1..n |-> MapUnit(k + i)]
<1>1. \A i \in 1..n : MapUnit(k + i) \in Message
  BY DEF MapUnit, Unit, Message
<1>2. s \in Seq(Message) /\ Len(s) = n
  BY <1>1
<1>3. ASSUME NEW i \in 1..n PROVE s[i] = Expected((1 + k) + i)
  <2>1. (1 + k) + i > 1 /\ (1 + k) + i <= Prologue /\ (1 + k) + i \in Int
        /\ (1 + k) + i - 1 = k + i
    BY Constants
  <2>2. Expected((1 + k) + i) = MapUnit((1 + k) + i - 1)
    BY <2>1, ExpectedAt
  <2>. QED  BY <2>1, <2>2
<1>. QED  BY <1>2, <1>3 DEF AsExpected

LEMMA HandleListeningKeeps ==
  ASSUME Inv, HandleListening PROVE Inv'
<1>1. PICK request \in requests :
        IF request # "verify" THEN DestroyConnection("not connecting")
        ELSE \/ DestroyConnection("confirm failed")
             \/ /\ stream' = <<Verified>>
                /\ Transmit(1, 1, 1)
                /\ ConnSetState("drain", "setup")
                /\ UNCHANGED <<offset, ackSet, received, setup, reason, phase, requests, goodbye>>
  BY DEF HandleListening
<1>2. CASE DestroyConnection("not connecting") \/ DestroyConnection("confirm failed")
  BY <1>2, DestroyKeeps
<1>3. CASE /\ stream' = <<Verified>>
           /\ Transmit(1, 1, 1)
           /\ ConnSetState("drain", "setup")
           /\ UNCHANGED <<offset, ackSet, received, setup, reason, phase, requests, goodbye>>
  <2>1. AsExpected(<<Verified>>, 0) /\ Len(<<Verified>>) = 1
    <3>1. Verified \in Message
      BY DEF Verified, Unit, Message
    <3>. QED  BY <3>1, ExpectedAt DEF AsExpected
  <2>2. Len(stream) = 0 /\ setup = 0 /\ Len(received) = 0 /\ offset = 0
    <3>1. state = "listening" /\ StreamInv /\ Life
      BY DEF HandleListening, Inv
    <3>2. Len(stream) = 0 /\ setup = 0
      BY <3>1, LifeAt
    <3>. QED  BY <3>1, <3>2, Lengths
  <2>3. 1 <= PacketsIn(1)
    BY Constants DEF PacketsIn
  <2>4. StreamInv'
    <3>1. 1 \in Nat /\ 1 <= Len(stream') - offset /\ Len(stream) <= Len(stream')
      BY <2>1, <2>2, <1>3
    <3>. QED  BY <3>1, <2>1, <2>3, <1>3, TransmitKeeps DEF Inv
  <2>5. Life'
    BY <1>3, <2>1, <2>2, Constants DEF Inv, Life, ConnSetState
  <2>6. Reading'
    BY <1>3 DEF Inv, Reading
  <2>. QED  BY <2>4, <2>5, <2>6 DEF Inv
<1>. QED  BY <1>1, <1>2, <1>3

LEMMA HandleLoginKeeps ==
  ASSUME Inv, HandleLogin PROVE Inv'
<1>1. Len(stream) = Prologue /\ Len(received) >= Prologue
  BY DEF Inv, Life, Reading, HandleLogin, Gets
<1>2. stream' = stream \o <<Started, News(0)>> /\ AsExpected(<<Started, News(0)>>, Len(stream))
  BY <1>1, ReplyExpected DEF HandleLogin
<1>3. /\ AsExpected(stream', 0) /\ Len(stream) <= Len(stream')
      /\ Len(stream') = Len(stream) + Len(<<Started, News(0)>>)
  BY <1>2, WrittenOn DEF Inv
<1>4. Len(stream') = Prologue + 2
  BY <1>1, <1>3
<1>5. StreamInv'
  BY <1>3, SendNothingKeeps DEF HandleLogin, SendNothing, Inv
<1>6. Life'
  <2>1. state' = "ready" /\ drainState' = "playing" /\ UNCHANGED <<setup, reason, received>>
    BY DEF HandleLogin, ConnSetState
  <2>2. Len(stream') > Prologue /\ Len(received') >= Prologue
    BY <1>1, <1>4, <2>1, Constants
  <2>3. setup' \in 0..SetupSize /\ reason' \notin {"bad ack", "undefined packet"}
    BY <2>1, LifeAt DEF Inv
  <2>. QED  BY <2>1, <2>2, <2>3 DEF Life
<1>7. Reading'
  BY DEF HandleLogin, Inv, Reading
<1>. QED  BY <1>5, <1>6, <1>7 DEF Inv

(* The time a connection is silent is not in the invariant. *)
LEMMA IdleKeeps ==
  ASSUME Inv,
         UNCHANGED <<streamVars, state, drainState, setup, reason, phase, requests, goodbye>>
  PROVE  Inv'
  BY DEF streamVars, serverStream, Inv, StreamInv, Positions, TimerRight, Life, Reading

LEMMA ReceiveAckKeeps ==
  ASSUME Inv, ReceiveAck PROVE Inv'
<1>1. PICK rel \in ackSet :
        \/ BadAck(rel) /\ DestroyConnection("bad ack")
        \/ UNCHANGED <<streamVars, state, drainState, setup, reason, phase, requests, goodbye>>
        \/ /\ ~BadAck(rel) /\ ~LateAck(rel)
           /\ AdvanceTo(rel)
           /\ state' \in StatesAfterAck(rel)
           /\ UNCHANGED <<stream, ackSet, received, drainState, setup, reason,
                          phase, requests, goodbye>>
  BY DEF ReceiveAck
<1>2. ~BadAck(rel)
  <2>1. rel \in Nat /\ rel <= Len(received)
    BY DEF Inv, StreamInv
  <2>. QED  BY <2>1, Lengths DEF Inv, BadAck
<1>3. CASE UNCHANGED <<streamVars, state, drainState, setup, reason, phase, requests, goodbye>>
  BY <1>3, IdleKeeps
<1>4. CASE /\ ~LateAck(rel)
           /\ AdvanceTo(rel)
           /\ state' \in StatesAfterAck(rel)
           /\ UNCHANGED <<stream, ackSet, received, drainState, setup, reason,
                          phase, requests, goodbye>>
  <2>1. StreamInv'
    BY <1>4, AdvanceKeeps DEF Inv
  <2>2. state' = state \/ (state \in {"drain", "ready"} /\ state' = drainState)
    BY <1>4 DEF StatesAfterAck
  <2>3. Life'
    <3>1. UNCHANGED <<stream, received, drainState, setup, reason>>
      BY <1>4
    <3>2. CASE state' = state
      BY <3>1, <3>2 DEF Inv, Life
    <3>3. CASE state = "ready" /\ state' = drainState
      <4>1. drainState = "playing" /\ state' = "playing"
        BY <3>3, LifeAt DEF Inv
      <4>. QED  BY <3>1, <3>3, <4>1, LifeAt DEF Inv, Life
    <3>4. CASE state = "drain" /\ state' = drainState
      <4>1. CASE drainState = "setup"
        <5>1. setup' = 0 /\ Len(stream') = 1 /\ state' = "setup" /\ drainState' = "setup"
          BY <3>1, <3>4, <4>1, LifeAt DEF Inv, Draining
        <5>2. Len(stream') = 1 + setup'
          BY <5>1
        <5>. QED  BY <3>1, <5>1, <5>2, LifeAt DEF Inv, Life
      <4>2. CASE drainState = "login"
        BY <3>1, <3>4, <4>2, LifeAt DEF Inv, Life, Draining
      <4>. QED  BY <3>4, <4>1, <4>2, LifeAt DEF Inv, Draining
    <3>. QED  BY <2>2, <3>2, <3>3, <3>4
  <2>4. Reading'
    BY <1>4 DEF Inv, Reading
  <2>. QED  BY <2>1, <2>3, <2>4 DEF Inv
<1>. QED  BY <1>1, <1>2, <1>3, <1>4

LEMMA UndefinedNever == ASSUME Inv PROVE ~ReceiveUndefined
<1>. SUFFICES ASSUME "keys" \in requests, state \in {"drain", "setup", "login"} PROVE FALSE
  BY DEF ReceiveUndefined, Gets
<1>1. Len(received) > Prologue /\ StreamInv /\ Life
  BY DEF Inv, Reading
<1>2. Len(stream) > Prologue /\ Len(stream) \in Nat
  BY <1>1, Lengths, Constants
<1>3. Len(stream) <= Prologue
  <2>1. setup \in 0..SetupSize
    BY <1>1, LifeAt
  <2>2. Len(stream) \in {1, 1 + setup, Prologue}
    BY <1>1, LifeAt DEF Draining
  <2>. QED  BY <2>1, <2>2, Constants
<1>. QED  BY <1>2, <1>3, Constants

LEMMA InputKeeps ==
  ASSUME Inv, Input PROVE Inv'
<1>1. SendReliable /\ UNCHANGED <<offset, ackSet, received, reason, phase, requests, goodbye>>
  BY DEF Input
<1>2. Reading'
  BY <1>1 DEF Inv, Reading
<1>3. CASE state = "setup"
  <2>1. Len(stream) = 1 + setup /\ setup \in 0..SetupSize /\ HandleSetup
    BY <1>3 DEF Inv, Life, Input
  <2>2. Chunk \in Nat /\ setup + Chunk <= SetupSize
    <3>1. SetupChunk - (Len(stream) - offset) \in Int /\ SetupSize - setup \in Nat
      BY <2>1, Lengths, Constants DEF Inv
    <3>2. setup \in Nat /\ SetupSize \in Nat
      BY <2>1, Constants
    <3>. QED  BY <3>1, <3>2 DEF Chunk, Smaller, Larger
  <2>3. /\ AsExpected([i \in 1..Chunk |-> MapUnit(setup + i)], Len(stream))
        /\ Len([i \in 1..Chunk |-> MapUnit(setup + i)]) = Chunk
    <3>1. setup \in Nat
      BY <2>1
    <3>. QED  BY <2>1, <2>2, <3>1, MapExpected
  <2>4. /\ AsExpected(stream', 0)
        /\ Len(stream') = Len(stream) + Chunk
        /\ Len(stream) <= Len(stream')
    BY <2>1, <2>3, WrittenOn DEF Inv, HandleSetup
  <2>5. StreamInv'
    BY <1>1, <2>4, SendReliableKeeps DEF Inv
  <2>6. setup' = setup + Chunk /\ setup' \in 0..SetupSize /\ Len(stream') = 1 + setup'
    BY <2>1, <2>2, <2>4, Constants DEF HandleSetup
  <2>7. Life'
    <3>1. CASE setup' = SetupSize
      BY <1>1, <2>1, <2>6, <3>1, Constants DEF HandleSetup, ConnSetState, Inv, Life
    <3>2. CASE setup' # SetupSize
      BY <1>1, <1>3, <2>1, <2>6, <3>2, Constants DEF HandleSetup, Inv, Life
    <3>. QED  BY <3>1, <3>2
  <2>. QED  BY <1>2, <2>5, <2>7 DEF Inv
<1>4. CASE state # "setup"
  <2>1. UNCHANGED <<stream, state, drainState, setup>>
    BY <1>4 DEF Input
  <2>2. AsExpected(stream', 0) /\ Len(stream) <= Len(stream')
    BY <2>1, Lengths DEF Inv, StreamInv
  <2>3. StreamInv'
    BY <1>1, <2>2, SendReliableKeeps DEF Inv
  <2>4. Life'
    BY <1>1, <2>1 DEF Inv, Life
  <2>. QED  BY <1>2, <2>3, <2>4 DEF Inv
<1>. QED  BY <1>3, <1>4

LEMMA SendMessageKeeps ==
  ASSUME Inv, SendMessage PROVE Inv'
<1>. DEFINE t == <<News(Len(stream) - Prologue - 1)>>
<1>1. Len(stream) \in Nat /\ Len(stream) > Prologue /\ Len(received) \in Nat
  BY Lengths DEF Inv, Life, SendMessage
<1>2. AsExpected(t, Len(stream)) /\ Len(t) = 1
  <2>1. t[1] \in Message /\ t[1] = News(Len(stream) - Prologue - 1)
    BY <1>1, Constants DEF News, Unit, Message
  <2>2. Expected(Len(stream) + 1) = News(Len(stream) - Prologue - 1)
    <3>1. /\ Len(stream) + 1 \in Int /\ Len(stream) + 1 > Prologue + 1
          /\ (Len(stream) + 1) - Prologue - 2 = Len(stream) - Prologue - 1
      BY <1>1, Constants
    <3>. QED  BY <3>1, ExpectedAt
  <2>3. t \in Seq(Message) /\ Len(t) = 1
    BY <2>1
  <2>. QED  BY <2>1, <2>2, <2>3 DEF AsExpected
<1>3. stream' = stream \o t
  <2>1. stream \in Seq(Message) /\ stream' = Append(stream, t[1])
    BY DEF Inv, StreamInv, AsExpected, SendMessage
  <2>2. t[1] \in Message
    BY <1>1, Constants DEF News, Unit, Message
  <2>. QED  BY <2>1, <2>2, AppendIsConcat
<1>. HIDE DEF t
<1>4. AsExpected(stream', 0) /\ Len(stream') = Len(stream) + 1 /\ Len(stream) <= Len(stream')
  BY <1>1, <1>2, <1>3, WrittenOn DEF Inv
<1>5. StreamInv'
  BY <1>4, SendNothingKeeps DEF SendMessage, SendNothing, Inv
<1>6. UNCHANGED <<received, phase, requests, state, drainState, setup, reason, goodbye>>
  BY DEF SendMessage, connVars, serverVars
<1>7. Life'
  <2>1. state \in {"ready", "playing"}
    BY DEF SendMessage
  <2>2. Len(stream') > Prologue
    BY <1>1, <1>4, Constants
  <2>. QED  BY <1>6, <2>1, <2>2, LifeAt DEF Inv, Life
<1>8. Reading'
  BY <1>6 DEF Inv, Reading
<1>. QED  BY <1>5, <1>7, <1>8 DEF Inv

LEMMA ClientReceivesKeeps ==
  ASSUME Inv, NEW p \in data, ClientReceives(p) PROVE Inv'
<1>1. ReceiveReliable(p) /\ phase' = PhaseWith(Len(received'))
  BY DEF ClientReceives
<1>2. UNCHANGED <<stream, state, drainState, setup, reason, requests>>
  BY <1>1 DEF ClientReceives, serverVars, ReceiveReliable, serverStream
<1>3. StreamInv'
  BY <1>1, ReceiveKeepsStream DEF Inv
<1>4. Len(received') >= Len(received) /\ Len(received') \in Nat /\ Len(received) \in Nat
  BY <1>1, ReceiveKeeps, Lengths DEF Inv, AsExpected
<1>5. Life'
  <2>1. CASE state \in {"ready", "playing"}
    <3>0. Len(received) >= Prologue
      BY <2>1, LifeAt DEF Inv
    <3>1. Len(received') >= Prologue
      BY <1>4, <3>0, Constants
    <3>. QED  BY <1>2, <2>1, <3>1, LifeAt DEF Inv, Life
  <2>2. CASE state \notin {"ready", "playing"}
    BY <1>2, <2>2 DEF Inv, Life
  <2>. QED  BY <2>1, <2>2
<1>6. Reading'
  <2>1. "play" \in requests' => Len(received') >= Prologue
    BY <1>2, <1>4, Constants DEF Inv, Reading
  <2>2. "keys" \in requests' => Len(received') > Prologue
    BY <1>2, <1>4, Constants DEF Inv, Reading
  <2>3. requests' \subseteq Requests
    BY <1>2 DEF Inv, Reading
  <2>. QED  BY <1>1, <2>1, <2>2, <2>3 DEF Reading
<1>. QED  BY <1>3, <1>5, <1>6 DEF Inv

LEMMA PhaseTells ==
  ASSUME NEW n \in Nat
  PROVE  /\ PhaseWith(n) = "start" => n = Prologue
         /\ PhaseWith(n) = "playing" => n > Prologue
         /\ n >= Prologue => PhaseWith(n) \in {"start", "playing"}
         /\ PhaseWith(n) \in {"verify", "setup", "start", "playing"}
<1>1. CASE n = 0
  BY <1>1, Constants DEF PhaseWith
<1>2. CASE n \in 1..SetupSize
  BY <1>2, Constants DEF PhaseWith
<1>3. CASE n = Prologue
  BY <1>3, Constants DEF PhaseWith
<1>4. CASE n > Prologue
  BY <1>4, Constants DEF PhaseWith
<1>. QED  BY <1>1, <1>2, <1>3, <1>4, Constants

LEMMA AskKeeps ==
  ASSUME Inv, SendVerify \/ SendPlay \/ SendKeys PROVE Inv'
<1>1. UNCHANGED <<stream, offset, unsent, window, timer, data, ackSet, received,
                  state, drainState, setup, reason, phase>>
  BY DEF SendVerify, SendPlay, SendKeys, Ask, streamVars, serverStream, serverVars
<1>2. StreamInv' /\ Life'
  BY <1>1 DEF Inv, StreamInv, Positions, TimerRight, Life
<1>3. PICK request \in Requests :
        /\ requests' \subseteq requests \union {request}
        /\ request = "play" => phase = "start"
        /\ request = "keys" => phase = "playing"
  BY DEF SendVerify, SendPlay, SendKeys, Ask, Asked, Requests
<1>4. Len(received) \in Nat /\ phase \in {PhaseWith(Len(received)), "closed"}
  BY Lengths DEF Inv, Reading
<1>5. /\ request = "play" => Len(received) >= Prologue
      /\ request = "keys" => Len(received) > Prologue
  BY <1>3, <1>4, PhaseTells, Constants
<1>6. Reading'
  BY <1>1, <1>3, <1>5 DEF Inv, Reading
<1>. QED  BY <1>2, <1>6 DEF Inv

LEMMA CloseKeeps ==
  ASSUME Inv, ClientQuits \/ ClientIsThrownOut PROVE Inv'
<1>1. /\ UNCHANGED <<stream, offset, unsent, window, timer, ackSet, received,
                     state, drainState, setup, reason>>
      /\ phase' = "closed" /\ data' = {}
  BY DEF ClientQuits, ClientIsThrownOut, serverStream, serverVars
<1>2. requests' \subseteq requests \union {"quit"}
  BY DEF ClientQuits, ClientIsThrownOut, Asked
<1>3. StreamInv' /\ Life'
  BY <1>1 DEF Inv, StreamInv, Positions, TimerRight, Life
<1>4. Reading'
  BY <1>1, <1>2 DEF Inv, Reading, Requests
<1>. QED  BY <1>3, <1>4 DEF Inv

LEMMA TickKeeps ==
  ASSUME Inv, Tick PROVE Inv'
<1>1. /\ UNCHANGED <<stream, offset, unsent, window, data, ackSet, received, connVars>>
      /\ timer' = "due"
  BY DEF Tick, TimerExpires
<1>2. UNCHANGED <<state, drainState, setup, reason, phase, requests, goodbye>>
  BY <1>1 DEF connVars, serverVars
<1>3. Positions' /\ TimerRight'
  BY <1>1 DEF Inv, StreamInv, Positions, TimerRight
<1>4. StreamInv'
  BY <1>1, <1>3 DEF Inv, StreamInv
<1>5. Life' /\ Reading'
  BY <1>1, <1>2 DEF Inv, Life, Reading
<1>. QED  BY <1>4, <1>5 DEF Inv

LEMMA SendingKeeps ==
  ASSUME Inv, PlayAgain \/ SendEndOfFrame PROVE Inv'
<1>1. UNCHANGED <<stream, offset, ackSet, received, connVars>>
  BY DEF PlayAgain, SendEndOfFrame
<1>2. UNCHANGED <<state, drainState, setup, reason, phase, requests, goodbye>>
  BY <1>1 DEF connVars, serverVars
<1>3. AsExpected(stream', 0) /\ Len(stream) <= Len(stream')
  BY <1>1, Lengths DEF Inv, StreamInv
<1>4. StreamInv'
  <2>1. CASE SendReliable
    BY <1>1, <1>3, <2>1, SendReliableKeeps DEF Inv
  <2>2. CASE \E room \in 1..MaxPacket - 1 : SendWithFrame(room)
    BY <1>1, <1>3, <2>2, SendWithFrameKeeps DEF Inv
  <2>. QED  BY <2>1, <2>2 DEF PlayAgain, SendEndOfFrame
<1>5. Life' /\ Reading'
  BY <1>1, <1>2 DEF Inv, Life, Reading
<1>. QED  BY <1>4, <1>5 DEF Inv

LEMMA LeftoversKeep ==
  ASSUME Inv, LeftoversGetLost PROVE Inv'
<1>1. /\ UNCHANGED <<stream, offset, unsent, window, timer, data, received,
                     state, drainState, setup, reason, phase>>
      /\ requests' = {} /\ ackSet' = {}
  BY DEF LeftoversGetLost, serverStream, serverVars
<1>2. StreamInv' /\ Life'
  BY <1>1 DEF Inv, StreamInv, Positions, TimerRight, Life
<1>3. Reading'
  BY <1>1 DEF Inv, Reading
<1>. QED  BY <1>2, <1>3 DEF Inv

LEMMA InvNext == Inv /\ [ConnNext]_vars => Inv'
<1>. SUFFICES ASSUME Inv, [ConnNext]_vars PROVE Inv'
  OBVIOUS
<1>1. CASE HandleInput
  <2>1. CASE HandleListening
    BY <2>1, HandleListeningKeeps
  <2>2. CASE ReceiveDiscard \/ ReceiveKeys
    BY <2>2, IdleKeeps DEF ReceiveDiscard, ReceiveKeys, vars, connVars, serverVars
  <2>3. CASE ReceiveQuit \/ LoginRefused
    BY <2>3, DestroyKeeps DEF ReceiveQuit, LoginRefused
  <2>4. CASE HandleLogin
    BY <2>4, HandleLoginKeeps
  <2>5. CASE PlayAgain
    BY <2>5, SendingKeeps
  <2>6. CASE ReceiveUndefined
    BY <2>6, UndefinedNever
  <2>7. CASE ReceiveAck
    BY <2>7, ReceiveAckKeeps
  <2>. QED  BY <1>1, <2>1, <2>2, <2>3, <2>4, <2>5, <2>6, <2>7 DEF HandleInput, HandleKeys
<1>2. CASE Input
  BY <1>2, InputKeeps
<1>3. CASE Timeout \/ BreaksOff
  BY <1>3, DestroyKeeps DEF Timeout, BreaksOff
<1>4. CASE SendMessage
  BY <1>4, SendMessageKeeps
<1>5. CASE SendEndOfFrame
  BY <1>5, SendingKeeps
<1>6. CASE Tick
  BY <1>6, TickKeeps
<1>7. CASE Client
  <2>1. CASE SendVerify \/ SendPlay \/ SendKeys
    BY <2>1, AskKeeps
  <2>2. CASE \E p \in data : ClientReceives(p)
    BY <2>2, ClientReceivesKeeps
  <2>3. CASE ClientQuits \/ ClientIsThrownOut
    BY <2>3, CloseKeeps
  <2>. QED  BY <1>7, <2>1, <2>2, <2>3 DEF Client
<1>8. CASE TimePasses \/ UNCHANGED vars
  BY <1>8, IdleKeeps DEF TimePasses, vars, connVars, serverVars
<1>9. CASE LeftoversGetLost
  BY <1>9, LeftoversKeep
<1>. QED  BY <1>1, <1>2, <1>3, <1>4, <1>5, <1>6, <1>7, <1>8, <1>9 DEF ConnNext

LEMMA InvAlways == ConnSpec => []Inv
  BY InvInit, InvNext, PTL DEF ConnSpec
-----------------------------------------------------------------------------
(* The theorems. *)

LEMMA ReceivedIsPrefix ==
  ASSUME StreamInv, NEW n \in 0..Len(received)
  PROVE  SubSeq(received, 1, n) = SubSeq(stream, 1, n)
<1>1. /\ AsExpected(stream, 0) /\ AsExpected(received, 0)
      /\ n \in Nat /\ n <= Len(received) /\ n <= Len(stream) /\ 0 \in Nat
  BY Lengths DEF StreamInv
<1>. DEFINE r == SubSeq(received, 1, n)
            s == SubSeq(stream, 1, n)
<1>2. AsExpected(SubSeq(received, 0 + 1, 0 + n), 0 + 0) /\ Len(SubSeq(received, 0 + 1, 0 + n)) = n
  <2>1. 0 + n <= Len(received)
    BY <1>1
  <2>2. AsExpected(SubSeq(received, 0 + 1, 0 + n), 0 + 0)
    BY <1>1, <2>1, PartExpected
  <2>3. Len(SubSeq(received, 0 + 1, 0 + n)) = n
    BY <1>1, <2>1, PartExpected
  <2>. QED  BY <2>2, <2>3
<1>3. AsExpected(SubSeq(stream, 0 + 1, 0 + n), 0 + 0) /\ Len(SubSeq(stream, 0 + 1, 0 + n)) = n
  <2>1. 0 + n <= Len(stream)
    BY <1>1
  <2>2. AsExpected(SubSeq(stream, 0 + 1, 0 + n), 0 + 0)
    BY <1>1, <2>1, PartExpected
  <2>3. Len(SubSeq(stream, 0 + 1, 0 + n)) = n
    BY <1>1, <2>1, PartExpected
  <2>. QED  BY <2>2, <2>3
<1>4. AsExpected(r, 0) /\ AsExpected(s, 0) /\ Len(r) = n /\ Len(s) = n
  BY <1>1, <1>2, <1>3
<1>. HIDE DEF r, s
<1>5. r \in Seq(Message) /\ s \in Seq(Message) /\ \A i \in 1..n : r[i] = s[i]
  BY <1>4 DEF AsExpected
<1>6. r = s
  BY <1>4, <1>5, SeqEqual
<1>. QED  BY <1>6 DEF r, s

LEMMA OrderFollows == Inv => InOrder
<1>. SUFFICES ASSUME Inv PROVE InOrder
  OBVIOUS
<1>1. /\ Len(received) <= Len(stream) /\ offset <= Len(received)
      /\ Len(received) \in 0..Len(received) /\ received \in Seq(Message)
  BY Lengths DEF Inv, StreamInv, AsExpected
<1>2. SubSeq(received, 1, Len(received)) = SubSeq(stream, 1, Len(received))
  BY <1>1, ReceivedIsPrefix DEF Inv
<1>3. SubSeq(received, 1, Len(received)) = received
  BY <1>1, SubSeqFull
<1>. QED  BY <1>1, <1>2, <1>3 DEF InOrder

(* What the client has copied is a beginning of what the server wrote, and *)
(* the server has forgotten nothing else, whatever the network does.       *)
THEOREM StreamInOrder == ConnSpec => []InOrder
  BY InvAlways, OrderFollows, PTL

(* No acknowledgement, however late, is one of data the client lacks.      *)
THEOREM AcksEarned == ConnSpec => []AcksAreEarned
<1>1. Inv => AcksAreEarned
  BY Lengths DEF Inv, StreamInv, AcksAreEarned, BadAck
<1>. QED  BY <1>1, InvAlways, PTL

(* A client that keeps to the protocol is never accused of breaking it.    *)
THEOREM AccusedNever == ConnSpec => []NeverAccused
<1>1. Inv => NeverAccused
  BY DEF Inv, Life, NeverAccused
<1>. QED  BY <1>1, InvAlways, PTL

(* The client reads the reply, the map, the reply and the messages, each   *)
(* where it looks for them, for every size of the map.                     *)
THEOREM StreamParsed == ConnSpec => []ParsesStream
<1>1. Inv => ParsesStream
  <2>. SUFFICES ASSUME Inv, NEW i \in 1..Len(received) PROVE received[i] = Expected(i)
    BY DEF ParsesStream
  <2>1. i \in Int /\ 0 + i = i
    BY Lengths DEF Inv
  <2>. QED  BY <2>1 DEF Inv, StreamInv, AsExpected
<1>. QED  BY <1>1, InvAlways, PTL

(* Neither side is in the game without the other on its way there.         *)
THEOREM SidesAlwaysAgree == ConnSpec => []SidesAgree
<1>1. Inv => SidesAgree
  <2>. SUFFICES ASSUME Inv PROVE SidesAgree
    OBVIOUS
  <2>1. /\ Len(received) \in Nat /\ Len(stream) \in Nat /\ Len(received) <= Len(stream)
        /\ phase \in {PhaseWith(Len(received)), "closed"}
    BY Lengths DEF Inv, Reading
  <2>2. ASSUME phase = "playing" PROVE state \in {"ready", "playing", "free"}
    <3>1. Len(stream) > Prologue
      BY <2>1, <2>2, PhaseTells, Constants
    <3>2. setup \in 0..SetupSize /\ state \in {"free", "listening", "drain", "setup", "login", "ready", "playing"}
      BY LifeAt DEF Inv
    <3>3. state \in {"listening", "drain", "setup", "login"} => Len(stream) \in {0, 1, 1 + setup, Prologue}
      BY LifeAt DEF Inv, Draining
    <3>4. Len(stream) \notin {0, 1, 1 + setup, Prologue}
      <4>1. setup \in 0..SetupSize
        BY <3>2
      <4>2. setup \in Nat /\ setup <= SetupSize
        BY <4>1, Constants
      <4>3. Len(stream) # 0 /\ Len(stream) # 1 /\ Len(stream) # Prologue
        BY <3>1, <2>1, Constants
      <4>4. Len(stream) # 1 + setup
        BY <3>1, <4>2, <2>1, Constants
      <4>. QED  BY <4>3, <4>4
    <3>. QED  BY <3>2, <3>3, <3>4
  <2>3. ASSUME state \in {"ready", "playing"} PROVE phase \in {"start", "playing", "closed"}
    <3>1. Len(received) >= Prologue
      BY <2>3, LifeAt DEF Inv
    <3>. QED  BY <2>1, <3>1, PhaseTells
  <2>. QED  BY <2>2, <2>3 DEF SidesAgree
<1>. QED  BY <1>1, InvAlways, PTL

GoodbyeIsBoolean == goodbye \in BOOLEAN

LEMMA GoodbyeAlways == ConnSpec => []GoodbyeIsBoolean
<1>1. ConnInit => GoodbyeIsBoolean
  BY DEF ConnInit, GoodbyeIsBoolean
<1>2. GoodbyeIsBoolean /\ [ConnNext]_vars => GoodbyeIsBoolean'
  <2>1. ConnNext => goodbye' = goodbye \/ goodbye' = TRUE
    BY DEF ConnNext, HandleInput, HandleListening, ReceiveDiscard, ReceiveQuit, LoginRefused,
           HandleLogin, PlayAgain, HandleKeys, ReceiveKeys, ReceiveUndefined, ReceiveAck, Input,
           Timeout, TimePasses, BreaksOff, LeftoversGetLost,
           SendMessage, SendEndOfFrame, Tick, Client, SendVerify, SendPlay, SendKeys, Ask,
           ClientReceives, ClientQuits, ClientIsThrownOut, DestroyConnection, vars, connVars
  <2>. QED  BY <2>1 DEF vars, connVars, GoodbyeIsBoolean
<1>. QED  BY <1>1, <1>2, PTL DEF ConnSpec

IdleIsInt == idle \in Int

LEMMA IdleAlways == ConnSpec => []IdleIsInt
<1>1. ConnInit => IdleIsInt
  BY DEF ConnInit, IdleIsInt
<1>2. IdleIsInt /\ [ConnNext]_vars => IdleIsInt'
  <2>1. ConnNext => idle' \in {0, idle, idle + 1, idle - MoreTime}
    <3>. USE DEF vars, connVars, serverVars
    <3>1. HandleInput => idle' \in {0, idle}
      BY DEF HandleInput, HandleListening, ReceiveDiscard, ReceiveQuit, LoginRefused,
             HandleLogin, PlayAgain, HandleKeys, ReceiveKeys, ReceiveUndefined, ReceiveAck,
             DestroyConnection, ConnSetState, Heard
    <3>2. Input => idle' \in {0, idle, idle - MoreTime}
      BY DEF Input, HandleSetup, ConnSetState
    <3>3. Timeout \/ TimePasses \/ BreaksOff \/ LeftoversGetLost => idle' \in {0, idle, idle + 1}
      BY DEF Timeout, TimePasses, BreaksOff, LeftoversGetLost, DestroyConnection, ConnSetState
    <3>4. SendMessage \/ SendEndOfFrame \/ Tick \/ Client => idle' = idle
      BY DEF SendMessage, SendEndOfFrame, Tick, Client, SendVerify, SendPlay, SendKeys, Ask,
             ClientReceives, ClientQuits, ClientIsThrownOut
    <3>. QED  BY <3>1, <3>2, <3>3, <3>4 DEF ConnNext
  <2>2. MoreTime \in {0, 1}
    BY DEF MoreTime
  <2>. QED  BY <2>1, <2>2 DEF vars, connVars, serverVars, IdleIsInt
<1>. QED  BY <1>1, <1>2, PTL DEF ConnSpec

(* Types, and the timer that is never off while something is unacknowledged. *)
THEOREM ConnectionTypes == ConnSpec => []ConnTypeOK
<1>1. Inv /\ GoodbyeIsBoolean /\ IdleIsInt => ConnTypeOK
  <2>. SUFFICES ASSUME Inv, goodbye \in BOOLEAN, idle \in Int PROVE ConnTypeOK
    BY DEF GoodbyeIsBoolean, IdleIsInt
  <2>1. /\ state \in {"free", "listening", "drain", "setup", "login", "ready", "playing"}
        /\ drainState \in {"free", "setup", "login", "playing"}
        /\ setup \in 0..SetupSize
    BY LifeAt DEF Inv
  <2>2. phase \in {"verify", "setup", "start", "playing", "closed"} /\ requests \subseteq Requests
    BY Lengths, PhaseTells DEF Inv, Reading
  <2>3. /\ offset \in 0..Len(stream)
        /\ unsent \in offset..Len(stream)
        /\ window \in 0..MaxAcks
    BY Lengths DEF Inv, StreamInv, Positions
  <2>4. timer \in {"off", "running", "due"} /\ (timer = "off" => unsent = offset)
    BY DEF Inv, StreamInv, TimerRight
  <2>. QED  BY <2>1, <2>2, <2>3, <2>4 DEF ConnTypeOK
<1>. QED  BY <1>1, InvAlways, GoodbyeAlways, IdleAlways, PTL

(* What a step does to the stream: it writes, forgets, delivers, or leaves *)
(* it alone.                                                               *)
LEMMA StreamWritten ==
  ASSUME Inv, ConnNext
  PROVE  \/ UNCHANGED <<stream, received, offset>>
         \/ HandleListening /\ stream' = <<Verified>> /\ UNCHANGED <<received, offset>>
         \/ (HandleLogin \/ Input \/ SendMessage) /\ UNCHANGED <<received, offset>>
         \/ ReceiveAck /\ UNCHANGED <<stream, received>>
         \/ (\E p \in data : ClientReceives(p)) /\ UNCHANGED <<stream, offset>>
<1>. USE DEF vars, streamVars, serverStream, connVars
<1>1. CASE HandleInput
  <2>1. CASE HandleListening
    BY <2>1 DEF HandleListening, DestroyConnection
  <2>2. CASE ReceiveDiscard \/ ReceiveKeys
    BY <2>2 DEF ReceiveDiscard, ReceiveKeys
  <2>3. CASE ReceiveQuit \/ LoginRefused \/ ReceiveUndefined
    BY <2>3 DEF ReceiveQuit, LoginRefused, ReceiveUndefined, DestroyConnection
  <2>4. CASE HandleLogin
    BY <2>4 DEF HandleLogin
  <2>5. CASE PlayAgain
    BY <2>5 DEF PlayAgain
  <2>6. CASE ReceiveAck
    BY <2>6 DEF ReceiveAck, DestroyConnection
  <2>. QED  BY <1>1, <2>1, <2>2, <2>3, <2>4, <2>5, <2>6 DEF HandleInput, HandleKeys
<1>2. CASE Input
  BY <1>2 DEF Input
<1>3. CASE Timeout \/ BreaksOff \/ TimePasses \/ LeftoversGetLost
  BY <1>3 DEF Timeout, BreaksOff, TimePasses, LeftoversGetLost, DestroyConnection
<1>4. CASE SendMessage
  BY <1>4 DEF SendMessage
<1>5. CASE SendEndOfFrame \/ Tick
  BY <1>5 DEF SendEndOfFrame, Tick, TimerExpires
<1>6. CASE Client
  <2>1. CASE SendVerify \/ SendPlay \/ SendKeys
    BY <2>1 DEF SendVerify, SendPlay, SendKeys, Ask
  <2>2. CASE \E p \in data : ClientReceives(p)
    BY <2>2 DEF ClientReceives, ReceiveReliable
  <2>3. CASE ClientQuits \/ ClientIsThrownOut
    BY <2>3 DEF ClientQuits, ClientIsThrownOut
  <2>. QED  BY <1>6, <2>1, <2>2, <2>3 DEF Client
<1>. QED  BY <1>1, <1>2, <1>3, <1>4, <1>5, <1>6 DEF ConnNext

LEMMA StreamGrows ==
  ASSUME Inv, ConnNext
  PROVE  stream' = stream \/ \E t \in Seq(Message) : stream' = stream \o t
<1>1. CASE HandleListening /\ stream' = <<Verified>>
  <2>1. Len(stream) = 0 /\ stream \in Seq(Message)
    BY <1>1, LifeAt DEF HandleListening, Inv, StreamInv, AsExpected
  <2>2. <<Verified>> \in Seq(Message)
    BY DEF Verified, Unit, Message
  <2>3. stream = <<>>
    BY <2>1
  <2>4. <<>> \o <<Verified>> = <<Verified>>
    BY <2>2, ConcatEmptySeq
  <2>. QED  BY <1>1, <2>2, <2>3, <2>4
<1>2. CASE HandleLogin
  <2>1. <<Started, News(0)>> \in Seq(Message)
    BY ReplyExpected DEF AsExpected
  <2>. QED  BY <1>2, <2>1 DEF HandleLogin
<1>3. CASE Input
  <2>1. CASE state = "setup"
    <3>1. stream' = stream \o [i \in 1..Chunk |-> MapUnit(setup + i)]
      BY <1>3, <2>1 DEF Input, HandleSetup
    <3>2. Chunk \in Nat /\ setup \in Nat
      <4>1. Len(stream) \in Nat /\ offset \in Nat /\ setup \in 0..SetupSize
        BY Lengths, LifeAt DEF Inv
      <4>. QED  BY <4>1, Constants DEF Chunk, Smaller, Larger
    <3>3. \A i \in 1..Chunk : MapUnit(setup + i) \in Message
      BY <3>2 DEF MapUnit, Unit, Message
    <3>4. [i \in 1..Chunk |-> MapUnit(setup + i)] \in Seq(Message)
      BY <3>2, <3>3
    <3>. QED  BY <3>1, <3>4
  <2>2. CASE state # "setup"
    BY <1>3, <2>2 DEF Input
  <2>. QED  BY <2>1, <2>2
<1>4. CASE SendMessage
  <2>1. Len(stream) \in Nat
    BY Lengths DEF Inv
  <2>2. News(Len(stream) - Prologue - 1) \in Message
    BY <2>1, Constants DEF News, Unit, Message
  <2>3. stream \in Seq(Message) /\ <<News(Len(stream) - Prologue - 1)>> \in Seq(Message)
    BY <2>2 DEF Inv, StreamInv, AsExpected
  <2>4. stream' = stream \o <<News(Len(stream) - Prologue - 1)>>
    BY <1>4, <2>2, <2>3, AppendIsConcat DEF SendMessage
  <2>. QED  BY <2>3, <2>4
<1>. QED  BY <1>1, <1>2, <1>3, <1>4, StreamWritten

(* The connection implements the pipe of Pipe, for every map and network:  *)
(* what is written arrives in order and once, and is kept until then.      *)
THEOREM PipeRefined == ConnSpec => RefinesPipe
<1>1. ConnInit => ThePipe!PipeInit
  BY DEF ConnInit, StreamInit, ThePipe!PipeInit
<1>. DEFINE PipeStep == [ThePipe!Write \/ ThePipe!Arrive \/ ThePipe!Forget]_<<stream, received, offset>>
<1>2. Inv /\ Inv' /\ InOrder' /\ [ConnNext]_vars => PipeStep
  <2>. SUFFICES ASSUME Inv, Inv', InOrder', ConnNext PROVE PipeStep
    BY DEF vars, streamVars, serverStream
  <2>0. /\ Len(received) \in Nat /\ Len(received') \in Nat
        /\ offset \in Nat /\ offset' \in Nat /\ offset' <= Len(received')
        /\ Len(received') <= Len(stream')
    BY Lengths DEF Inv, StreamInv, AsExpected, Positions
  <2>1. CASE UNCHANGED <<received, offset>>
    <3>1. CASE stream' = stream
      BY <2>1, <3>1
    <3>2. CASE stream' # stream
      <4>1. PICK t \in Seq(Message) : stream' = stream \o t
        BY <3>2, StreamGrows
      <4>2. stream \in Seq(Message)
        BY DEF Inv, StreamInv, AsExpected
      <4>3. Len(stream) \in Nat /\ Len(t) \in Nat /\ Len(stream') = Len(stream) + Len(t)
        BY <4>1, <4>2, ConcatProperties
      <4>4. Len(t) # 0
        BY <3>2, <4>1, <4>2, ConcatEmptySeq
      <4>5. SubSeq(stream', 1, Len(stream')) = stream'
        BY <4>1, <4>2, SubSeqFull, ConcatProperties
      <4>6. SubSeq(stream \o t, 1, Len(stream)) = SubSeq(stream, 1, Len(stream))
        BY <4>2, <4>3, SubSeqOfConcat1
      <4>7. SubSeq(stream, 1, Len(stream)) = stream
        BY <4>2, SubSeqFull
      <4>8. stream = SubSeq(stream', 1, Len(stream') - Len(t)) /\ Len(t) \in 1..Len(stream')
        BY <4>1, <4>3, <4>4, <4>6, <4>7
      <4>. QED  BY <2>1, <4>8 DEF ThePipe!Write
    <3>. QED  BY <3>1, <3>2
  <2>2. CASE ReceiveAck /\ UNCHANGED <<stream, received>>
    <3>1. offset' = offset \/ offset' > offset
      <4>1. offset' = offset \/ \E rel \in ackSet : ~LateAck(rel) /\ offset' = rel
        BY <2>2 DEF ReceiveAck, DestroyConnection, AdvanceTo, serverStream, vars, streamVars
      <4>2. \A rel \in ackSet : rel \in Nat
        BY DEF Inv, StreamInv
      <4>. QED  BY <2>0, <4>1, <4>2 DEF LateAck
    <3>2. CASE offset' > offset
      BY <2>0, <2>2, <3>2 DEF ThePipe!Forget
    <3>. QED  BY <2>2, <3>1, <3>2
  <2>3. CASE (\E p \in data : ClientReceives(p)) /\ UNCHANGED <<stream, offset>>
    <3>1. PICK p \in data : ReceiveReliable(p)
      BY <2>3 DEF ClientReceives
    <3>2. received' = received \/ Len(received') > Len(received)
      BY <3>1, ReceiveKeeps DEF Inv
    <3>3. CASE Len(received') > Len(received)
      <4>2. received' = SubSeq(stream, 1, Len(received'))
        BY <2>3 DEF InOrder
      <4>3. Len(received') \in Len(received) + 1..Len(stream)
        BY <2>0, <2>3, <3>3
      <4>. QED  BY <2>3, <4>2, <4>3 DEF ThePipe!Arrive
    <3>. QED  BY <2>3, <3>2, <3>3
  <2>. QED  BY <2>1, <2>2, <2>3, StreamWritten
<1>. QED  BY <1>1, <1>2, InvAlways, StreamInOrder, PTL DEF ConnSpec, RefinesPipe, ThePipe!PipeSpec
=============================================================================
