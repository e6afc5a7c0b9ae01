--------------------------- MODULE ReliableStream ---------------------------
(***************************************************************************)
(* The reliable data stream from the server to a client over UDP           *)
(* (netserver.c: Send_reliable, Receive_ack; netclient.c:                  *)
(* Receive_reliable).  The server keeps in connp->c what is not yet        *)
(* acknowledged and sends it again from its beginning, in a window that    *)
(* grows with the acknowledgements and halves when the timer runs out; the *)
(* client takes what continues its stream and answers every packet with    *)
(* its own position.                                                       *)
(*                                                                         *)
(* A unit of the stream stands for 512 bytes.  Time is only the state of   *)
(* the retransmission timer; how long it runs (the round trip estimates)   *)
(* is left out.                                                            *)
(***************************************************************************)
EXTENDS Integers, Sequences, FiniteSets

CONSTANTS
  MaxPacket,    \* MAX_RELIABLE_DATA_PACKET_SIZE, in units
  MaxInFlight,  \* bound: datagrams of one kind on the way
  MaxAcks       \* bound: connp->acks; more packets than c ever fills

ASSUME StreamAssumption ==
  /\ MaxPacket \in Nat \ {0}
  /\ MaxInFlight \in Nat \ {0}
  /\ MaxAcks \in Nat

VARIABLES
  state,      \* of connp; the server listens to the client unless it is "free"
  phase,      \* of the client, which listens to the server unless it is "closed"
  stream,     \* everything written to connp->c; c holds the part behind offset
  offset,     \* connp->reliable_offset
  unsent,     \* connp->reliable_unsent
  window,     \* connp->acks
  timer,      \* retransmit_at_loop: "off" (0), "running" or "due"
  data,       \* PKT_RELIABLE datagrams on the way
  ackSet,     \* PKT_ACK datagrams on the way
  received    \* everything the client has copied to cbuf

serverStream == <<stream, offset, unsent, window, timer>>
streamVars   == <<serverStream, data, ackSet, received>>

StreamInit ==
  /\ stream = <<>> /\ offset = 0 /\ unsent = 0 /\ window = 0 /\ timer = "off"
  /\ data = {} /\ ackSet = {} /\ received = <<>>

Smaller(a, b) == IF a < b THEN a ELSE b
Larger(a, b)  == IF a < b THEN b ELSE a

(* The network keeps some of the datagrams, and may deliver one again.     *)
(* What is sent to a closed socket arrives nowhere.                        *)
Held(datagrams)     == {S \in SUBSET datagrams : Cardinality(S) <= MaxInFlight}
ToClient(datagrams) == IF phase = "closed" THEN {{}} ELSE Held(datagrams)
ToServer(datagrams) == IF state = "free" THEN {{}} ELSE Held(datagrams)
-----------------------------------------------------------------------------
(* The server.  The operators speak of stream', so that a handler can      *)
(* write to c and send in one step.                                        *)

Kept == Len(stream') - offset    \* connp->c.len

Packet(from, n) == [rel |-> from, units |-> SubSeq(stream', from + 1, from + n)]

(* The packets of the sending loop, when there are todo units to send.     *)
Burst(todo, count) ==
  {Packet(offset + i * MaxPacket, Smaller(MaxPacket, todo - i * MaxPacket)) :
     i \in 0..count - 1}

PacketsIn(todo) == (todo + MaxPacket - 1) \div MaxPacket

(* A timeout halves the window. *)
Window == IF timer = "due" THEN window \div 2 ELSE window

(* count packets of what the loop would send; fewer when the socket blocks. *)
Transmit(todo, full, count) ==
  /\ data' \in ToClient(data \union Burst(todo, count))
  /\ window' = IF count < full THEN 0 ELSE Window
  /\ unsent' = Larger(unsent, offset + Smaller(todo, count * MaxPacket))
  /\ timer' = IF count = 0 THEN timer ELSE "running"

SendNothing == UNCHANGED <<data, window, unsent, timer>>

(* Send_reliable with an empty w: packets of its own. *)
SendReliable ==
  IF Kept = 0 \/ timer = "running" THEN SendNothing
  ELSE LET full == Smaller(Window + 1, PacketsIn(Kept))
       IN  \E count \in 0..full : Transmit(Kept, full, count)

(* Without the test of the timer a frame takes only new data along. *)
SendWithFrameOnlyNew(room) ==
  LET todo == Smaller(Kept, room)
  IN  IF Kept = 0 \/ todo <= unsent - offset THEN SendNothing
      ELSE \E count \in 0..1 : Transmit(todo, 1, count)

(* Send_reliable with a frame in w that leaves room for some units.  While *)
(* the timer runs, only something new makes it worth while.                *)
SendWithFrame(room) ==
  LET todo == Smaller(Kept, room)
  IN  IF Kept = 0 \/ (timer = "running" /\ todo <= unsent - offset) THEN SendNothing
      ELSE \E count \in 0..1 : Transmit(todo, 1, count)

TimerExpires ==
  /\ timer = "running"
  /\ timer' = "due"
  /\ UNCHANGED <<stream, offset, unsent, window, data, ackSet, received>>

BadAckOffByOne(rel) == rel - offset >= Len(stream) - offset

BadAck(rel) == rel - offset > Len(stream) - offset

LateAck(rel) == rel <= offset

GrowWindow(diff) ==
  window' = Smaller(MaxAcks, IF diff > window THEN diff ELSE window + 1)

(* Receive_ack, of an acknowledgement that is neither bad nor late. *)
AdvanceTo(rel) ==
  /\ offset' = rel
  /\ GrowWindow(rel - offset)
  /\ timer' = IF rel >= unsent THEN "off" ELSE timer
  /\ UNCHANGED <<unsent, data>>
-----------------------------------------------------------------------------
(* The client. *)

SendAck(position) == ackSet' \in ToServer(ackSet \union {position})

(* The part that is already there is not cut off. *)
ReceiveReliableUntrimmed(p) ==
  /\ p \in data
  /\ received' = IF p.rel > Len(received) \/ p.rel + Len(p.units) <= Len(received)
                 THEN received
                 ELSE received \o p.units
  /\ SendAck(Len(received'))
  /\ UNCHANGED <<serverStream, data>>

(* A packet beyond a gap, or of data that is already there, is only        *)
(* acknowledged; of an overlap the new part is taken.                      *)
ReceiveReliable(p) ==
  /\ p \in data
  /\ received' = IF p.rel > Len(received) \/ p.rel + Len(p.units) <= Len(received)
                 THEN received
                 ELSE received \o SubSeq(p.units, Len(received) - p.rel + 1, Len(p.units))
  /\ SendAck(Len(received'))
  /\ UNCHANGED <<serverStream, data>>

-----------------------------------------------------------------------------
(* What the client has copied is the beginning of what the server wrote,   *)
(* and Sockbuf_advance has thrown nothing out of connp->c that the client  *)
(* does not have: packets and acknowledgements lost, repeated and out of   *)
(* order, packets that overlap.                                            *)
InOrder ==
  /\ Len(received) <= Len(stream)
  /\ received = SubSeq(stream, 1, Len(received))
  /\ offset <= Len(received)

(* No acknowledgement on the way, however late, speaks of data that the    *)
(* client does not have, so Receive_ack finds none that is "impossible".   *)
AcksAreEarned == \A rel \in ackSet : ~BadAck(rel) /\ rel <= Len(received)

(* The stream is a pipe: in order, once, nothing forgotten too early. *)
ThePipe == INSTANCE Pipe WITH written <- stream, got <- received, forgotten <- offset

RefinesPipe == ThePipe!PipeSpec
=============================================================================
