----------------------------- MODULE Connection -----------------------------
(***************************************************************************)
(* The life of one connection, from the port the server has opened for a   *)
(* client to its end: the states of the server (netserver.c: Input,        *)
(* Handle_input and its dispatch tables, Handle_listening, Handle_setup,   *)
(* Receive_play) against the phases of the client (netclient.c: Net_verify,*)
(* Net_setup, Net_start, then the game).  Everything the server answers    *)
(* goes over the reliable stream; the requests of the client do not, they  *)
(* are repeated until the answer comes.  The server gives up a client when *)
(* connp->start is too long ago, the client gives up at any time.          *)
(***************************************************************************)
EXTENDS ReliableStream

CONSTANTS
  SetupSize,   \* the map, in units
  SetupChunk,  \* c is filled up to 4096 bytes in CONN_SETUP
  LISTEN_TIMEOUT, SETUP_TIMEOUT, LOGIN_TIMEOUT, READY_TIMEOUT, IDLE_TIMEOUT,
  MaxNews,     \* bound: messages written while the client plays
  MaxRequests  \* bound: requests on the way

ASSUME ConnectionAssumption ==
  /\ SetupSize \in Nat \ {0}
  /\ SetupChunk \in Nat \ {0}
  /\ LISTEN_TIMEOUT \in Nat /\ SETUP_TIMEOUT \in Nat /\ LOGIN_TIMEOUT \in Nat
  /\ READY_TIMEOUT \in Nat /\ IDLE_TIMEOUT \in Nat
  /\ MaxNews \in Nat
  /\ MaxRequests \in Nat \ {0}

VARIABLES
  drainState,         \* of connp
  setup,              \* connp->setup: how much of the map is written
  idle,               \* main_loops - connp->start, in units of time
  reason,             \* why the connection was destroyed
  requests,           \* datagrams of the client on the way, but PKT_ACK
  goodbye             \* whether a PKT_QUIT of the server is on the way

serverVars == <<state, drainState, setup, idle, reason>>
connVars   == <<serverVars, phase, requests, goodbye>>
vars       == <<streamVars, connVars>>

Requests == {"verify", "play", "keys", "quit"}

(* What c carries, in the order the client's functions expect it: the      *)
(* reply to PKT_VERIFY with the magic, the map, the reply to PKT_PLAY, and *)
(* what Net_packet reads.                                                  *)
Unit(kind, n) == [kind |-> kind, n |-> n]
Verified      == Unit("verified", 0)
MapUnit(n)    == Unit("map", n)
Started       == Unit("started", 0)
News(n)       == Unit("news", n)

Prologue == 1 + SetupSize    \* the units before Started

ConnInit ==
  /\ StreamInit
  /\ state = "listening" /\ drainState = "free" /\ setup = 0 /\ idle = 0 /\ reason = "none"
  /\ phase = "verify" /\ requests = {} /\ goodbye = FALSE

ConnSetState(new, drain) == state' = new /\ drainState' = drain /\ idle' = 0

(* connp->timeout.  CONN_DRAIN has none of its own and keeps that of the   *)
(* state before.                                                           *)
TimeoutOf ==
  CASE state = "listening" \/ (state = "drain" /\ drainState = "setup") -> LISTEN_TIMEOUT
    [] state = "setup" \/ (state = "drain" /\ drainState = "login") -> SETUP_TIMEOUT
    [] state = "ready" -> READY_TIMEOUT
    [] state = "playing" -> IDLE_TIMEOUT
    [] OTHER -> LOGIN_TIMEOUT

TimedOut == idle > TimeoutOf

(* The server's socket is closed with the connection.                      *)
DestroyConnection(why) ==
  /\ ConnSetState("free", "free")
  /\ setup' = 0
  /\ reason' = why
  /\ goodbye' = TRUE
  /\ requests' = {} /\ ackSet' = {}
  /\ UNCHANGED <<serverStream, data, received, phase>>
-----------------------------------------------------------------------------
(* The server's input: Handle_input and the functions of its tables. *)

Gets(request) == request \in requests

(* A packet that is read (not discarded, nor PKT_PLAY) starts the timeout  *)
(* of the game anew, and a change of state that of any other.              *)
Heard == idle' = IF state' = "playing" \/ state' # state THEN 0 ELSE idle

HandleListening ==
  /\ state = "listening"
  /\ \E request \in requests :
       IF request # "verify" THEN DestroyConnection("not connecting")
       ELSE \/ DestroyConnection("confirm failed")
            \/ /\ stream' = <<Verified>>
               /\ Transmit(1, 1, 1)
               /\ ConnSetState("drain", "setup")
               /\ UNCHANGED <<offset, ackSet, received, setup, reason, phase, requests, goodbye>>

(* drain_receive discards PKT_VERIFY and PKT_PLAY with the rest of their   *)
(* datagram, as the other tables discard PKT_VERIFY.                       *)
Discards(request) ==
  \/ request = "verify" /\ state # "listening"
  \/ request = "play" /\ state \in {"drain", "setup", "ready"}

ReceiveDiscard == \E request \in Requests :
  Gets(request) /\ Discards(request) /\ UNCHANGED vars

ReceiveQuit == Gets("quit") /\ state # "listening" /\ DestroyConnection("client quit")

LoginRefused == Gets("play") /\ state = "login" /\ DestroyConnection("login failed")

(* The reply to PKT_PLAY is waited for in CONN_DRAIN, as the map is. *)
HandleLoginDraining ==
  /\ Gets("play")
  /\ state = "login"
  /\ stream' = stream \o <<Started, News(0)>>
  /\ ConnSetState("drain", "playing")
  /\ UNCHANGED <<offset, unsent, window, timer, data, ackSet, received,
                 setup, reason, phase, requests, goodbye>>

(* Handle_login: the reply, and who is in the game. *)
HandleLogin ==
  /\ Gets("play")
  /\ state = "login"
  /\ stream' = stream \o <<Started, News(0)>>
  /\ ConnSetState("ready", "playing")
  /\ UNCHANGED <<offset, unsent, window, timer, data, ackSet, received,
                 setup, reason, phase, requests, goodbye>>

(* PKT_PLAY again, from a client that has not seen the reply. *)
PlayAgain ==
  /\ Gets("play")
  /\ state = "playing"
  /\ UNCHANGED stream
  /\ SendReliable
  /\ UNCHANGED <<offset, ackSet, received, connVars>>

ReceiveKeys ==
  /\ Gets("keys")
  /\ state \in {"ready", "playing"}
  /\ UNCHANGED <<streamVars, state, drainState, setup, reason, phase, requests, goodbye>>
  /\ Heard

ReceiveUndefined ==
  /\ Gets("keys")
  /\ state \in {"drain", "setup", "login"}
  /\ DestroyConnection("undefined packet")

(* PKT_KEYBOARD is in the table of the game alone. *)
HandleKeys ==
  IF state \in {"ready", "playing"} THEN ReceiveKeys ELSE ReceiveUndefined

(* CONN_DRAIN is left when all that was sent is acknowledged.  CONN_READY  *)
(* is left unless c begins with a byte of a reply, as a map or the middle  *)
(* of a message may do too.                                                *)
StatesAfterAck(rel) ==
  CASE state = "drain" -> {IF rel >= unsent THEN drainState ELSE state}
    [] state = "ready" ->
         IF rel = Len(stream) THEN {drainState}
         ELSE CASE stream[rel + 1].kind = "started" -> {state}
                [] OTHER -> {state, drainState}
    [] OTHER -> {state}

ReceiveAck ==
  /\ state \notin {"free", "listening"}
  /\ \E rel \in ackSet :
       \/ BadAck(rel) /\ DestroyConnection("bad ack")
       \/ /\ ~BadAck(rel) /\ LateAck(rel)
          /\ UNCHANGED <<streamVars, state, drainState, setup, reason, phase, requests, goodbye>>
          /\ Heard
       \/ /\ ~BadAck(rel) /\ ~LateAck(rel)
          /\ AdvanceTo(rel)
          /\ state' \in StatesAfterAck(rel)
          /\ Heard
          /\ UNCHANGED <<stream, ackSet, received, drainState, setup, reason,
                         phase, requests, goodbye>>

HandleInput ==
  \/ HandleListening
  \/ ReceiveDiscard
  \/ ReceiveQuit
  \/ LoginRefused
  \/ HandleLogin
  \/ PlayAgain
  \/ HandleKeys
  \/ ReceiveAck
-----------------------------------------------------------------------------
(* The server's main loop. *)

(* Handle_setup: as much of the map as c may hold. *)
Chunk == Larger(0, Smaller(SetupChunk - (Len(stream) - offset), SetupSize - setup))

(* (len * FPS) / (8 * 512) + 1 frames more for a part of the map that is   *)
(* written: the unit of time.                                              *)
MoreTime == IF Chunk = 0 THEN 0 ELSE 1

(* Each part of the map begins where the last one began. *)
HandleSetupAgain ==
  /\ stream' = stream \o [i \in 1..Chunk |-> MapUnit(i)]
  /\ setup' = setup + Chunk
  /\ IF setup' = SetupSize THEN ConnSetState("drain", "login")
     ELSE idle' = idle - MoreTime /\ UNCHANGED <<state, drainState>>

HandleSetup ==
  /\ stream' = stream \o [i \in 1..Chunk |-> MapUnit(setup + i)]
  /\ setup' = setup + Chunk
  /\ IF setup' = SetupSize THEN ConnSetState("drain", "login")
     ELSE idle' = idle - MoreTime /\ UNCHANGED <<state, drainState>>

(* Input(), for a connection that has time left but does not play: setup,  *)
(* then sending.                                                           *)
Input ==
  /\ ~TimedOut
  /\ state \in {"setup", "drain", "login", "ready"}
  /\ IF state = "setup" THEN HandleSetup
     ELSE UNCHANGED <<stream, state, drainState, setup, idle>>
  /\ SendReliable
  /\ UNCHANGED <<offset, ackSet, received, reason, phase, requests, goodbye>>

(* Input(), for a connection whose time is up. *)
Timeout == state # "free" /\ TimedOut /\ DestroyConnection("timeout")

(* main_loops goes on, at most until the time is up: a bound.              *)
TimePasses ==
  /\ state # "free"
  /\ ~TimedOut
  /\ idle' = idle + 1
  /\ UNCHANGED <<streamVars, state, drainState, setup, reason, phase, requests, goodbye>>

(* The socket breaks, or the operator breaks off the connection.           *)
BreaksOff == state # "free" /\ DestroyConnection("error")

(* Send_message and its like, to a client that may take it. *)
SendMessage ==
  /\ state \in {"ready", "playing"}
  /\ Len(stream) < Prologue + 2 + MaxNews
  /\ stream' = Append(stream, News(Len(stream) - Prologue - 1))
  /\ UNCHANGED <<offset, unsent, window, timer, data, ackSet, received, connVars>>

(* A frame that is sent counts as a sign of life. *)
SendEndOfFrameAlive ==
  /\ state = "playing"
  /\ UNCHANGED stream
  /\ \E room \in 1..MaxPacket - 1 : SendWithFrame(room)
  /\ idle' = 0
  /\ UNCHANGED <<offset, ackSet, received, state, drainState, setup, reason,
                 phase, requests, goodbye>>

(* Send_end_of_frame.  A frame that is too big takes nothing along. *)
SendEndOfFrame ==
  /\ state = "playing"
  /\ UNCHANGED stream
  /\ \E room \in 1..MaxPacket - 1 : SendWithFrame(room)
  /\ UNCHANGED <<offset, ackSet, received, connVars>>

Tick == state # "free" /\ TimerExpires /\ UNCHANGED connVars
-----------------------------------------------------------------------------
(* The client. *)

(* The phase that has read n units, every unit being what it expects. *)
PhaseWith(n) ==
  CASE n = 0 -> "verify"
    [] n \in 1..SetupSize -> "setup"
    [] n = Prologue -> "start"
    [] OTHER -> "playing"

Asked(request) ==
  IF state = "free" THEN {{}}
  ELSE {S \in SUBSET (requests \union {request}) : Cardinality(S) <= MaxRequests}

Ask(request) ==
  /\ requests' \in Asked(request)
  /\ UNCHANGED <<streamVars, serverVars, phase, goodbye>>

SendVerify == phase = "verify" /\ Ask("verify")
SendPlay   == phase = "start" /\ Ask("play")
SendKeys   == phase = "playing" /\ Ask("keys")

(* A packet of the stream.  In the game it may come with a frame that is   *)
(* out of order, and be dropped with it; so it may in Net_start.  That is  *)
(* the same as its loss.                                                   *)
ClientReceives(p) ==
  /\ phase # "closed"
  /\ ReceiveReliable(p)
  /\ phase' = PhaseWith(Len(received'))
  /\ UNCHANGED <<serverVars, requests, goodbye>>

(* Net_cleanup, after an error, too many retries, or at the player's wish. *)
ClientQuits ==
  /\ phase # "closed"
  /\ phase' = "closed"
  /\ requests' \in Asked("quit")
  /\ data' = {}
  /\ UNCHANGED <<serverStream, ackSet, received, serverVars, goodbye>>

ClientIsThrownOut ==
  /\ goodbye
  /\ phase # "closed"
  /\ phase' = "closed"
  /\ data' = {}
  /\ UNCHANGED <<serverStream, ackSet, received, serverVars, requests, goodbye>>

Client ==
  \/ SendVerify
  \/ SendPlay
  \/ SendKeys
  \/ \E p \in data : ClientReceives(p)
  \/ ClientQuits
  \/ ClientIsThrownOut

(* What a client that is gone has left on the way is lost in the end.      *)
LeftoversGetLost ==
  /\ phase = "closed"
  /\ requests # {} \/ ackSet # {}
  /\ requests' = {} /\ ackSet' = {}
  /\ UNCHANGED <<serverStream, data, received, serverVars, phase, goodbye>>

ConnNext ==
  \/ HandleInput
  \/ Input
  \/ Timeout
  \/ TimePasses
  \/ BreaksOff
  \/ SendMessage
  \/ SendEndOfFrame
  \/ Tick
  \/ Client
  \/ LeftoversGetLost

ConnSpec == ConnInit /\ [][ConnNext]_vars

(* Fairness.  The server's loop runs and its timer runs out, the client    *)
(* asks again; of what is sent again and again the network lets something  *)
(* through, and the socket does not block every time.  Of a client that is *)
(* gone nothing is on the way for ever, and time goes on.                  *)
FirstKept == {p \in data : p.rel = offset}

Sends ==
  /\ Input \/ SendEndOfFrame
  /\ timer # "running" /\ timer' = "running"
  /\ FirstKept' # {}

Fairness ==
  /\ WF_vars(Tick)
  /\ SF_vars(Sends)
  /\ SF_vars(\E p \in FirstKept : ClientReceives(p) /\ Len(received') \in ackSet')
  /\ SF_vars(ReceiveAck /\ offset' > offset)
  /\ SF_vars((SendVerify /\ "verify" \in requests') \/ (SendPlay /\ "play" \in requests'))
  /\ SF_vars(HandleListening \/ HandleLogin)
  /\ WF_vars(LeftoversGetLost)
  /\ WF_vars(phase = "closed" /\ TimePasses)
  /\ WF_vars(Timeout)

FairConnSpec == ConnSpec /\ Fairness
-----------------------------------------------------------------------------
(* The connection's types.  The timer is off exactly when nothing sent is  *)
(* left to be acknowledged (Receive_ack), or nothing would be sent again.  *)
ConnTypeOK ==
  /\ state \in {"free", "listening", "drain", "setup", "login", "ready", "playing"}
  /\ drainState \in {"free", "setup", "login", "playing"}
  /\ setup \in 0..SetupSize
  /\ idle \in Int
  /\ phase \in {"verify", "setup", "start", "playing", "closed"}
  /\ requests \subseteq Requests
  /\ goodbye \in BOOLEAN
  /\ offset \in 0..Len(stream)
  /\ unsent \in offset..Len(stream)
  /\ window \in 0..MaxAcks
  /\ timer \in {"off", "running", "due"}
  /\ timer = "off" => unsent = offset

(* A client that keeps to the protocol is never thrown out for what it     *)
(* sends: no late, early or repeated datagram of its is an impossible      *)
(* acknowledgement or a packet type that the state of the moment rejects   *)
(* (Receive_ack, Receive_undefined).                                       *)
NeverAccused == reason \notin {"bad ack", "undefined packet"}

Expected(i) ==
  CASE i = 1 -> Verified
    [] i \in 2..Prologue -> MapUnit(i - 1)
    [] i = Prologue + 1 -> Started
    [] OTHER -> News(i - Prologue - 2)

(* Net_verify, Net_setup, Net_start and Net_packet each read from cbuf     *)
(* what they expect: the reply, the map in order and whole, the reply to   *)
(* PKT_PLAY, the messages.  None of them checks more than a type.          *)
ParsesStream == \A i \in 1..Len(received) : received[i] = Expected(i)

(* Neither side is in the game without the other on its way there: the     *)
(* client plays only after the server has logged it in, and the server     *)
(* logs in only a client that has the whole map.                           *)
SidesAgree ==
  /\ phase = "playing" => state \in {"ready", "playing", "free"}
  /\ state \in {"ready", "playing"} => phase \in {"start", "playing", "closed"}

Over == phase = "closed" \/ state = "free"

(* A connection nobody breaks off gets into the game, and everything the   *)
(* server has written arrives and is acknowledged, whatever is lost.       *)
AllArrives == <>[](Over \/ (phase = "playing" /\ received = stream /\ offset = Len(stream)))

(* The server gets rid of a client that is gone, its PKT_QUIT lost or not: *)
(* no acknowledgement or key that comes late, no part of the map that is   *)
(* written, no frame that is sent and no change of state keeps starting    *)
(* its timeout anew, in whatever state it is.                              *)
ForgetsTheGone == phase = "closed" ~> state = "free"
=============================================================================
