----------------------------- MODULE KeyboardLink -----------------------------
(***************************************************************************)
(* The keyboard protocol between a bot's client and the server: key counts *)
(* and vector (client/event.c), numbered keyboard datagrams and their      *)
(* acknowledgement in every frame (client/netclient.c), and the server's   *)
(* side (server/netserver.c, server/event.c).  Both directions are UDP: a  *)
(* datagram may be lost, duplicated, delayed or reordered.                 *)
(***************************************************************************)
EXTENDS Naturals, Sequences, FiniteSets

CONSTANTS
    Keys,         \* keys known to the server (key < NUM_KEYS)
    MaxCount,     \* where a key's press count saturates (255 in the code)
    Room,         \* other packets that fit in wbuf and leave a keyboard room
    MaxOther,     \* bound: other packets queued in wbuf at a time
    MaxChange,    \* bound: keyboard changes made
    MaxFrames     \* bound: frames in flight

ASSUME LinkAssumption ==
    /\ MaxCount \in Nat \ {0}
    /\ Room \in Nat
    /\ MaxOther \in Nat
    /\ MaxChange \in Nat
    /\ MaxFrames \in Nat \ {0}

VARIABLES
    keyv_new,              \* presses not yet released, per key
    keyv,                  \* the client's key vector: the keys that are down
    last_keyboard_change,  \* number of the client's latest change
    last_keyboard_ack,     \* latest change the server is known to have
    updated,               \* last_keyboard_update = last_loops
    queued,                \* packets in wbuf besides the keyboard
    inFrame,               \* Net_input is processing a frame
    keyboards,             \* keyboard datagrams in flight
    frames,                \* key_ack of each frame in flight, oldest first
    last_key_change,       \* server: latest change received
    last_keyv,             \* server: its vector (also prev_keyv)
    wiped,                 \* history: Go_home has cleared it since then
    written                \* history: the client's vector at each change

clientVars == <<keyv_new, keyv, last_keyboard_change, last_keyboard_ack,
                updated, queued, inFrame>>
serverVars == <<last_key_change, last_keyv, wiped>>
vars == <<clientVars, keyboards, frames, serverVars, written>>

Datagrams == [change : Nat, keyv : SUBSET Keys]

(* The types; a press count stays within the byte it is kept in. *)
TypeOK ==
    /\ keyv_new \in [Keys -> 0..MaxCount]
    /\ keyv \in SUBSET Keys
    /\ last_keyboard_change \in 0..MaxChange
    /\ last_keyboard_ack \in Nat
    /\ updated \in BOOLEAN
    /\ queued \in 0..MaxOther
    /\ inFrame \in BOOLEAN
    /\ keyboards \in SUBSET Datagrams
    /\ frames \in Seq(Nat)
    /\ last_key_change \in Nat
    /\ last_keyv \in SUBSET Keys
    /\ wiped \in BOOLEAN
    /\ written \in Seq(SUBSET Keys)

Init ==
    /\ keyv_new = [k \in Keys |-> 0]
    /\ keyv = {}
    /\ last_keyboard_change = 0
    /\ last_keyboard_ack = 0
    /\ updated = TRUE           \* both are 0 before the first frame
    /\ queued = 0
    /\ inFrame = FALSE
    /\ keyboards = {}
    /\ frames = <<>>
    /\ last_key_change = 0
    /\ last_keyv = {}
    /\ wiped = FALSE
    /\ written = << {} >>

-----------------------------------------------------------------------------
(* The client.                                                             *)

(* Send_keyboard: refuses when wbuf lacks room, else numbers the vector    *)
(* and flushes everything; the flushed datagram may already be lost.       *)
SendKeyboard(change, v) ==
    IF queued > Room
    THEN UNCHANGED <<updated, queued, keyboards>>
    ELSE /\ updated' = TRUE
         /\ queued' = 0
         /\ keyboards' = keyboards \cup {[change |-> change, keyv |-> v]}

(* Net_key_change: a new change number, sent at once. *)
NetKeyChange(v) ==
    /\ last_keyboard_change < MaxChange
    /\ last_keyboard_change' = last_keyboard_change + 1
    /\ keyv' = v
    /\ written' = Append(written, v)
    /\ SendKeyboard(last_keyboard_change + 1, v)

(* Keyboard_button_pressed: only the first of several presses sets the     *)
(* bit, but every one of them makes a change.                              *)
Press(k) ==
    /\ keyv_new' = [keyv_new EXCEPT
                      ![k] = IF @ < MaxCount THEN @ + 1 ELSE @]
    /\ NetKeyChange(IF keyv_new[k] = 0 THEN keyv \cup {k} ELSE keyv)
    /\ UNCHANGED <<last_keyboard_ack, inFrame, frames, serverVars>>

(* Mutant of Release: the last release of a key is not numbered. *)
ReleaseUnnumbered(k) ==
    /\ keyv_new[k] > 0
    /\ keyv_new' = [keyv_new EXCEPT ![k] = @ - 1]
    /\ keyv' = IF keyv_new[k] = 1 THEN keyv \ {k} ELSE keyv
    /\ UNCHANGED <<last_keyboard_change, last_keyboard_ack, updated, queued,
                   inFrame, keyboards, frames, serverVars, written>>

(* Keyboard_button_released: the bit goes when the last press is released; *)
(* releasing a key that is not down still makes a change.                  *)
Release(k) ==
    /\ keyv_new' = [keyv_new EXCEPT ![k] = IF @ > 0 THEN @ - 1 ELSE @]
    /\ NetKeyChange(IF keyv_new[k] = 1 THEN keyv \ {k} ELSE keyv)
    /\ UNCHANGED <<last_keyboard_ack, inFrame, frames, serverVars>>

(* Packet_printf of a turn, power or display packet into wbuf. *)
QueueOther ==
    /\ queued < MaxOther
    /\ queued' = queued + 1
    /\ UNCHANGED <<keyv_new, keyv, last_keyboard_change, last_keyboard_ack,
                   updated, inFrame, keyboards, frames, serverVars, written>>

Unacked == last_keyboard_ack # last_keyboard_change

(* Receive_start: a frame newer than the last one is accepted, which makes *)
(* every older frame in flight stale; its ack counts if it is news.        *)
ReceiveFrame(i) ==
    /\ ~inFrame
    /\ frames' = SubSeq(frames, i + 1, Len(frames))
    /\ last_keyboard_ack' =
         IF frames[i] \in (last_keyboard_ack + 1)..last_keyboard_change
         THEN frames[i] ELSE last_keyboard_ack
    /\ updated' = FALSE
    /\ inFrame' = TRUE
    /\ UNCHANGED <<keyv_new, keyv, last_keyboard_change, queued, keyboards,
                   serverVars, written>>

(* Net_flush: with an unacknowledged change not yet sent in this frame the *)
(* keyboard is added (Key_update); otherwise wbuf is flushed as it is.     *)
NetFlush ==
    IF queued > 0 /\ Unacked /\ ~updated
    THEN SendKeyboard(last_keyboard_change, keyv)
    ELSE queued' = 0 /\ UNCHANGED <<updated, keyboards>>

(* Mutant of FinishFrame: an unacknowledged change is not repeated. *)
FinishFrameForgets ==
    /\ inFrame
    /\ inFrame' = FALSE
    /\ NetFlush
    /\ UNCHANGED <<keyv_new, keyv, last_keyboard_change, last_keyboard_ack,
                   frames, serverVars, written>>

(* The end of Net_input: repeat the keyboard while it is unacknowledged or *)
(* as a keepalive, else flush.                                             *)
FinishFrame ==
    /\ inFrame
    /\ inFrame' = FALSE
    /\ \/ SendKeyboard(last_keyboard_change, keyv)
       \/ ~(Unacked /\ ~updated) /\ NetFlush
    /\ UNCHANGED <<keyv_new, keyv, last_keyboard_change, last_keyboard_ack,
                   frames, serverVars, written>>

(* The main loop flushes before it blocks in select(). *)
IdleFlush ==
    /\ ~inFrame
    /\ NetFlush
    /\ UNCHANGED <<keyv_new, keyv, last_keyboard_change, last_keyboard_ack,
                   inFrame, frames, serverVars, written>>

-----------------------------------------------------------------------------
(* The server.                                                             *)

(* Mutant of ReceiveKeyboard: the new vector is merged with the old one. *)
ReceiveKeyboardMerging(d) ==
    /\ keyboards' \in {keyboards, keyboards \ {d}}
    /\ d.change > last_key_change
    /\ last_key_change' = d.change
    /\ last_keyv' = last_keyv \cup d.keyv
    /\ wiped' = FALSE
    /\ UNCHANGED <<clientVars, frames, written>>

(* Mutant of ReceiveKeyboard: only the change just received is old. *)
ReceiveKeyboardUnordered(d) ==
    /\ keyboards' \in {keyboards, keyboards \ {d}}
    /\ d.change # last_key_change
    /\ last_key_change' = d.change
    /\ last_keyv' = d.keyv
    /\ wiped' = FALSE
    /\ UNCHANGED <<clientVars, frames, written>>

(* Receive_keyboard: an old change is skipped, a newer one is taken over   *)
(* by Handle_keyboard.  The datagram may arrive again.                     *)
ReceiveKeyboard(d) ==
    /\ \/ keyboards' = keyboards \ {d}
       \/ keyboards' = keyboards
    /\ IF d.change <= last_key_change
       THEN UNCHANGED serverVars
       ELSE /\ last_key_change' = d.change
            /\ last_keyv' = d.keyv
            /\ wiped' = FALSE
    /\ UNCHANGED <<clientVars, frames, written>>

(* Go_home, of a player that has recovered: every key is up for the        *)
(* server, and no change is acknowledged less for it.                      *)
GoHome ==
    /\ last_keyv' = {}
    /\ wiped' = TRUE
    /\ UNCHANGED <<clientVars, keyboards, frames, last_key_change, written>>

(* Mutant of SendFrame: acknowledges the change the server expects next. *)
SendFrameExpecting ==
    /\ frames' = LET fs == Append(frames, last_key_change + 1)
                 IN  IF Len(fs) > MaxFrames THEN Tail(fs) ELSE fs
    /\ UNCHANGED <<clientVars, keyboards, serverVars, written>>

(* Send_start: every frame carries the latest change the server has; the   *)
(* oldest frame in flight is lost when there is no place for another.      *)
SendFrame ==
    /\ frames' = LET fs == Append(frames, last_key_change)
                 IN  IF Len(fs) > MaxFrames THEN Tail(fs) ELSE fs
    /\ UNCHANGED <<clientVars, keyboards, serverVars, written>>

LoseKeyboard(d) ==
    /\ keyboards' = keyboards \ {d}
    /\ UNCHANGED <<clientVars, frames, serverVars, written>>

-----------------------------------------------------------------------------
Client ==
    \/ \E k \in Keys : Press(k) \/ Release(k)
    \/ QueueOther
    \/ \E i \in DOMAIN frames : ReceiveFrame(i)
    \/ FinishFrame
    \/ IdleFlush

Server ==
    \/ \E d \in keyboards : ReceiveKeyboard(d) \/ LoseKeyboard(d)
    \/ SendFrame
    \/ GoHome

Next == Client \/ Server

Spec == Init /\ [][Next]_vars

Newest == {d \in keyboards : d.change = last_keyboard_change}

(* The server ticks, the client handles its frames, and of what is sent    *)
(* again and again some gets through.  Presses are not fair.               *)
Fairness ==
    /\ WF_vars(SendFrame)
    /\ WF_vars(FinishFrame)
    /\ SF_vars(frames # <<>> /\ ReceiveFrame(Len(frames)))
    /\ SF_vars(\E d \in Newest : ReceiveKeyboard(d))

FairSpec == Spec /\ Fairness

-----------------------------------------------------------------------------
(* When the client holds the acknowledgement of its latest change, the     *)
(* server's key vector is the client's: the client stops resending         *)
(* (netclient.c, Net_input) only when nothing is left to say.  The one     *)
(* exception is a player brought home since then, whose keys are all up.   *)
AckedMeansSynced == ~Unacked /\ ~wiped => last_keyv = keyv

(* "Premature keyboard ack by server" (netclient.c, Receive_start) never   *)
(* happens: no frame acknowledges a change the client has not made, and    *)
(* the client never believes more than the server has.                     *)
NoPrematureAck ==
    /\ \A i \in DOMAIN frames : frames[i] <= last_keyboard_change
    /\ last_keyboard_ack <= last_key_change

(* The server's vector is the one the client had at the change the server  *)
(* acknowledges, however datagrams arrive (Receive_keyboard), or none at   *)
(* all after Go_home.                                                      *)
ServerHoldsWritten ==
    last_keyv = IF wiped THEN {} ELSE written[last_key_change + 1]

(* The promise: a register the server copies forward, never back, and      *)
(* never a vector the client did not have (Receive_keyboard's test).       *)
Register == INSTANCE KeyRegister WITH held <- last_key_change
RefinesRegister == Register!RegSpec

(* Once the presses stop, the server ends up with the client's vector,     *)
(* however many datagrams are lost on the way (the resend in Net_input),   *)
(* but for what Go_home takes away.                                        *)
EventuallySynced ==
    <>[](queued > Room) \/ []<>(~Unacked /\ (last_keyv = keyv \/ wiped))
=============================================================================
