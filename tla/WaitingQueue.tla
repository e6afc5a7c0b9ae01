---------------------------- MODULE WaitingQueue ----------------------------
(***************************************************************************)
(* The queue of those who want to join a game (contact.c: Queue_player,    *)
(* Queue_loop, Queue_advance_player) and the connections they get from it  *)
(* (netserver.c: Setup_connection, Conn_set_state, Destroy_connection),    *)
(* with the decision of the main loop (server.c: Main_loop) that nobody    *)
(* is left and the server may end.                                         *)
(*                                                                         *)
(* A client is one user at one display, under one nick and from one host.  *)
(* Once per loop the queue is worked on.  Of the time only the order of    *)
(* the waits is kept, which are 2 loops, 2 loops and a quarter of a        *)
(* second: they are 1 and 2 here.  Whether an entry has been silent for    *)
(* 30 seconds, a connection timed out, or a player paused, is left open.   *)
(***************************************************************************)
EXTENDS Integers, Sequences, FiniteSets

CONSTANTS
  Clients,
  NickOf, HostOf,     \* of every client
  MaxQueuedPlayers,
  MaxConnections,     \* max_connections
  MaxClientsPerIP     \* options.maxClientsPerIP; 0 for any number

ASSUME QueueAssumption ==
  /\ IsFiniteSet(Clients)
  /\ MaxQueuedPlayers \in Nat
  /\ MaxConnections \in Nat
  /\ MaxClientsPerIP \in Nat

VARIABLES
  queue,              \* qp_list
  NumQueuedPlayers,
  lastUnqueued,       \* loops since last_unqueued_loops, at most Slow
  conn,               \* Client -> the state of its connection
  busy, playing,      \* num_conn_busy, num_conn_playing
  ended               \* whether End_game has stopped the server

connVars  == <<conn, busy, playing>>
queueVars == <<queue, NumQueuedPlayers, lastUnqueued>>
vars      == <<queueVars, connVars, ended>>

(* "login" stands for CONN_DRAIN, CONN_SETUP and CONN_LOGIN.  A client has *)
(* at most one connection, for they differ in their nicks.                 *)
ConnStates == {"free", "listening", "login", "ready", "playing"}
InGame     == {"ready", "playing"}

(* An entry: whose it is, whether it has a login port, and the loops since *)
(* last_ack_sent, at most Slow, which only those with a port need.         *)
Entry == [client : Clients, port : BOOLEAN, sent : 0..2]

Slow == 2
Soon == 1

Queued == {queue[i].client : i \in 1..Len(queue)}

(* The list is gone through from the top as long as there is a port.       *)
Leading(q) ==
  CHOOSE k \in 0..Len(q) :
    /\ \A i \in 1..k : q[i].port
    /\ k < Len(q) => ~q[k + 1].port

Ports(q)   == SubSeq(q, 1, Leading(q))
Waiting(q) == SubSeq(q, Leading(q) + 1, Len(q))

QueueInit ==
  /\ queue = <<>> /\ NumQueuedPlayers = 0 /\ lastUnqueued = Slow
  /\ conn = [c \in Clients |-> "free"]
  /\ busy = 0 /\ playing = 0
  /\ ended = FALSE

LoginInProgress == busy - playing
-----------------------------------------------------------------------------
(* The connections. *)

Connected == {c \in Clients : conn[c] # "free"}
Playing   == {c \in Clients : conn[c] \in InGame}

(* Conn_set_state counts the connections that leave CONN_FREE and come     *)
(* back, and those that come into the game and leave it; become says what  *)
(* the connections are after all its calls of a step.                      *)
CountChanges(become, inGame) ==
  LET changed == {c \in Clients : become[c] # conn[c]}
  IN  /\ conn' = become
      /\ busy' = busy + Cardinality({c \in changed : conn[c] = "free"})
                      - Cardinality({c \in changed : become[c] = "free"})
      /\ playing' = playing + Cardinality({c \in changed : become[c] \in InGame})
                            - Cardinality({c \in changed : conn[c] \in inGame})

(* A connection in CONN_READY is not counted off again. *)
ConnSetStateReadyForgotten(become) == CountChanges(become, {"playing"})

ConnSetState(become) == CountChanges(become, InGame)

(* The states a connection may get to from state: Handle_listening, the    *)
(* login, Handle_login, the acknowledgement of its reply, and from         *)
(* everywhere Destroy_connection.                                          *)
After(state) ==
  CASE state = "free"      -> {}
    [] state = "listening" -> {"login", "free"}
    [] state = "login"     -> {"ready", "free"}
    [] state = "ready"     -> {"playing", "free"}
    [] state = "playing"   -> {"free"}

ConnectionMoves(c) ==
  /\ \E new \in After(conn[c]) : ConnSetState([conn EXCEPT ![c] = new])
  /\ UNCHANGED queueVars

SameNick(c, d) == NickOf[c] = NickOf[d]

(* Setup_connection, after the players in kicked have been thrown out: the *)
(* states of all connections when c has a port, or none when it has got    *)
(* none, as there may be no socket either.  A connection that still        *)
(* listens to c is used again.                                             *)
SetupConnection(c, kicked) ==
  LET now    == [d \in Clients |-> IF d \in kicked THEN "free" ELSE conn[d]]
      others == {d \in Clients : now[d] # "free"}
  IN  IF \E d \in others : SameNick(c, d)
      THEN IF now[c] = "listening" THEN {now} ELSE {}
      ELSE IF Cardinality(others) >= MaxConnections THEN {}
      ELSE {[now EXCEPT ![c] = "listening"]}

CheckConnection(c) == conn[c] = "listening"

CheckMaxClientsPerIP(c) ==
  /\ MaxClientsPerIP > 0
  /\ Cardinality({d \in Connected : HostOf[d] = HostOf[c]}) >= MaxClientsPerIP
-----------------------------------------------------------------------------
(* The queue. *)

NewEntry(c) == [client |-> c, port |-> FALSE, sent |-> 0]

NewPort(c)  == [client |-> c, port |-> TRUE, sent |-> 0]

(* A player has the nick already, somebody else in the queue has it, two   *)
(* in the queue are from the same host, or there is no room.               *)
Refused(c) ==
  \/ \E d \in Playing : SameNick(c, d)
  \/ \E d \in Queued : SameNick(c, d)
  \/ Cardinality({d \in Queued : HostOf[d] = HostOf[c]}) > 1
  \/ Len(queue) >= MaxQueuedPlayers
  \/ CheckMaxClientsPerIP(c)

(* A new one goes before the rest that waits. *)
QueuePlayerAhead(c) ==
  /\ ~Refused(c)
  /\ queue' = Ports(queue) \o <<NewEntry(c)>> \o Waiting(queue)
  /\ NumQueuedPlayers' = Len(queue) + 1
  /\ UNCHANGED <<lastUnqueued, connVars>>

(* Queue_player.  A client that is in the queue only says that it still    *)
(* waits.  The length is counted anew.                                     *)
QueuePlayer(c) ==
  /\ ~Refused(c)
  /\ queue' = Append(queue, NewEntry(c))
  /\ NumQueuedPlayers' = Len(queue) + 1
  /\ UNCHANGED <<lastUnqueued, connVars>>

MoveTo(i, at) ==
  SubSeq(queue, 1, at) \o <<queue[i]>> \o SubSeq(queue, at + 1, i - 1)
    \o SubSeq(queue, i + 1, Len(queue))

(* Whoever is favoured goes to the top, whoever may be there. *)
AdvanceToTop(c) ==
  /\ \E i \in 2..Len(queue) :
       /\ queue[i].client = c /\ ~queue[i].port
       /\ queue' = MoveTo(i, 0)
  /\ UNCHANGED <<NumQueuedPlayers, lastUnqueued, connVars>>

(* Queue_advance_player: behind the last before him who is entering the    *)
(* game, if there is one.                                                  *)
QueueAdvancePlayer(c) ==
  /\ \E i \in 2..Len(queue) : \E first \in 0..(i - 1) :
       /\ queue[i].client = c /\ ~queue[i].port
       /\ first > 0 => queue[first].port
       /\ \A j \in (first + 1)..(i - 1) : ~queue[j].port
       /\ queue' = MoveTo(i, first)
  /\ UNCHANGED <<NumQueuedPlayers, lastUnqueued, connVars>>

Without(q, i) == SubSeq(q, 1, i - 1) \o SubSeq(q, i + 1, Len(q))

Older(n) == IF n < Slow THEN n + 1 ELSE n

Aged == [i \in 1..Len(queue) |->
           IF queue[i].port THEN [queue[i] EXCEPT !.sent = Older(@)] ELSE queue[i]]

(* Queue_remove counts whoever is gone. *)
QueueBecomes(q) ==
  /\ queue' = q
  /\ NumQueuedPlayers' = NumQueuedPlayers - (Len(queue) - Len(q))

(* An entry with a port goes when it is silent, or when its connection     *)
(* does not listen any longer.                                             *)
Gone(e, silent) ==
  e.port /\ (e.client \in silent \/ (e.sent >= Soon /\ ~CheckConnection(e.client)))

(* What is left of a list when only the entries at these places stay. *)
Nth(places, n) ==
  CHOOSE i \in places : Cardinality({j \in places : j < i}) = n - 1

Kept(q, places) == [n \in 1..Cardinality(places) |-> q[Nth(places, n)]]

(* The ports of the first n that the first loop of Queue_loop leaves. *)
Stay(q, n, silent) == Kept(q, {i \in 1..n : ~Gone(q[i], silent)})

Rest(q, silent) == Stay(q, Leading(q), silent) \o Waiting(q)

Due(q, silent) ==
  {i \in 1..Leading(q) : ~Gone(q[i], silent) /\ q[i].sent >= Slow}

(* The first loop ends with the first one that has to be told its port     *)
(* again; nobody is admitted then.                                         *)
AckPort(q, silent) ==
  \E i \in Due(q, silent) :
    /\ \A j \in Due(q, silent) : i <= j
    /\ QueueBecomes(Stay(q, i - 1, silent) \o <<[q[i] EXCEPT !.sent = 0]>>
                      \o SubSeq(q, i + 1, Len(q)))
    /\ lastUnqueued' = Older(lastUnqueued)
    /\ UNCHANGED connVars

(* The first without a port gets one, or the list goes on as otherwise.    *)
(* Before, paused players of his team are thrown out for him.              *)
Admit(q, otherwise) ==
  LET head == Waiting(q)[1]
  IN  \E kicked \in SUBSET Playing :
        \/ \E become \in SetupConnection(head.client, kicked) :
             /\ ConnSetState(become)
             /\ QueueBecomes(Ports(q) \o <<NewPort(head.client)>>
                               \o Tail(Waiting(q)))
             /\ lastUnqueued' = 0
        \/ /\ ConnSetState([d \in Clients |-> IF d \in kicked THEN "free" ELSE conn[d]])
           /\ QueueBecomes(otherwise)
           /\ lastUnqueued' = Older(lastUnqueued)

(* Who finds no free connection waits on. *)
AdmitHeadOrWaitOn(q) == Admit(q, Ports(q) \o Waiting(q))

(* Who finds no free connection is dropped without a word. *)
AdmitHead(q) == Admit(q, Ports(q) \o Tail(Waiting(q)))

(* Of those without a port the first that is silent is dropped. *)
DropSilent(q, silent) ==
  LET mute == {i \in 1..Len(Waiting(q)) : Waiting(q)[i].client \in silent}
      left == IF mute = {} THEN Waiting(q)
              ELSE Without(Waiting(q), CHOOSE i \in mute : \A j \in mute : i <= j)
  IN  /\ QueueBecomes(Ports(q) \o left)
      /\ lastUnqueued' = Older(lastUnqueued)
      /\ UNCHANGED connVars

QueueLoop(silent) ==
  \E q \in {Aged} :
    \/ AckPort(q, silent)
    \/ /\ Due(q, silent) = {}
       /\ \E rest \in {Rest(q, silent)} :
            LET comes == Waiting(rest) # <<>> /\ Waiting(rest)[1].client \notin silent
            IN  IF comes /\ Older(lastUnqueued) >= Slow THEN AdmitHead(rest)
                ELSE DropSilent(rest, silent)
-----------------------------------------------------------------------------
(* Main_loop: nobody plays, logs in or waits. *)
Deserted ==
  /\ Playing = {}
  /\ LoginInProgress = 0
  /\ NumQueuedPlayers = 0

(* The server ends, unless NoQuit says no or it waits for the first one.   *)
EndGame == Deserted /\ ended' = TRUE /\ UNCHANGED <<queueVars, connVars>>

MainLoop == (\E silent \in SUBSET Queued : QueueLoop(silent)) /\ UNCHANGED ended

Favours == \E c \in Clients : QueueAdvancePlayer(c) /\ UNCHANGED ended

QueueNext ==
  /\ ~ended
  /\ \/ \E c \in Clients : (QueuePlayer(c) \/ ConnectionMoves(c)) /\ UNCHANGED ended
     \/ Favours
     \/ MainLoop
     \/ EndGame

QueueSpec == QueueInit /\ [][QueueNext]_vars

(* The main loop runs, and not every time somebody has just been silent    *)
(* for 30 seconds, which is much longer than the queue; and a connection   *)
(* that listens is used, or given up after LISTEN_TIMEOUT.                 *)
Fairness ==
  /\ WF_vars(~ended /\ QueueLoop({}) /\ UNCHANGED ended)
  /\ \A c \in Clients :
       WF_vars(~ended /\ conn[c] = "listening" /\ ConnectionMoves(c) /\ UNCHANGED ended)

FairQueueSpec == QueueSpec /\ Fairness
-----------------------------------------------------------------------------
TypeOK ==
  /\ queue \in Seq(Entry)
  /\ conn \in [Clients -> ConnStates]
  /\ ended \in BOOLEAN

(* Queue_loop and Queue_advance_player both go through the list as if      *)
(* those with a port stood before those without; nobody is in it twice,    *)
(* no two have one nick, and no more than two are of one host.             *)
QueueInOrder ==
  /\ \A i, j \in 1..Len(queue) : queue[j].port /\ i < j => queue[i].port
  /\ \A i, j \in 1..Len(queue) : i # j => ~SameNick(queue[i].client, queue[j].client)
  /\ \A c \in Clients : Cardinality({d \in Queued : HostOf[d] = HostOf[c]}) <= 2

(* No two connections have one nick, for the rest of the server takes a    *)
(* name for a player, and there are no more of them than there may be.     *)
ConnectionsApart ==
  /\ \A c, d \in Connected : SameNick(c, d) => c = d
  /\ Cardinality(Connected) <= MaxConnections

(* The queue and the connections are as the server takes them to be. *)
QueueInv == TypeOK /\ QueueInOrder /\ ConnectionsApart

(* The server does not end while somebody waits, logs in or plays: on the  *)
(* whole way from the queue into the game one of the three counters that   *)
(* Main_loop asks knows of him.                                            *)
NobodyLeftBehind == ended => queue = <<>> /\ Connected = {}

(* Who waits, in order: the abstract line. *)
Line   == LET waits == Waiting(queue) IN [i \in 1..Len(waits) |-> waits[i].client]
Lining == INSTANCE WaitingLine WITH line <- Line, inside <- Connected

(* Admission is in the order of arrival, but for the word of the owner,    *)
(* and nobody gets a connection without having been the first in line.     *)
RefinesLine == Lining!LineSpec

Waits(c) == \E i \in 1..Len(queue) : queue[i].client = c /\ ~queue[i].port

(* Everybody who waits has his turn, or is dropped: neither the repeated   *)
(* acknowledgements, of which one ends a loop, nor those who come later    *)
(* can hold him up, unless the owner goes on favouring others.             *)
EverybodyServed ==
  <>[][~Favours]_vars => \A c \in Clients : Waits(c) ~> ~Waits(c)
=============================================================================
