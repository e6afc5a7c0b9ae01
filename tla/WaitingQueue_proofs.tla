------------------------ MODULE WaitingQueue_proofs ------------------------
(***************************************************************************)
(* What holds of the queue and of the connections for any number of        *)
(* clients, whatever their nicks and hosts: the counters are those of the  *)
(* connections there are and of the list, no two connections have one      *)
(* nick, the list stays in the order its operations rely on and implements *)
(* the line of WaitingLine, and the server does not end under anybody that *)
(* waits, logs in or plays.                                                *)
(***************************************************************************)
EXTENDS WaitingQueue, FiniteSetTheorems, SequenceTheorems, WellFoundedInduction, TLAPS

Counted ==
  /\ busy = Cardinality(Connected)
  /\ playing = Cardinality(Playing)

(* A server that has ended has nobody connected. *)
NobodyCutOff == ended => Connected = {}

ConnInv ==
  /\ conn \in [Clients -> ConnStates]
  /\ ended \in BOOLEAN
  /\ Counted
  /\ ConnectionsApart
  /\ NobodyCutOff

LEMMA ClientsFinite ==
  ASSUME NEW S, S \subseteq Clients
  PROVE  IsFiniteSet(S) /\ Cardinality(S) \in Nat
<1>1. IsFiniteSet(S)
  BY QueueAssumption, FS_Subset
<1>. QED  BY <1>1, FS_CardinalityType

(* The size of a set of which some go and others come. *)
LEMMA ComeAndGo ==
  ASSUME NEW S, NEW T, NEW gone, NEW come,
         S \subseteq Clients, gone \subseteq S, come \subseteq Clients,
         (S \ gone) \intersect come = {}, T = (S \ gone) \union come
  PROVE  Cardinality(T) = Cardinality(S) - Cardinality(gone) + Cardinality(come)
<1>1. IsFiniteSet(S) /\ IsFiniteSet(come) /\ IsFiniteSet(S \ gone) /\ IsFiniteSet(gone)
  BY ClientsFinite
<1>2. /\ Cardinality(S) \in Nat /\ Cardinality(come) \in Nat
      /\ Cardinality(S \ gone) \in Nat /\ Cardinality(gone) \in Nat
  BY ClientsFinite
<1>3. Cardinality((S \ gone) \intersect come) = 0 /\ Cardinality((S \ gone) \intersect gone) = 0
  <2>1. (S \ gone) \intersect gone = {}
    OBVIOUS
  <2>. QED  BY <2>1, FS_EmptySet
<1>4. Cardinality(T) = Cardinality(S \ gone) + Cardinality(come)
  <2>1. Cardinality((S \ gone) \union come) =
          Cardinality(S \ gone) + Cardinality(come) - Cardinality((S \ gone) \intersect come)
    BY <1>1, FS_Union
  <2>. QED  BY <2>1, <1>2, <1>3
<1>5. Cardinality(S) = Cardinality(S \ gone) + Cardinality(gone)
  <2>1. Cardinality((S \ gone) \union gone) =
          Cardinality(S \ gone) + Cardinality(gone) - Cardinality((S \ gone) \intersect gone)
    BY <1>1, FS_Union
  <2>2. (S \ gone) \union gone = S
    OBVIOUS
  <2>3. Cardinality(S) =
          Cardinality(S \ gone) + Cardinality(gone) - Cardinality((S \ gone) \intersect gone)
    BY <2>1, <2>2, Zenon
  <2>. QED  BY <2>3, <1>2, <1>3
<1>. DEFINE all == Cardinality(S)
            stay == Cardinality(S \ gone)
            less == Cardinality(gone)
            more == Cardinality(come)
<1>6. /\ all \in Nat /\ stay \in Nat /\ less \in Nat /\ more \in Nat
      /\ Cardinality(T) = stay + more
      /\ all = stay + less
  BY <1>2, <1>4, <1>5
<1>7. Cardinality(T) = all - less + more
  <2>. HIDE DEF all, stay, less, more
  <2>. QED  BY <1>6
<1>. QED  BY <1>7

(* Conn_set_state keeps the counters right. *)
LEMMA SetStateCounts ==
  ASSUME ConnInv, NEW become \in [Clients -> ConnStates], ConnSetState(become)
  PROVE  conn' \in [Clients -> ConnStates] /\ Counted'
<1>. DEFINE changed == {c \in Clients : become[c] # conn[c]}
            fresh   == {c \in changed : conn[c] = "free"}
            freed   == {c \in changed : become[c] = "free"}
            come    == {c \in changed : become[c] \in InGame}
            gone    == {c \in changed : conn[c] \in InGame}
<1>1. /\ conn' = become
      /\ busy' = busy + Cardinality(fresh) - Cardinality(freed)
      /\ playing' = playing + Cardinality(come) - Cardinality(gone)
  BY DEF ConnSetState, CountChanges
<1>2. busy = Cardinality(Connected) /\ playing = Cardinality(Playing)
  BY DEF ConnInv, Counted
<1>3. Cardinality(Connected') = Cardinality(Connected) - Cardinality(freed) + Cardinality(fresh)
  <2>1. /\ Connected \subseteq Clients /\ fresh \subseteq Clients
        /\ freed \subseteq Connected
        /\ (Connected \ freed) \intersect fresh = {}
        /\ Connected' = (Connected \ freed) \union fresh
    BY <1>1 DEF Connected
  <2>. QED  BY <2>1, ComeAndGo
<1>4. Cardinality(Playing') = Cardinality(Playing) - Cardinality(gone) + Cardinality(come)
  <2>1. /\ Playing \subseteq Clients /\ come \subseteq Clients
        /\ gone \subseteq Playing
        /\ (Playing \ gone) \intersect come = {}
        /\ Playing' = (Playing \ gone) \union come
    BY <1>1 DEF Playing
  <2>. QED  BY <2>1, ComeAndGo
<1>5. /\ Cardinality(Connected) \in Nat /\ Cardinality(Playing) \in Nat
      /\ Cardinality(fresh) \in Nat /\ Cardinality(freed) \in Nat
      /\ Cardinality(come) \in Nat /\ Cardinality(gone) \in Nat
  <2>1. /\ Connected \subseteq Clients /\ Playing \subseteq Clients
        /\ fresh \subseteq Clients /\ freed \subseteq Clients
        /\ come \subseteq Clients /\ gone \subseteq Clients
    BY DEF Connected, Playing
  <2>. QED  BY <2>1, ClientsFinite
<1>6. busy' = Cardinality(Connected')
  BY <1>1, <1>2, <1>3, <1>5
<1>7. playing' = Cardinality(Playing')
  BY <1>1, <1>2, <1>4, <1>5
<1>. QED  BY <1>1, <1>6, <1>7 DEF Counted

(* Fewer connections are as much apart. *)
LEMMA FewerApart ==
  ASSUME ConnInv, conn' \in [Clients -> ConnStates], Connected' \subseteq Connected
  PROVE  ConnectionsApart'
<1>1. \A c, d \in Connected' : SameNick(c, d) => c = d
  BY DEF ConnInv, ConnectionsApart
<1>2. Cardinality(Connected') <= Cardinality(Connected)
  <2>1. IsFiniteSet(Connected)
    BY ClientsFinite DEF Connected
  <2>. QED  BY <2>1, FS_Subset
<1>3. Cardinality(Connected) \in Nat /\ Cardinality(Connected') \in Nat
  <2>1. Connected \subseteq Clients /\ Connected' \subseteq Clients
    BY DEF Connected
  <2>. QED  BY <2>1, ClientsFinite
<1>4. Cardinality(Connected) <= MaxConnections
  BY DEF ConnInv, ConnectionsApart
<1>5. Cardinality(Connected') <= MaxConnections
  BY <1>2, <1>3, <1>4, QueueAssumption
<1>. QED  BY <1>1, <1>5 DEF ConnectionsApart, SameNick

LEMMA ThrownOut ==
  ASSUME ConnInv, NEW kicked \in SUBSET Playing
  PROVE  [d \in Clients |-> IF d \in kicked THEN "free" ELSE conn[d]] \in [Clients -> ConnStates]
  BY DEF ConnInv, ConnStates

LEMMA InitConn == QueueInit => ConnInv
<1>. SUFFICES ASSUME QueueInit PROVE ConnInv
  OBVIOUS
<1>1. Connected = {} /\ Playing = {} /\ conn \in [Clients -> ConnStates]
  BY DEF QueueInit, Connected, Playing, ConnStates, InGame
<1>2. Cardinality({}) = 0
  BY FS_EmptySet
<1>3. ConnectionsApart
  BY <1>1, <1>2, QueueAssumption DEF ConnectionsApart
<1>. QED  BY <1>1, <1>2, <1>3 DEF QueueInit, ConnInv, Counted, NobodyCutOff
-----------------------------------------------------------------------------
(* One lemma for each action. *)

LEMMA MovesKeep ==
  ASSUME ConnInv, ~ended, NEW c \in Clients, ConnectionMoves(c), UNCHANGED ended
  PROVE  ConnInv'
<1>1. PICK new \in After(conn[c]) : ConnSetState([conn EXCEPT ![c] = new])
  BY DEF ConnectionMoves
<1>2. conn \in [Clients -> ConnStates]
  BY DEF ConnInv
<1>3. new \in ConnStates /\ conn[c] # "free"
  <2>1. conn[c] \in ConnStates
    BY <1>2
  <2>2. CASE conn[c] = "free"
    BY <1>1, <2>2 DEF After
  <2>3. CASE conn[c] = "listening"
    BY <1>1, <2>3 DEF After, ConnStates
  <2>4. CASE conn[c] = "login"
    BY <1>1, <2>4 DEF After, ConnStates
  <2>5. CASE conn[c] = "ready"
    BY <1>1, <2>5 DEF After, ConnStates
  <2>6. CASE conn[c] = "playing"
    BY <1>1, <2>6 DEF After, ConnStates
  <2>. QED  BY <2>1, <2>2, <2>3, <2>4, <2>5, <2>6 DEF ConnStates
<1>4. conn' = [conn EXCEPT ![c] = new] /\ conn' \in [Clients -> ConnStates] /\ Counted'
  <2>1. [conn EXCEPT ![c] = new] \in [Clients -> ConnStates]
    BY <1>2, <1>3
  <2>2. conn' = [conn EXCEPT ![c] = new]
    BY <1>1 DEF ConnSetState, CountChanges
  <2>. QED  BY <1>1, <2>1, <2>2, SetStateCounts
<1>5. Connected' \subseteq Connected
  BY <1>2, <1>3, <1>4 DEF Connected
<1>6. ConnectionsApart'
  BY <1>4, <1>5, FewerApart
<1>. QED  BY <1>4, <1>6 DEF ConnInv, NobodyCutOff

LEMMA SetupApart ==
  ASSUME ConnInv, NEW c, NEW kicked \in SUBSET Playing,
         NEW become \in SetupConnection(c, kicked), conn' = become
  PROVE  become \in [Clients -> ConnStates] /\ ConnectionsApart'
<1>. DEFINE now    == [d \in Clients |-> IF d \in kicked THEN "free" ELSE conn[d]]
            others == {d \in Clients : now[d] # "free"}
<1>1. conn \in [Clients -> ConnStates] /\ now \in [Clients -> ConnStates]
  BY ThrownOut DEF ConnInv
<1>2. others \subseteq Connected
  BY DEF Connected
<1>3. CASE become = now
  <2>1. Connected' = others
    BY <1>3 DEF Connected
  <2>. QED  BY <1>1, <1>2, <1>3, <2>1, FewerApart
<1>4. CASE become # now
  <2>0. c \in Clients
    BY <1>1, <1>4 DEF SetupConnection
  <2>1. /\ ~ \E d \in others : SameNick(c, d)
        /\ ~ (Cardinality(others) >= MaxConnections)
        /\ become = [now EXCEPT ![c] = "listening"]
    BY <1>4 DEF SetupConnection
  <2>2. become \in [Clients -> ConnStates]
    BY <1>1, <2>0, <2>1 DEF ConnStates
  <2>3. Connected' = others \union {c}
    BY <1>1, <2>0, <2>1 DEF Connected
  <2>4. \A d, e \in Connected' : SameNick(d, e) => d = e
    <3>1. \A d, e \in others : SameNick(d, e) => d = e
      BY <1>2 DEF ConnInv, ConnectionsApart
    <3>2. \A d \in others : ~SameNick(c, d) /\ ~SameNick(d, c)
      BY <2>1 DEF SameNick
    <3>. QED  BY <2>3, <3>1, <3>2
  <2>5. Cardinality(Connected') <= MaxConnections
    <3>1. IsFiniteSet(others) /\ Cardinality(others) \in Nat
      BY ClientsFinite
    <3>2. Cardinality(Connected') <= Cardinality(others) + 1
      <4>1. Cardinality(others \union {c}) =
              IF c \in others THEN Cardinality(others) ELSE Cardinality(others) + 1
        BY <3>1, FS_AddElement
      <4>. QED  BY <2>3, <3>1, <4>1
    <3>3. Cardinality(others) < MaxConnections
      BY <2>1, <3>1, QueueAssumption
    <3>4. Cardinality(Connected') \in Nat
      BY ClientsFinite DEF Connected
    <3>. QED  BY <3>1, <3>2, <3>3, <3>4, QueueAssumption
  <2>. QED  BY <2>2, <2>4, <2>5 DEF ConnectionsApart, SameNick
<1>. QED  BY <1>3, <1>4

LEMMA UnchangedKeeps ==
  ASSUME ConnInv, UNCHANGED <<connVars, ended>>
  PROVE  ConnInv'
  BY DEF ConnInv, connVars, Counted, Connected, Playing, ConnectionsApart, SameNick, NobodyCutOff

LEMMA AdmitKeeps ==
  ASSUME ConnInv, ~ended, NEW q, AdmitHead(q), UNCHANGED ended
  PROVE  ConnInv'
<1>. DEFINE c == Waiting(q)[1].client
<1>1. PICK kicked \in SUBSET Playing :
        \/ \E become \in SetupConnection(c, kicked) : ConnSetState(become)
        \/ ConnSetState([d \in Clients |-> IF d \in kicked THEN "free" ELSE conn[d]])
  BY DEF AdmitHead, Admit
<1>2. CASE \E become \in SetupConnection(c, kicked) : ConnSetState(become)
  <2>1. PICK become \in SetupConnection(c, kicked) : ConnSetState(become)
    BY <1>2
  <2>2. conn' = become
    BY <2>1 DEF ConnSetState, CountChanges
  <2>3. become \in [Clients -> ConnStates] /\ ConnectionsApart'
    BY <2>2, SetupApart
  <2>4. conn' \in [Clients -> ConnStates] /\ Counted'
    BY <2>1, <2>3, SetStateCounts
  <2>. QED  BY <2>3, <2>4 DEF ConnInv, NobodyCutOff
<1>3. CASE ConnSetState([d \in Clients |-> IF d \in kicked THEN "free" ELSE conn[d]])
  <2>. DEFINE now == [d \in Clients |-> IF d \in kicked THEN "free" ELSE conn[d]]
  <2>1. now \in [Clients -> ConnStates]
    BY ThrownOut
  <2>2. conn' = now /\ Connected' \subseteq Connected
    BY <1>3 DEF ConnSetState, CountChanges, Connected
  <2>3. conn' \in [Clients -> ConnStates] /\ Counted'
    BY <1>3, <2>1, SetStateCounts
  <2>4. ConnectionsApart'
    BY <2>2, <2>3, FewerApart
  <2>. QED  BY <2>3, <2>4 DEF ConnInv, NobodyCutOff
<1>. QED  BY <1>1, <1>2, <1>3

(* With nobody in the game and no login in progress nobody is connected. *)
LEMMA EndKeeps == ASSUME ConnInv, EndGame PROVE ConnInv'
<1>1. Playing = {} /\ busy = 0
  <2>1. Playing = {} /\ busy - playing = 0
    BY DEF EndGame, Deserted, LoginInProgress
  <2>2. playing = 0
    BY <2>1, FS_EmptySet DEF ConnInv, Counted
  <2>3. busy \in Nat
    <3>1. Cardinality(Connected) \in Nat
      BY ClientsFinite DEF Connected
    <3>. QED  BY <3>1 DEF ConnInv, Counted
  <2>. QED  BY <2>1, <2>2, <2>3
<1>2. Connected = {}
  <2>1. IsFiniteSet(Connected)
    BY ClientsFinite DEF Connected
  <2>. QED  BY <1>1, <2>1, FS_EmptySet DEF ConnInv, Counted
<1>3. UNCHANGED connVars /\ ended' = TRUE
  BY DEF EndGame
<1>. QED  BY <1>2, <1>3 DEF ConnInv, connVars, Counted, Connected, Playing, ConnectionsApart,
                            SameNick, NobodyCutOff

(* What one turn of the loop comes to. *)
LEMMA LoopCases ==
  ASSUME NEW silent, QueueLoop(silent)
  PROVE  \/ AckPort(Aged, silent)
         \/ /\ AdmitHead(Rest(Aged, silent))
            /\ Waiting(Rest(Aged, silent)) # <<>>
         \/ DropSilent(Rest(Aged, silent), silent)
<1>1. PICK q \in {Aged} :
        \/ AckPort(q, silent)
        \/ \E rest \in {Rest(q, silent)} :
             \/ AdmitHead(rest) /\ Waiting(rest) # <<>>
             \/ DropSilent(rest, silent)
  BY DEF QueueLoop
<1>. QED  BY <1>1

LEMMA LoopKeeps == ASSUME ConnInv, ~ended, MainLoop PROVE ConnInv'
<1>1. PICK silent \in SUBSET Queued : QueueLoop(silent)
  BY DEF MainLoop
<1>2. ended' = ended
  BY DEF MainLoop
<1>3. \/ AckPort(Aged, silent)
      \/ AdmitHead(Rest(Aged, silent))
      \/ DropSilent(Rest(Aged, silent), silent)
  BY <1>1, LoopCases
<1>4. CASE AckPort(Aged, silent)
  BY <1>2, <1>4, UnchangedKeeps DEF AckPort
<1>5. CASE AdmitHead(Rest(Aged, silent))
  BY <1>2, <1>5, AdmitKeeps
<1>6. CASE DropSilent(Rest(Aged, silent), silent)
  BY <1>2, <1>6, UnchangedKeeps DEF DropSilent
<1>. QED  BY <1>3, <1>4, <1>5, <1>6

LEMMA NextConn == ConnInv /\ [QueueNext]_vars => ConnInv'
<1>. SUFFICES ASSUME ConnInv, [QueueNext]_vars PROVE ConnInv'
  OBVIOUS
<1>1. CASE UNCHANGED vars
  BY <1>1, UnchangedKeeps DEF vars
<1>2. CASE QueueNext
  <2>1. ~ended
    BY <1>2 DEF QueueNext
  <2>2. ASSUME NEW c \in Clients, QueuePlayer(c), UNCHANGED ended PROVE ConnInv'
    BY <2>2, UnchangedKeeps DEF QueuePlayer
  <2>3. ASSUME NEW c \in Clients, ConnectionMoves(c), UNCHANGED ended PROVE ConnInv'
    BY <2>1, <2>3, MovesKeep
  <2>4. CASE Favours
    BY <2>4, UnchangedKeeps DEF Favours, QueueAdvancePlayer
  <2>5. CASE MainLoop
    BY <2>1, <2>5, LoopKeeps
  <2>6. CASE EndGame
    BY <2>6, EndKeeps
  <2>. QED  BY <1>2, <2>2, <2>3, <2>4, <2>5, <2>6 DEF QueueNext
<1>. QED  BY <1>1, <1>2

LEMMA ConnAlways == QueueSpec => []ConnInv
  BY InitConn, NextConn, PTL DEF QueueSpec
-----------------------------------------------------------------------------
(* The connections stay apart: no two of one nick, none beyond the limit,  *)
(* for a nick that comes back while its old connection still listens, and  *)
(* for players thrown out in the same step, too.                           *)
THEOREM Apart == QueueSpec => []ConnectionsApart
  BY ConnAlways, PTL DEF ConnInv

(* login_in_progress is the number of those who log in, so that Main_loop  *)
(* does not end the server under one who is between the queue and the game.*)
THEOREM LoginsCounted == QueueSpec => [](Counted /\ NobodyCutOff)
  BY ConnAlways, PTL DEF ConnInv
-----------------------------------------------------------------------------
(* The list. *)

Less == {p \in Nat \X Nat : p[1] < p[2]}

LEMMA LessWF == IsWellFoundedOn(Less, Nat)
  BY NatLessThanWellFounded DEF OpToRel, IsWellFoundedOn, Less

(* Whatever there is a number for there is a least number for. *)
LEMMA Least ==
  ASSUME NEW S, S \subseteq Nat, S # {}
  PROVE  \E n \in S : \A m \in S : n <= m
<1>1. PICK n \in S : \A m \in S : ~(<<m, n>> \in Less)
  BY LessWF, WFMin
<1>2. \A m \in S : ~(m < n)
  BY <1>1 DEF Less
<1>. QED  BY <1>2

(* A list whose first k entries are those with a port. *)
Cut(q, k) ==
  /\ k \in 0..Len(q)
  /\ \A i \in 1..Len(q) : q[i].port <=> i <= k

LEMMA LeadingIs ==
  ASSUME NEW q \in Seq(Entry)
  PROVE  /\ Leading(q) \in 0..Len(q)
         /\ \A i \in 1..Leading(q) : q[i].port
         /\ Leading(q) < Len(q) => ~q[Leading(q) + 1].port
<1>. DEFINE S == {k \in 0..Len(q) : k < Len(q) => ~q[k + 1].port}
<1>0. Len(q) \in Nat
  OBVIOUS
<1>1. PICK k \in S : \A m \in S : k <= m
  <2>1. Len(q) \in S /\ S \subseteq Nat
    BY <1>0
  <2>. QED  BY <2>1, Least
<1>2. \A i \in 1..k : q[i].port
  <2>1. SUFFICES ASSUME NEW i \in 1..k, ~q[i].port PROVE FALSE
    OBVIOUS
  <2>2. i - 1 \in 0..Len(q) /\ (i - 1) + 1 = i
    BY <1>0
  <2>3. i - 1 \in S
    BY <2>1, <2>2
  <2>. QED  BY <1>1, <2>3
<1>3. \E l \in 0..Len(q) : (\A i \in 1..l : q[i].port) /\ (l < Len(q) => ~q[l + 1].port)
  BY <1>1, <1>2
<1>. QED  BY <1>3 DEF Leading

(* In a list in order the ports are the first entries, and the only such   *)
(* number of first entries is the one that Leading finds.                  *)
InOrder(q) == \A i, j \in 1..Len(q) : q[j].port /\ i < j => q[i].port

LEMMA OrderCut ==
  ASSUME NEW q \in Seq(Entry), InOrder(q)
  PROVE  Cut(q, Leading(q))
<1>. DEFINE k == Leading(q)
<1>1. Len(q) \in Nat /\ k \in 0..Len(q) /\ (\A i \in 1..k : q[i].port) /\ (k < Len(q) => ~q[k + 1].port)
  BY LeadingIs
<1>. HIDE DEF k
<1>2. ASSUME NEW i \in 1..Len(q), q[i].port PROVE i <= k
  <2>1. SUFFICES ASSUME i > k PROVE FALSE
    BY <1>1
  <2>2. k + 1 \in 1..Len(q) /\ ~q[k + 1].port
    BY <1>1, <2>1
  <2>3. k + 1 = i \/ k + 1 < i
    BY <1>1, <2>1
  <2>. QED  BY <1>2, <2>2, <2>3 DEF InOrder
<1>. QED  BY <1>1, <1>2 DEF Cut, k

LEMMA CutOrder ==
  ASSUME NEW q \in Seq(Entry), NEW k, Cut(q, k)
  PROVE  InOrder(q) /\ Leading(q) = k
<1>. DEFINE l == Leading(q)
<1>1. Len(q) \in Nat /\ l \in 0..Len(q) /\ (\A i \in 1..l : q[i].port) /\ (l < Len(q) => ~q[l + 1].port)
  BY LeadingIs
<1>. HIDE DEF l
<1>2. k \in 0..Len(q) /\ \A i \in 1..Len(q) : q[i].port <=> i <= k
  BY DEF Cut
<1>3. l = k
  <2>1. ~(l < k)
    BY <1>1, <1>2
  <2>2. ~(k < l)
    <3>1. SUFFICES ASSUME k < l PROVE FALSE
      OBVIOUS
    <3>2. k + 1 \in 1..l /\ k + 1 \in 1..Len(q) /\ ~(k + 1 <= k)
      BY <1>1, <1>2, <3>1
    <3>. QED  BY <1>1, <1>2, <3>2
  <2>. QED  BY <1>1, <1>2, <2>1, <2>2
<1>4. InOrder(q)
  BY <1>1, <1>2 DEF InOrder
<1>. QED  BY <1>3, <1>4 DEF l

(* The nth of a set of places is one of them, and no two are the same. *)
LEMMA NthIs ==
  ASSUME NEW m \in Nat, NEW S \in SUBSET (1..m), NEW n \in 1..Cardinality(S)
  PROVE  Nth(S, n) \in S /\ Cardinality({j \in S : j < Nth(S, n)}) = n - 1
<1>. DEFINE Below(i) == {j \in S : j < i}
            Bad == {l \in 1..Cardinality(S) : ~ \E i \in S : Cardinality(Below(i)) = l - 1}
<1>1. /\ IsFiniteSet(S) /\ Cardinality(S) \in Nat /\ S \subseteq Nat
      /\ \A i \in S : IsFiniteSet(Below(i)) /\ Cardinality(Below(i)) \in Nat
      /\ \A i \in S : i \in Nat
  <2>1. IsFiniteSet(1..m)
    BY FS_Interval
  <2>2. IsFiniteSet(S) /\ \A i \in S : IsFiniteSet(Below(i))
    BY <2>1, FS_Subset
  <2>. QED  BY <2>2, FS_CardinalityType
<1>2. Bad = {}
  <2>1. SUFFICES ASSUME Bad # {} PROVE FALSE
    OBVIOUS
  <2>2. PICK l \in Bad : \A o \in Bad : l <= o
    <3>1. Bad \subseteq Nat
      BY <1>1
    <3>. QED  BY <2>1, <3>1, Least
  <2>3. CASE l = 1
    <3>1. S # {}
      BY <1>1, <2>2, <2>3, FS_EmptySet
    <3>2. PICK i \in S : \A j \in S : i <= j
      BY <1>1, <3>1, Least
    <3>3. Below(i) = {}
      <4>1. \A j \in S : ~(j < i)
        BY <1>1, <3>2
      <4>. QED  BY <4>1
    <3>4. Cardinality(Below(i)) = l - 1
      BY <3>3, <2>3, FS_EmptySet
    <3>. QED  BY <2>2, <3>2, <3>4
  <2>4. CASE l # 1
    <3>1. l - 1 \in 1..Cardinality(S) /\ l - 1 < l /\ l - 1 \in Nat /\ (l - 1) - 1 = l - 2
      BY <1>1, <2>2, <2>4
    <3>2. l - 1 \notin Bad
      BY <2>2, <3>1
    <3>3. PICK i \in S : Cardinality(Below(i)) = (l - 1) - 1
      BY <3>1, <3>2
    <3>4. Cardinality(Below(i) \union {i}) = l - 1
      <4>1. i \notin Below(i)
        BY <1>1
      <4>2. Cardinality(Below(i) \union {i}) = Cardinality(Below(i)) + 1
        BY <1>1, <4>1, FS_AddElement
      <4>. QED  BY <3>1, <3>3, <4>2, <1>1
    <3>. DEFINE Above == {j \in S : i < j}
    <3>5. Above # {}
      <4>1. SUFFICES ASSUME Above = {} PROVE FALSE
        OBVIOUS
      <4>2. S = Below(i) \union {i}
        <5>1. \A j \in S : j < i \/ j = i
          BY <1>1, <4>1
        <5>. QED  BY <5>1
      <4>3. Cardinality(S) = l - 1
        BY <3>4, <4>2
      <4>4. l \in 1..Cardinality(S)
        BY <2>2
      <4>. QED  BY <1>1, <4>3, <4>4
    <3>6. PICK t \in Above : \A j \in Above : t <= j
      BY <1>1, <3>5, Least
    <3>7. Below(t) = Below(i) \union {i}
      <4>1. t \in S /\ i < t /\ \A j \in S : i < j => t <= j
        BY <3>6
      <4>2. \A j \in S : j < t <=> j < i \/ j = i
        BY <1>1, <4>1
      <4>. QED  BY <4>2
    <3>. QED  BY <2>2, <3>4, <3>6, <3>7
  <2>. QED  BY <2>3, <2>4
<1>3. \E i \in S : Cardinality({j \in S : j < i}) = n - 1
  BY <1>2
<1>. QED  BY <1>3 DEF Nth

(* What is kept of a list: so many entries, each of another place of it.   *)
LEMMA KeptIs ==
  ASSUME NEW q \in Seq(Entry), NEW m \in 0..Len(q), NEW S \in SUBSET (1..m)
  PROVE  /\ Kept(q, S) \in Seq(Entry)
         /\ Len(Kept(q, S)) = Cardinality(S)
         /\ Cardinality(S) \in 0..m
         /\ \A n \in 1..Cardinality(S) :
              Nth(S, n) \in S /\ Nth(S, n) \in 1..m /\ Kept(q, S)[n] = q[Nth(S, n)]
         /\ \A i, j \in 1..Cardinality(S) : i # j => Nth(S, i) # Nth(S, j)
<1>0. m \in Nat /\ Len(q) \in Nat
  OBVIOUS
<1>1. Cardinality(S) \in 0..m
  <2>1. IsFiniteSet(1..m) /\ Cardinality(1..m) = m
    BY <1>0, FS_Interval
  <2>2. Cardinality(S) <= m /\ IsFiniteSet(S)
    BY <2>1, FS_Subset
  <2>. QED  BY <1>0, <2>2, FS_CardinalityType
<1>2. \A n \in 1..Cardinality(S) : Nth(S, n) \in S /\ Cardinality({j \in S : j < Nth(S, n)}) = n - 1
  BY <1>0, NthIs
<1>3. \A n \in 1..Cardinality(S) : q[Nth(S, n)] \in Entry /\ Nth(S, n) \in 1..m
  <2>1. \A i \in 1..m : q[i] \in Entry
    BY <1>0
  <2>2. \A n \in 1..Cardinality(S) : Nth(S, n) \in 1..m
    BY <1>2
  <2>. QED  BY <2>1, <2>2
<1>4. Kept(q, S) = [n \in 1..Cardinality(S) |-> q[Nth(S, n)]]
  BY DEF Kept
<1>5. Kept(q, S) \in Seq(Entry) /\ Len(Kept(q, S)) = Cardinality(S)
  BY <1>1, <1>3, <1>4
<1>6. \A i, j \in 1..Cardinality(S) : i # j => Nth(S, i) # Nth(S, j)
  <2>1. SUFFICES ASSUME NEW i \in 1..Cardinality(S), NEW j \in 1..Cardinality(S),
                        Nth(S, i) = Nth(S, j)
                 PROVE  i = j
    OBVIOUS
  <2>2. i - 1 = j - 1
    BY <1>2, <2>1
  <2>. QED  BY <1>1, <2>2
<1>. QED  BY <1>1, <1>2, <1>3, <1>4, <1>5, <1>6

(* Whose entries a list has, and that nobody is in it twice under one nick *)
(* and no host more than twice.                                            *)
Of(q)       == {q[i].client : i \in 1..Len(q)}
Distinct(q) == \A i, j \in 1..Len(q) : i # j => ~SameNick(q[i].client, q[j].client)
FewOfAHost(q) == \A c \in Clients : Cardinality({d \in Of(q) : HostOf[d] = HostOf[c]}) <= 2

Sound(q) == q \in Seq(Entry) /\ InOrder(q) /\ Distinct(q) /\ FewOfAHost(q)

(* A list made of entries of q, each at most once. *)
Taken(new, q) ==
  \E from \in [1..Len(new) -> 1..Len(q)] :
    /\ \A i, j \in 1..Len(new) : i # j => from[i] # from[j]
    /\ \A i \in 1..Len(new) : new[i].client = q[from[i]].client

LEMMA OfClients ==
  ASSUME NEW q \in Seq(Entry)
  PROVE  Of(q) \subseteq Clients
<1>1. \A i \in 1..Len(q) : q[i] \in Entry
  OBVIOUS
<1>2. \A e \in Entry : e.client \in Clients
  BY DEF Entry
<1>. QED  BY <1>1, <1>2 DEF Of

LEMMA TakenStays ==
  ASSUME NEW q \in Seq(Entry), NEW new \in Seq(Entry), Taken(new, q),
         Distinct(q), FewOfAHost(q)
  PROVE  Distinct(new) /\ FewOfAHost(new)
<1>1. PICK from \in [1..Len(new) -> 1..Len(q)] :
        /\ \A i, j \in 1..Len(new) : i # j => from[i] # from[j]
        /\ \A i \in 1..Len(new) : new[i].client = q[from[i]].client
  BY DEF Taken
<1>2. Distinct(new)
  BY <1>1 DEF Distinct
<1>3. Of(new) \subseteq Of(q)
  BY <1>1 DEF Of
<1>4. ASSUME NEW c \in Clients
      PROVE  Cardinality({d \in Of(new) : HostOf[d] = HostOf[c]}) <= 2
  <2>. DEFINE S == {d \in Of(new) : HostOf[d] = HostOf[c]}
              T == {d \in Of(q) : HostOf[d] = HostOf[c]}
  <2>1. S \subseteq T /\ S \subseteq Clients /\ T \subseteq Clients
    BY <1>3, OfClients
  <2>2. IsFiniteSet(T) /\ Cardinality(S) \in Nat /\ Cardinality(T) \in Nat
    BY <2>1, ClientsFinite
  <2>3. Cardinality(S) <= Cardinality(T)
    BY <2>1, <2>2, FS_Subset
  <2>4. Cardinality(T) <= 2
    BY DEF FewOfAHost
  <2>. QED  BY <2>2, <2>3, <2>4
<1>. QED  BY <1>2, <1>4 DEF FewOfAHost

(* Who waits in a list. *)
LineOf(q) == LET waits == Waiting(q) IN [i \in 1..Len(waits) |-> waits[i].client]

LEMMA WaitingIs ==
  ASSUME NEW q \in Seq(Entry), NEW k, Cut(q, k)
  PROVE  /\ Ports(q) \in Seq(Entry) /\ Len(Ports(q)) = k
         /\ Waiting(q) \in Seq(Entry) /\ Len(Waiting(q)) = Len(q) - k
         /\ \A i \in 1..k : Ports(q)[i] = q[i]
         /\ \A i \in 1..(Len(q) - k) : Waiting(q)[i] = q[k + i]
<1>1. Leading(q) = k /\ k \in 0..Len(q) /\ Len(q) \in Nat
  BY CutOrder DEF Cut
<1>2. /\ SubSeq(q, 1, k) \in Seq(Entry) /\ Len(SubSeq(q, 1, k)) = k
      /\ \A i \in 1..k : SubSeq(q, 1, k)[i] = q[i]
  BY <1>1
<1>3. /\ SubSeq(q, k + 1, Len(q)) \in Seq(Entry)
      /\ Len(SubSeq(q, k + 1, Len(q))) = Len(q) - k
      /\ \A i \in 1..(Len(q) - k) : SubSeq(q, k + 1, Len(q))[i] = q[k + i]
  BY <1>1
<1>. QED  BY <1>1, <1>2, <1>3 DEF Ports, Waiting

LEMMA LineIs ==
  ASSUME NEW q \in Seq(Entry), NEW k, Cut(q, k)
  PROVE  LineOf(q) = [i \in 1..(Len(q) - k) |-> q[k + i].client]
  BY WaitingIs DEF LineOf

LEMMA Concat ==
  ASSUME NEW a \in Seq(Entry), NEW b \in Seq(Entry)
  PROVE  /\ a \o b \in Seq(Entry)
         /\ Len(a \o b) = Len(a) + Len(b) /\ Len(a) \in Nat /\ Len(b) \in Nat
         /\ \A i \in 1..(Len(a) + Len(b)) :
              (a \o b)[i] = IF i <= Len(a) THEN a[i] ELSE b[i - Len(a)]
  OBVIOUS

LEMMA Appended ==
  ASSUME NEW a \in Seq(Entry), NEW e \in Entry
  PROVE  /\ a \o <<e>> \in Seq(Entry)
         /\ Len(a \o <<e>>) = Len(a) + 1 /\ Len(a) \in Nat
         /\ \A i \in 1..Len(a) : (a \o <<e>>)[i] = a[i]
         /\ (a \o <<e>>)[Len(a) + 1] = e
  OBVIOUS

(* A list put together of ports and of those who wait. *)
LEMMA Joined ==
  ASSUME NEW a \in Seq(Entry), NEW b \in Seq(Entry),
         \A i \in 1..Len(a) : a[i].port, \A i \in 1..Len(b) : ~b[i].port
  PROVE  /\ a \o b \in Seq(Entry)
         /\ Len(a \o b) = Len(a) + Len(b)
         /\ Cut(a \o b, Len(a))
         /\ LineOf(a \o b) = [i \in 1..Len(b) |-> b[i].client]
         /\ \A i \in 1..(Len(a) + Len(b)) :
              (a \o b)[i] = IF i <= Len(a) THEN a[i] ELSE b[i - Len(a)]
<1>. DEFINE q == a \o b
<1>1. /\ q \in Seq(Entry) /\ Len(q) = Len(a) + Len(b) /\ Len(a) \in Nat /\ Len(b) \in Nat
      /\ \A i \in 1..(Len(a) + Len(b)) : q[i] = IF i <= Len(a) THEN a[i] ELSE b[i - Len(a)]
  BY Concat
<1>. HIDE DEF q
<1>2. Cut(q, Len(a))
  <2>1. \A i \in 1..(Len(a) + Len(b)) : i > Len(a) => i - Len(a) \in 1..Len(b)
    BY <1>1
  <2>2. \A i \in 1..Len(q) : q[i].port <=> i <= Len(a)
    BY <1>1, <2>1
  <2>3. Len(a) \in 0..Len(q)
    BY <1>1
  <2>. QED  BY <2>2, <2>3 DEF Cut
<1>3. LineOf(q) = [i \in 1..Len(b) |-> b[i].client]
  <2>1. LineOf(q) = [i \in 1..(Len(q) - Len(a)) |-> q[Len(a) + i].client]
    BY <1>1, <1>2, LineIs
  <2>2. Len(q) - Len(a) = Len(b)
    BY <1>1
  <2>3. \A i \in 1..Len(b) : q[Len(a) + i] = b[i]
    <3>1. \A i \in 1..Len(b) : /\ Len(a) + i \in 1..(Len(a) + Len(b))
                               /\ ~(Len(a) + i <= Len(a)) /\ (Len(a) + i) - Len(a) = i
      BY <1>1
    <3>. QED  BY <1>1, <3>1
  <2>. QED  BY <2>1, <2>2, <2>3
<1>. QED  BY <1>1, <1>2, <1>3 DEF q

(* A turn of the loop only makes the entries older. *)
LEMMA AgedIs ==
  ASSUME queue \in Seq(Entry)
  PROVE  /\ Aged \in Seq(Entry) /\ Len(Aged) = Len(queue)
         /\ \A i \in 1..Len(queue) :
              Aged[i].client = queue[i].client /\ Aged[i].port = queue[i].port
<1>1. ASSUME NEW e \in Entry
      PROVE  /\ [e EXCEPT !.sent = Older(@)] \in Entry
             /\ [e EXCEPT !.sent = Older(@)].client = e.client
             /\ [e EXCEPT !.sent = Older(@)].port = e.port
  BY DEF Entry, Older, Slow
<1>2. \A i \in 1..Len(queue) : queue[i] \in Entry
  OBVIOUS
<1>3. \A i \in 1..Len(queue) :
        /\ Aged[i] \in Entry
        /\ Aged[i].client = queue[i].client /\ Aged[i].port = queue[i].port
  BY <1>1, <1>2 DEF Aged
<1>4. Aged \in Seq(Entry) /\ Len(Aged) = Len(queue)
  BY <1>1, <1>2 DEF Aged
<1>. QED  BY <1>3, <1>4

LEMMA AgedSound ==
  ASSUME Sound(queue)
  PROVE  Sound(Aged) /\ LineOf(Aged) = LineOf(queue) /\ Of(Aged) = Of(queue)
<1>1. /\ queue \in Seq(Entry) /\ InOrder(queue)
      /\ Aged \in Seq(Entry) /\ Len(Aged) = Len(queue)
      /\ \A i \in 1..Len(queue) :
           Aged[i].client = queue[i].client /\ Aged[i].port = queue[i].port
  BY AgedIs DEF Sound
<1>2. Of(Aged) = Of(queue)
  BY <1>1 DEF Of
<1>3. InOrder(Aged) /\ Distinct(Aged) /\ FewOfAHost(Aged)
  BY <1>1, <1>2 DEF Sound, InOrder, Distinct, FewOfAHost
<1>4. PICK k : Cut(queue, k)
  BY <1>1, OrderCut
<1>5. Cut(Aged, k)
  BY <1>1, <1>4 DEF Cut
<1>6. LineOf(Aged) = LineOf(queue)
  <2>1. LineOf(Aged) = [i \in 1..(Len(queue) - k) |-> Aged[k + i].client]
    BY <1>1, <1>5, LineIs
  <2>2. LineOf(queue) = [i \in 1..(Len(queue) - k) |-> queue[k + i].client]
    BY <1>1, <1>4, LineIs
  <2>3. \A i \in 1..(Len(queue) - k) : k + i \in 1..Len(queue)
    BY <1>1, <1>4 DEF Cut
  <2>. QED  BY <1>1, <2>1, <2>2, <2>3
<1>. QED  BY <1>1, <1>2, <1>3, <1>6 DEF Sound

(* A list with other ports before the same ones who wait. *)
LEMMA SameWait ==
  ASSUME NEW q \in Seq(Entry), NEW k, Cut(q, k),
         NEW new \in Seq(Entry), NEW m \in 0..Len(new),
         Len(new) - m = Len(q) - k,
         \A i \in 1..m : new[i].port,
         \A i \in 1..(Len(q) - k) : new[m + i] = q[k + i]
  PROVE  InOrder(new) /\ Cut(new, m) /\ LineOf(new) = LineOf(q)
<1>1. k \in 0..Len(q) /\ Len(q) \in Nat /\ Len(new) \in Nat /\ m \in Nat
  BY DEF Cut
<1>2. \A i \in 1..Len(new) : i > m => ~new[i].port
  <2>1. SUFFICES ASSUME NEW i \in 1..Len(new), i > m PROVE ~new[i].port
    OBVIOUS
  <2>2. i - m \in 1..(Len(q) - k) /\ m + (i - m) = i /\ k + (i - m) \in 1..Len(q)
        /\ ~(k + (i - m) <= k)
    BY <1>1, <2>1
  <2>3. new[i] = q[k + (i - m)]
    BY <2>2
  <2>. QED  BY <2>2, <2>3 DEF Cut
<1>3. Cut(new, m)
  BY <1>1, <1>2 DEF Cut
<1>4. LineOf(new) = [i \in 1..(Len(q) - k) |-> new[m + i].client]
  BY <1>3, LineIs
<1>5. LineOf(q) = [i \in 1..(Len(q) - k) |-> q[k + i].client]
  BY LineIs
<1>. QED  BY <1>3, <1>4, <1>5, CutOrder

(* What stays of the first n. *)
LEMMA StayIs ==
  ASSUME NEW q \in Seq(Entry), NEW n \in 0..Len(q), NEW silent
  PROVE  /\ Stay(q, n, silent) \in Seq(Entry)
         /\ Len(Stay(q, n, silent)) \in 0..n
         /\ \E from \in [1..Len(Stay(q, n, silent)) -> 1..n] :
              /\ \A i, j \in 1..Len(Stay(q, n, silent)) : i # j => from[i] # from[j]
              /\ \A i \in 1..Len(Stay(q, n, silent)) : Stay(q, n, silent)[i] = q[from[i]]
<1>. DEFINE S == {i \in 1..n : ~Gone(q[i], silent)}
            from == [i \in 1..Cardinality(S) |-> Nth(S, i)]
<1>1. /\ Kept(q, S) \in Seq(Entry)
      /\ Len(Kept(q, S)) = Cardinality(S)
      /\ Cardinality(S) \in 0..n
      /\ \A i \in 1..Cardinality(S) : Nth(S, i) \in 1..n /\ Kept(q, S)[i] = q[Nth(S, i)]
      /\ \A i, j \in 1..Cardinality(S) : i # j => Nth(S, i) # Nth(S, j)
  BY KeptIs
<1>2. Stay(q, n, silent) = Kept(q, S)
  BY DEF Stay
<1>. HIDE DEF S
<1>3. /\ from \in [1..Cardinality(S) -> 1..n]
      /\ \A i, j \in 1..Cardinality(S) : i # j => from[i] # from[j]
      /\ \A i \in 1..Cardinality(S) : Kept(q, S)[i] = q[from[i]]
  BY <1>1
<1>. DEFINE st == Stay(q, n, silent)
<1>4. st = Kept(q, S) /\ Len(st) = Cardinality(S)
  BY <1>1, <1>2
<1>. HIDE DEF from, st
<1>5. /\ from \in [1..Len(st) -> 1..n]
      /\ \A i, j \in 1..Len(st) : i # j => from[i] # from[j]
      /\ \A i \in 1..Len(st) : st[i] = q[from[i]]
  BY <1>3, <1>4
<1>6. st \in Seq(Entry) /\ Len(st) \in 0..n
  BY <1>1, <1>4
<1>7. \E f \in [1..Len(st) -> 1..n] :
        /\ \A i, j \in 1..Len(st) : i # j => f[i] # f[j]
        /\ \A i \in 1..Len(st) : st[i] = q[f[i]]
  BY <1>5
<1>. QED  BY <1>6, <1>7 DEF st

(* Some of the first i, which are ports, stay, and all behind them.        *)
LEMMA MendedIs ==
  ASSUME NEW q, Sound(q), NEW i \in 0..Leading(q),
         NEW s \in Seq(Entry), NEW from \in [1..Len(s) -> 1..i],
         \A j, l \in 1..Len(s) : j # l => from[j] # from[l],
         \A j \in 1..Len(s) : s[j].client = q[from[j]].client /\ s[j].port
  PROVE  /\ Sound(s \o SubSeq(q, i + 1, Len(q)))
         /\ LineOf(s \o SubSeq(q, i + 1, Len(q))) = LineOf(q)
<1>. DEFINE k == Leading(q)
            n == Len(s)
            w == SubSeq(q, i + 1, Len(q))
            r == s \o w
            more == Len(q) - i
<1>1. /\ q \in Seq(Entry) /\ Cut(q, k) /\ k \in 0..Len(q) /\ Len(q) \in Nat /\ k \in Nat
      /\ i \in 0..k
  BY OrderCut DEF Sound, Cut
<1>2. n \in Nat
  OBVIOUS
<1>3. w \in Seq(Entry) /\ Len(w) = more /\ \A j \in 1..more : w[j] = q[i + j]
  BY <1>1
<1>. HIDE DEF k, n, w, r
<1>4. more \in Nat
  BY <1>1
<1>5. /\ r \in Seq(Entry) /\ Len(r) = n + more
      /\ \A j \in 1..(n + more) : r[j] = IF j <= n THEN s[j] ELSE w[j - n]
  <2>1. /\ s \o w \in Seq(Entry) /\ Len(s \o w) = Len(s) + Len(w)
        /\ \A j \in 1..(Len(s) + Len(w)) :
             (s \o w)[j] = IF j <= Len(s) THEN s[j] ELSE w[j - Len(s)]
    BY <1>3, Concat
  <2>2. Len(w) = more
    BY <1>3
  <2>. HIDE DEF more
  <2>. QED  BY <2>1, <2>2 DEF n, r
<1>6. \A j \in 1..more : r[n + j] = q[i + j]
  <2>1. SUFFICES ASSUME NEW j \in 1..more PROVE r[n + j] = q[i + j]
    OBVIOUS
  <2>2. n + j \in 1..(n + more) /\ ~(n + j <= n) /\ (n + j) - n = j
    BY <1>2, <1>4, <2>1
  <2>. QED  BY <1>3, <1>5, <2>2
<1>7. \A j \in 1..n : r[j] = s[j] /\ r[j].port /\ r[j].client = q[from[j]].client
                       /\ from[j] \in 1..i
  <2>1. \A j \in 1..n : j \in 1..(n + more) /\ j <= n
    BY <1>2, <1>4
  <2>. QED  BY <1>5, <2>1 DEF n
<1>8. InOrder(r) /\ LineOf(r) = LineOf(q)
  <2>. DEFINE m == n + (k - i)
  <2>1. /\ m \in 0..Len(r) /\ Len(r) - m = Len(q) - k
        /\ \A j \in 1..(Len(q) - k) : (k - i) + j \in 1..more
                                       /\ m + j = n + ((k - i) + j) /\ i + ((k - i) + j) = k + j
    BY <1>1, <1>2, <1>4, <1>5
  <2>2. \A j \in 1..(Len(q) - k) : r[m + j] = q[k + j]
    BY <1>6, <2>1
  <2>3. \A j \in 1..m : r[j].port
    <3>1. SUFFICES ASSUME NEW j \in 1..m, j > n PROVE r[j].port
      BY <1>1, <1>2, <1>7
    <3>2. j - n \in 1..more /\ n + (j - n) = j /\ i + (j - n) \in 1..k
      BY <1>1, <1>2, <3>1
    <3>3. r[n + (j - n)] = q[i + (j - n)]
      BY <1>6, <3>2
    <3>. QED  BY <1>1, <3>2, <3>3 DEF Cut
  <2>4. m \in 0..Len(r) /\ Len(r) - m = Len(q) - k /\ r \in Seq(Entry)
        /\ q \in Seq(Entry) /\ Cut(q, k)
    BY <1>1, <1>5, <2>1
  <2>. HIDE DEF m
  <2>. QED  BY <2>2, <2>3, <2>4, SameWait
<1>9. Taken(r, q)
  <2>. DEFINE of == [j \in 1..Len(r) |-> IF j <= n THEN from[j] ELSE (j - n) + i]
  <2>1. \A j \in 1..Len(r) : j > n => /\ (j - n) + i \in (i + 1)..Len(q)
                                      /\ r[j] = q[(j - n) + i]
    <3>1. SUFFICES ASSUME NEW j \in 1..Len(r), j > n
                   PROVE  (j - n) + i \in (i + 1)..Len(q) /\ r[j] = q[(j - n) + i]
      OBVIOUS
    <3>2. j - n \in 1..more /\ n + (j - n) = j /\ i + (j - n) = (j - n) + i
          /\ (j - n) + i \in (i + 1)..Len(q)
      BY <1>1, <1>2, <1>5, <3>1
    <3>3. r[n + (j - n)] = q[i + (j - n)]
      BY <1>6, <3>2
    <3>. QED  BY <3>2, <3>3
  <2>2. \A j \in 1..Len(r) : j <= n => j \in 1..n
    BY <1>2, <1>5
  <2>3. \A j \in 1..Len(r) : of[j] \in 1..Len(q) /\ r[j].client = q[of[j]].client
    BY <1>1, <1>2, <1>5, <1>7, <2>1, <2>2
  <2>4. \A j, l \in 1..Len(r) : j # l => of[j] # of[l]
    <3>1. SUFFICES ASSUME NEW j \in 1..Len(r), NEW l \in 1..Len(r), j # l PROVE of[j] # of[l]
      OBVIOUS
    <3>2. CASE j <= n /\ l <= n
      BY <2>2, <3>1, <3>2 DEF n
    <3>3. CASE j > n /\ l > n
      BY <1>1, <1>2, <1>5, <3>1, <3>3
    <3>4. CASE j <= n /\ l > n
      <4>1. of[j] = from[j] /\ of[l] = (l - n) + i
        BY <1>2, <1>5, <3>4
      <4>2. from[j] \in 1..i /\ (l - n) + i \in (i + 1)..Len(q)
        BY <1>7, <2>1, <2>2, <3>4
      <4>. QED  BY <1>1, <4>1, <4>2
    <3>5. CASE j > n /\ l <= n
      BY <1>1, <1>2, <1>5, <1>7, <2>1, <2>2, <3>5
    <3>. QED  BY <1>2, <1>5, <3>2, <3>3, <3>4, <3>5
  <2>5. of \in [1..Len(r) -> 1..Len(q)]
    BY <2>3
  <2>. QED  BY <2>3, <2>4, <2>5 DEF Taken
<1>10. Distinct(r) /\ FewOfAHost(r)
  BY <1>1, <1>5, <1>9, TakenStays DEF Sound
<1>. QED  BY <1>5, <1>8, <1>10 DEF Sound, r, w

(* The first loop takes ports away and leaves those who wait alone. *)
LEMMA RestIs ==
  ASSUME NEW q, Sound(q), NEW silent
  PROVE  Sound(Rest(q, silent)) /\ LineOf(Rest(q, silent)) = LineOf(q)
<1>. DEFINE k == Leading(q)
            s == Stay(q, k, silent)
<1>1. q \in Seq(Entry) /\ k \in 0..Len(q) /\ k \in 0..k /\ \A i \in 1..k : q[i].port
  BY LeadingIs DEF Sound
<1>2. s \in Seq(Entry)
  BY <1>1, StayIs
<1>3. PICK from \in [1..Len(s) -> 1..k] :
        /\ \A i, j \in 1..Len(s) : i # j => from[i] # from[j]
        /\ \A i \in 1..Len(s) : s[i] = q[from[i]]
  BY <1>1, StayIs
<1>4. \A j \in 1..Len(s) : s[j].client = q[from[j]].client /\ s[j].port
  BY <1>1, <1>3
<1>. HIDE DEF s
<1>5. /\ Sound(s \o SubSeq(q, k + 1, Len(q)))
      /\ LineOf(s \o SubSeq(q, k + 1, Len(q))) = LineOf(q)
  BY <1>1, <1>2, <1>3, <1>4, MendedIs
<1>. QED  BY <1>5 DEF Rest, Waiting, s

(* Neither does it if it ends early, with one that is told his port again. *)
LEMMA AckIs ==
  ASSUME NEW q, Sound(q), NEW i \in 1..Leading(q), NEW silent
  PROVE  LET new == Stay(q, i - 1, silent) \o <<[q[i] EXCEPT !.sent = 0]>>
                      \o SubSeq(q, i + 1, Len(q))
         IN  Sound(new) /\ LineOf(new) = LineOf(q)
<1>. DEFINE k == Leading(q)
            s == Stay(q, i - 1, silent)
            n == Len(s)
            e == [q[i] EXCEPT !.sent = 0]
            t == s \o <<e>>
<1>1. /\ q \in Seq(Entry) /\ k \in 0..Len(q) /\ Len(q) \in Nat /\ (\A j \in 1..k : q[j].port)
      /\ i \in 1..k /\ i \in 0..k /\ i - 1 \in 0..Len(q)
  <2>1. q \in Seq(Entry) /\ k \in 0..Len(q) /\ \A j \in 1..k : q[j].port
    BY LeadingIs DEF Sound
  <2>2. Len(q) \in Nat
    BY <2>1
  <2>. QED  BY <2>1, <2>2
<1>2. s \in Seq(Entry) /\ n \in Nat
  BY <1>1, StayIs
<1>3. PICK from \in [1..n -> 1..(i - 1)] :
        /\ \A j, l \in 1..n : j # l => from[j] # from[l]
        /\ \A j \in 1..n : s[j] = q[from[j]]
  BY <1>1, StayIs
<1>4. e \in Entry /\ e.client = q[i].client /\ e.port
  <2>1. q[i] \in Entry /\ q[i].port
    BY <1>1
  <2>. QED  BY <2>1 DEF Entry
<1>. HIDE DEF s, e, n, k
<1>5. /\ t \in Seq(Entry) /\ Len(t) = n + 1
      /\ \A j \in 1..n : t[j] = s[j]
      /\ t[n + 1] = e
  BY <1>2, <1>4 DEF n
<1>. DEFINE of == [j \in 1..(n + 1) |-> IF j <= n THEN from[j] ELSE i]
<1>6. \A j \in 1..(n + 1) : (j \in 1..n /\ j <= n) \/ (j = n + 1 /\ ~(j <= n))
  BY <1>2
<1>7. \A j \in 1..n : from[j] \in 1..i /\ from[j] # i /\ from[j] \in 1..k
  BY <1>1, <1>3
<1>8. of \in [1..Len(t) -> 1..i] /\ \A j, l \in 1..Len(t) : j # l => of[j] # of[l]
  <2>1. \A j \in 1..(n + 1) : of[j] \in 1..i
    BY <1>1, <1>6, <1>7
  <2>2. \A j, l \in 1..(n + 1) : j # l => of[j] # of[l]
    BY <1>3, <1>6, <1>7
  <2>. QED  BY <1>5, <2>1, <2>2
<1>9. \A j \in 1..Len(t) : t[j].client = q[of[j]].client /\ t[j].port
  BY <1>1, <1>3, <1>4, <1>5, <1>6, <1>7
<1>. HIDE DEF of, t
<1>10. /\ Sound(t \o SubSeq(q, i + 1, Len(q)))
       /\ LineOf(t \o SubSeq(q, i + 1, Len(q))) = LineOf(q)
  BY <1>1, <1>5, <1>8, <1>9, MendedIs DEF k
<1>. QED  BY <1>10 DEF t, s, e

LEMMA WithoutIs ==
  ASSUME NEW S, NEW l \in Seq(S), NEW m \in 1..Len(l)
  PROVE  /\ Without(l, m) \in Seq(S)
         /\ Len(Without(l, m)) = Len(l) - 1
         /\ Len(l) \in Nat /\ m \in Nat
         /\ \A j \in 1..(Len(l) - 1) : Without(l, m)[j] = IF j < m THEN l[j] ELSE l[j + 1]
<1>. DEFINE a == SubSeq(l, 1, m - 1)
            b == SubSeq(l, m + 1, Len(l))
            n == Len(l)
<1>1. n \in Nat /\ m \in 1..n /\ \A i \in 1..n : l[i] \in S
  OBVIOUS
<1>. HIDE DEF n
<1>2. a \in Seq(S) /\ Len(a) = m - 1 /\ \A j \in 1..(m - 1) : a[j] = l[j]
  BY <1>1 DEF n
<1>3. b \in Seq(S) /\ Len(b) = n - m /\ \A j \in 1..(n - m) : b[j] = l[m + j]
  BY <1>1 DEF n
<1>. HIDE DEF a, b
<1>4. /\ a \o b \in Seq(S) /\ Len(a \o b) = (m - 1) + (n - m)
      /\ \A j \in 1..((m - 1) + (n - m)) :
           (a \o b)[j] = IF j <= m - 1 THEN a[j] ELSE b[j - (m - 1)]
  <2>1. /\ a \o b \in Seq(S) /\ Len(a \o b) = Len(a) + Len(b)
        /\ \A j \in 1..(Len(a) + Len(b)) :
             (a \o b)[j] = IF j <= Len(a) THEN a[j] ELSE b[j - Len(a)]
    BY <1>2, <1>3, ConcatProperties
  <2>. QED  BY <1>2, <1>3, <2>1
<1>5. ASSUME NEW j \in 1..(n - 1) PROVE (a \o b)[j] = IF j < m THEN l[j] ELSE l[j + 1]
  <2>1. CASE j < m
    <3>1. j \in 1..((m - 1) + (n - m)) /\ j <= m - 1 /\ j \in 1..(m - 1)
      BY <1>1, <2>1
    <3>. QED  BY <1>2, <1>4, <2>1, <3>1
  <2>2. CASE ~(j < m)
    <3>1. /\ j \in 1..((m - 1) + (n - m)) /\ ~(j <= m - 1)
          /\ j - (m - 1) \in 1..(n - m) /\ m + (j - (m - 1)) = j + 1
      BY <1>1, <2>2
    <3>. QED  BY <1>3, <1>4, <2>2, <3>1
  <2>. QED  BY <2>1, <2>2
<1>6. Without(l, m) = a \o b
  BY DEF Without, a, b
<1>7. (m - 1) + (n - m) = n - 1 /\ m \in Nat
  BY <1>1
<1>. QED  BY <1>1, <1>4, <1>5, <1>6, <1>7 DEF n

LEMMA TailIsWithout ==
  ASSUME NEW S, NEW l \in Seq(S), l # <<>>
  PROVE  1 \in 1..Len(l) /\ Tail(l) = Without(l, 1)
<1>1. 1 \in 1..Len(l)
  BY EmptySeq
<1>2. Tail(l) = SubSeq(l, 2, Len(l)) /\ Tail(l) \in Seq(S)
  BY TailIsSubSeq, HeadTailProperties
<1>3. SubSeq(l, 1, 0) = <<>>
  BY SubSeqEmpty
<1>4. <<>> \o Tail(l) = Tail(l)
  BY <1>2, ConcatEmptySeq
<1>. QED  BY <1>1, <1>2, <1>3, <1>4 DEF Without

ClientsOf(w) == [i \in 1..Len(w) |-> w[i].client]

LEMMA ClientsOfIs ==
  ASSUME NEW w \in Seq(Entry)
  PROVE  /\ ClientsOf(w) \in Seq(Clients) /\ Len(ClientsOf(w)) = Len(w)
         /\ \A i \in 1..Len(w) : ClientsOf(w)[i] = w[i].client
<1>1. \A i \in 1..Len(w) : w[i] \in Entry
  OBVIOUS
<1>2. \A i \in 1..Len(w) : w[i].client \in Clients
  BY <1>1 DEF Entry
<1>3. Len(w) \in Nat
  OBVIOUS
<1>. QED  BY <1>2, <1>3 DEF ClientsOf

LEMMA ClientsWithout ==
  ASSUME NEW w \in Seq(Entry), NEW m \in 1..Len(w)
  PROVE  ClientsOf(Without(w, m)) = Without(ClientsOf(w), m)
<1>. DEFINE l == ClientsOf(w)
            v == Without(w, m)
            n == Len(w)
<1>1. l \in Seq(Clients) /\ Len(l) = n /\ \A i \in 1..n : l[i] = w[i].client
  BY ClientsOfIs
<1>2. /\ v \in Seq(Entry) /\ Len(v) = n - 1 /\ n \in Nat /\ m \in Nat
      /\ \A j \in 1..(n - 1) : v[j] = IF j < m THEN w[j] ELSE w[j + 1]
  BY WithoutIs
<1>3. /\ ClientsOf(v) \in Seq(Clients) /\ Len(ClientsOf(v)) = n - 1
      /\ \A i \in 1..(n - 1) : ClientsOf(v)[i] = v[i].client
  BY <1>2, ClientsOfIs
<1>4. /\ Without(l, m) \in Seq(Clients) /\ Len(Without(l, m)) = n - 1
      /\ \A j \in 1..(n - 1) : Without(l, m)[j] = IF j < m THEN l[j] ELSE l[j + 1]
  <2>1. m \in 1..Len(l)
    BY <1>1
  <2>2. /\ Without(l, m) \in Seq(Clients) /\ Len(Without(l, m)) = Len(l) - 1
        /\ \A j \in 1..(Len(l) - 1) : Without(l, m)[j] = IF j < m THEN l[j] ELSE l[j + 1]
    BY <1>1, <2>1, WithoutIs
  <2>. QED  BY <1>1, <2>2
<1>. HIDE DEF l, v, n
<1>5. \A j \in 1..(n - 1) : j \in 1..n /\ j + 1 \in 1..n
  BY <1>2
<1>6. \A j \in 1..(n - 1) : ClientsOf(v)[j] = Without(l, m)[j]
  BY <1>1, <1>2, <1>3, <1>4, <1>5
<1>7. ClientsOf(v) = Without(l, m)
  BY <1>3, <1>4, <1>6, SeqEqual
<1>. QED  BY <1>7 DEF l, v

(* The parts of a list in order. *)
LEMMA PartsIs ==
  ASSUME NEW q, Sound(q)
  PROVE  /\ q \in Seq(Entry) /\ Cut(q, Leading(q))
         /\ Ports(q) \in Seq(Entry) /\ Len(Ports(q)) = Leading(q)
         /\ \A i \in 1..Leading(q) : Ports(q)[i] = q[i] /\ Ports(q)[i].port
         /\ Waiting(q) \in Seq(Entry) /\ Len(Waiting(q)) = Len(q) - Leading(q)
         /\ \A i \in 1..Len(Waiting(q)) :
              /\ Waiting(q)[i] = q[Leading(q) + i] /\ ~Waiting(q)[i].port
              /\ Leading(q) + i \in 1..Len(q)
         /\ LineOf(q) = ClientsOf(Waiting(q))
         /\ Leading(q) \in Nat /\ Len(q) \in Nat /\ Leading(q) \in 0..Len(q)
<1>. DEFINE k == Leading(q)
<1>1. q \in Seq(Entry) /\ Cut(q, k) /\ k \in 0..Len(q) /\ Len(q) \in Nat /\ k \in Nat
  BY OrderCut DEF Sound, Cut
<1>. HIDE DEF k
<1>2. /\ Ports(q) \in Seq(Entry) /\ Len(Ports(q)) = k
      /\ Waiting(q) \in Seq(Entry) /\ Len(Waiting(q)) = Len(q) - k
      /\ \A i \in 1..k : Ports(q)[i] = q[i]
      /\ \A i \in 1..(Len(q) - k) : Waiting(q)[i] = q[k + i]
  BY <1>1, WaitingIs
<1>3. \A i \in 1..k : q[i].port
  BY <1>1 DEF Cut
<1>4. \A i \in 1..(Len(q) - k) : k + i \in 1..Len(q) /\ ~(k + i <= k)
  BY <1>1
<1>5. \A i \in 1..(Len(q) - k) : ~q[k + i].port
  BY <1>1, <1>4 DEF Cut
<1>6. LineOf(q) = ClientsOf(Waiting(q))
  BY DEF LineOf, ClientsOf
<1>. QED  BY <1>1, <1>2, <1>3, <1>4, <1>5, <1>6 DEF k

LEMMA PortsAndWaiting ==
  ASSUME NEW q, Sound(q)
  PROVE  Ports(q) \o Waiting(q) = q
<1>1. q \in Seq(Entry) /\ Leading(q) \in 0..Len(q) /\ Len(q) \in Nat
  BY PartsIs
<1>2. 1 \in 1..(Len(q) + 1) /\ Leading(q) \in (1 - 1)..Len(q) /\ Len(q) \in Leading(q)..Len(q)
  BY <1>1
<1>3. SubSeq(q, 1, Leading(q)) \o SubSeq(q, Leading(q) + 1, Len(q)) = SubSeq(q, 1, Len(q))
  BY <1>1, <1>2, ConcatAdjacentSubSeq
<1>4. SubSeq(q, 1, Len(q)) = q
  BY <1>1, SubSeqFull
<1>. QED  BY <1>3, <1>4 DEF Ports, Waiting

(* One of those who wait is taken out of the list. *)
LEMMA DropIs ==
  ASSUME NEW q, Sound(q), NEW m \in 1..Len(Waiting(q))
  PROVE  LET new == Ports(q) \o Without(Waiting(q), m)
         IN  /\ Sound(new) /\ Len(new) = Len(q) - 1
             /\ LineOf(new) = Without(LineOf(q), m)
<1>. DEFINE k == Leading(q)
            p == Ports(q)
            w == Waiting(q)
            v == Without(w, m)
            n == Len(w)
            new == p \o v
<1>1. /\ q \in Seq(Entry) /\ k \in Nat /\ Len(q) \in Nat /\ Len(q) = k + n
      /\ p \in Seq(Entry) /\ Len(p) = k /\ \A i \in 1..k : p[i] = q[i] /\ p[i].port
      /\ w \in Seq(Entry)
      /\ \A i \in 1..n : w[i] = q[k + i] /\ ~w[i].port
      /\ LineOf(q) = ClientsOf(w)
  BY PartsIs
<1>2. /\ v \in Seq(Entry) /\ Len(v) = n - 1 /\ n \in Nat /\ m \in Nat /\ m \in 1..n
      /\ \A j \in 1..(n - 1) : v[j] = IF j < m THEN w[j] ELSE w[j + 1]
      /\ ClientsOf(v) = Without(ClientsOf(w), m)
  BY <1>1, WithoutIs, ClientsWithout
<1>. HIDE DEF k, p, w, v, n
<1>3. \A j \in 1..(n - 1) : ~v[j].port
  <2>1. \A j \in 1..(n - 1) : j \in 1..n /\ j + 1 \in 1..n
    BY <1>2
  <2>. QED  BY <1>1, <1>2, <2>1
<1>4. /\ new \in Seq(Entry) /\ Len(new) = k + (n - 1) /\ Cut(new, k)
      /\ LineOf(new) = [i \in 1..Len(v) |-> v[i].client]
      /\ \A i \in 1..(k + (n - 1)) : new[i] = IF i <= k THEN p[i] ELSE v[i - k]
  <2>1. /\ \A i \in 1..Len(p) : p[i].port
        /\ \A i \in 1..Len(v) : ~v[i].port
    BY <1>1, <1>2, <1>3
  <2>2. /\ p \o v \in Seq(Entry) /\ Len(p \o v) = Len(p) + Len(v) /\ Cut(p \o v, Len(p))
        /\ LineOf(p \o v) = [i \in 1..Len(v) |-> v[i].client]
        /\ \A i \in 1..(Len(p) + Len(v)) :
             (p \o v)[i] = IF i <= Len(p) THEN p[i] ELSE v[i - Len(p)]
    BY <1>1, <1>2, <2>1, Joined
  <2>3. Len(p) = k /\ Len(v) = n - 1
    BY <1>1, <1>2
  <2>. QED  BY <2>2, <2>3
<1>. HIDE DEF new
<1>5. LineOf(new) = Without(LineOf(q), m)
  BY <1>1, <1>2, <1>4 DEF ClientsOf
<1>6. Taken(new, q)
  <2>. DEFINE of == [j \in 1..Len(new) |-> IF j < k + m THEN j ELSE j + 1]
  <2>1. ASSUME NEW j \in 1..(k + (n - 1))
        PROVE  new[j] = IF j < k + m THEN q[j] ELSE q[j + 1]
    <3>1. CASE j <= k
      <4>1. j \in 1..k /\ j < k + m
        BY <1>1, <1>2, <3>1
      <4>. QED  BY <1>1, <1>4, <4>1
    <3>2. CASE j > k
      <4>1. /\ j - k \in 1..(n - 1) /\ j - k \in 1..n /\ (j - k) + 1 \in 1..n
            /\ k + (j - k) = j /\ k + ((j - k) + 1) = j + 1
            /\ (j < k + m <=> j - k < m) /\ ~(j <= k)
        BY <1>1, <1>2, <3>2
      <4>2. new[j] = v[j - k]
        BY <1>4, <4>1
      <4>3. v[j - k] = IF j - k < m THEN w[j - k] ELSE w[(j - k) + 1]
        BY <1>2, <4>1
      <4>4. w[j - k] = q[j] /\ w[(j - k) + 1] = q[j + 1]
        BY <1>1, <4>1
      <4>. QED  BY <4>1, <4>2, <4>3, <4>4
    <3>. QED  BY <1>1, <3>1, <3>2
  <2>2. \A j \in 1..Len(new) : of[j] \in 1..Len(q) /\ new[j].client = q[of[j]].client
    <3>1. SUFFICES ASSUME NEW j \in 1..Len(new)
                   PROVE  of[j] \in 1..Len(q) /\ new[j].client = q[of[j]].client
      OBVIOUS
    <3>2. j \in 1..(k + (n - 1))
      BY <1>4
    <3>3. new[j] = IF j < k + m THEN q[j] ELSE q[j + 1]
      BY <2>1, <3>2
    <3>4. of[j] = IF j < k + m THEN j ELSE j + 1
      OBVIOUS
    <3>5. j \in 1..Len(q) /\ j + 1 \in 1..Len(q)
      BY <1>1, <1>2, <3>2
    <3>. QED  BY <3>3, <3>4, <3>5
  <2>3. \A i, j \in 1..Len(new) : i # j => of[i] # of[j]
    <3>1. k + m \in Nat /\ \A i \in 1..Len(new) : i \in Nat
      BY <1>1, <1>2, <1>4
    <3>. QED  BY <3>1
  <2>4. of \in [1..Len(new) -> 1..Len(q)]
    BY <2>2
  <2>. QED  BY <2>2, <2>3, <2>4 DEF Taken
<1>7. Distinct(new) /\ FewOfAHost(new) /\ InOrder(new)
  BY <1>1, <1>4, <1>6, TakenStays, CutOrder DEF Sound
<1>8. Len(new) = Len(q) - 1
  BY <1>1, <1>2, <1>4
<1>. QED  BY <1>4, <1>5, <1>7, <1>8 DEF Sound, new, p, v, w

(* The first of those who wait gets a port. *)
LEMMA AdmitIs ==
  ASSUME NEW q, Sound(q), Waiting(q) # <<>>
  PROVE  LET head == Waiting(q)[1]
             new  == Ports(q) \o <<NewPort(head.client)>> \o Tail(Waiting(q))
         IN  /\ Sound(new) /\ Len(new) = Len(q)
             /\ LineOf(q) # <<>> /\ Head(LineOf(q)) = head.client
             /\ LineOf(new) = Tail(LineOf(q))
<1>. DEFINE k == Leading(q)
            p == Ports(q)
            w == Waiting(q)
            n == Len(w)
            e == NewPort(w[1].client)
            a == p \o <<e>>
            b == Tail(w)
            new == a \o b
<1>1. /\ q \in Seq(Entry) /\ k \in Nat /\ Len(q) \in Nat /\ Len(q) = k + n
      /\ p \in Seq(Entry) /\ Len(p) = k /\ \A i \in 1..k : p[i] = q[i] /\ p[i].port
      /\ w \in Seq(Entry) /\ w # <<>>
      /\ \A i \in 1..n : w[i] = q[k + i] /\ ~w[i].port
      /\ LineOf(q) = ClientsOf(w)
  BY PartsIs
<1>2. n \in Nat /\ n >= 1 /\ 1 \in 1..n /\ w[1] \in Entry
  BY <1>1, EmptySeq
<1>3. e \in Entry /\ e.client = w[1].client /\ e.port
  <2>1. w[1].client \in Clients
    BY <1>2 DEF Entry
  <2>2. NewPort(w[1].client) =
          [client |-> w[1].client, port |-> TRUE, sent |-> 0]
    BY DEF NewPort
  <2>3. [client |-> w[1].client, port |-> TRUE, sent |-> 0] \in Entry
    BY <2>1 DEF Entry
  <2>. QED  BY <2>2, <2>3
<1>4. b \in Seq(Entry) /\ Len(b) = n - 1 /\ \A i \in 1..(n - 1) : b[i] = w[i + 1]
  BY <1>1, HeadTailProperties
<1>5. ClientsOf(b) = Tail(ClientsOf(w)) /\ ClientsOf(w) # <<>> /\ Head(ClientsOf(w)) = w[1].client
  <2>1. b = Without(w, 1) /\ 1 \in 1..Len(w)
    BY <1>1, TailIsWithout
  <2>2. ClientsOf(b) = Without(ClientsOf(w), 1)
    BY <1>1, <2>1, ClientsWithout
  <2>3. ClientsOf(w) \in Seq(Clients) /\ Len(ClientsOf(w)) = n /\ ClientsOf(w)[1] = w[1].client
    BY <1>1, <1>2, ClientsOfIs
  <2>4. ClientsOf(w) # <<>>
    BY <1>2, <2>3
  <2>5. Tail(ClientsOf(w)) = Without(ClientsOf(w), 1)
    BY <2>3, <2>4, TailIsWithout
  <2>. QED  BY <2>2, <2>3, <2>4, <2>5
<1>. HIDE DEF k, p, w, n, e, b
<1>6. /\ a \in Seq(Entry) /\ Len(a) = k + 1
      /\ \A i \in 1..k : a[i] = p[i]
      /\ a[k + 1] = e
  BY <1>1, <1>3, Appended
<1>7. \A i \in 1..(k + 1) : i \in 1..k \/ i = k + 1
  BY <1>1
<1>8. \A i \in 1..(n - 1) : ~b[i].port
  <2>1. \A i \in 1..(n - 1) : i + 1 \in 1..n
    BY <1>2
  <2>. QED  BY <1>1, <1>4, <2>1
<1>. HIDE DEF a
<1>9. /\ new \in Seq(Entry) /\ Len(new) = (k + 1) + (n - 1) /\ Cut(new, k + 1)
      /\ LineOf(new) = ClientsOf(b)
      /\ \A i \in 1..((k + 1) + (n - 1)) : new[i] = IF i <= k + 1 THEN a[i] ELSE b[i - (k + 1)]
  <2>1. \A i \in 1..Len(a) : a[i].port
    BY <1>1, <1>3, <1>6, <1>7
  <2>2. \A i \in 1..Len(b) : ~b[i].port
    BY <1>4, <1>8
  <2>3. /\ a \o b \in Seq(Entry) /\ Len(a \o b) = Len(a) + Len(b) /\ Cut(a \o b, Len(a))
        /\ LineOf(a \o b) = [i \in 1..Len(b) |-> b[i].client]
        /\ \A i \in 1..(Len(a) + Len(b)) :
             (a \o b)[i] = IF i <= Len(a) THEN a[i] ELSE b[i - Len(a)]
    BY <1>4, <1>6, <2>1, <2>2, Joined
  <2>. QED  BY <1>4, <1>6, <2>3 DEF ClientsOf
<1>. HIDE DEF new
<1>10. \A j \in 1..Len(q) : new[j].client = q[j].client
  <2>1. SUFFICES ASSUME NEW j \in 1..Len(q) PROVE new[j].client = q[j].client
    OBVIOUS
  <2>2. j \in 1..((k + 1) + (n - 1))
    BY <1>1, <1>2
  <2>3. CASE j <= k + 1
    <3>1. j \in 1..k \/ j = k + 1
      BY <1>1, <2>3
    <3>2. a[j].client = q[j].client
      BY <1>1, <1>2, <1>3, <1>6, <3>1
    <3>. QED  BY <1>9, <2>2, <2>3, <3>2
  <2>4. CASE ~(j <= k + 1)
    <3>1. /\ j - (k + 1) \in 1..(n - 1) /\ (j - (k + 1)) + 1 \in 1..n
          /\ k + ((j - (k + 1)) + 1) = j
      BY <1>1, <1>2, <2>4
    <3>2. new[j] = b[j - (k + 1)]
      BY <1>9, <2>2, <2>4
    <3>3. b[j - (k + 1)] = w[(j - (k + 1)) + 1]
      BY <1>4, <3>1
    <3>4. w[(j - (k + 1)) + 1] = q[j]
      BY <1>1, <3>1
    <3>. QED  BY <3>2, <3>3, <3>4
  <2>. QED  BY <2>3, <2>4
<1>11. Len(new) = Len(q)
  BY <1>1, <1>2, <1>9
<1>12. Taken(new, q)
  <2>. DEFINE of == [j \in 1..Len(new) |-> j]
  <2>1. of \in [1..Len(new) -> 1..Len(q)] /\ \A i, j \in 1..Len(new) : i # j => of[i] # of[j]
    BY <1>11
  <2>2. \A i \in 1..Len(new) : new[i].client = q[of[i]].client
    BY <1>10, <1>11
  <2>. QED  BY <2>1, <2>2 DEF Taken
<1>13. Distinct(new) /\ FewOfAHost(new) /\ InOrder(new)
  BY <1>1, <1>9, <1>12, TakenStays, CutOrder DEF Sound
<1>. QED  BY <1>1, <1>5, <1>9, <1>11, <1>13 DEF Sound, new, a, b, e, p, w

(* Somebody who waits is moved behind the last port. *)
LEMMA MoveIs ==
  ASSUME NEW q, q = queue, Sound(q), NEW i \in 2..Len(q), NEW first \in 0..(i - 1),
         ~q[i].port, first > 0 => q[first].port,
         \A j \in (first + 1)..(i - 1) : ~q[j].port
  PROVE  LET new == MoveTo(i, first)
             at  == i - Leading(q)
         IN  /\ Sound(new) /\ Len(new) = Len(q)
             /\ at \in 1..Len(LineOf(q))
             /\ LineOf(new) = <<LineOf(q)[at]>> \o Without(LineOf(q), at)
<1>. DEFINE k == Leading(q)
            w == Waiting(q)
            n == Len(w)
            new == MoveTo(i, first)
            at == i - k
            v == Without(w, at)
<1>1. /\ q \in Seq(Entry) /\ k \in Nat /\ Len(q) \in Nat /\ Len(q) = k + n
      /\ w \in Seq(Entry) /\ n \in Nat
      /\ \A j \in 1..n : w[j] = q[k + j] /\ ~w[j].port
      /\ Cut(q, k) /\ LineOf(q) = ClientsOf(w)
  BY PartsIs
<1>. HIDE DEF k, w, n
<1>2. k < i
  BY <1>1 DEF Cut
<1>3. first = k
  <2>1. ~(first < k)
    <3>1. SUFFICES ASSUME first < k PROVE FALSE
      OBVIOUS
    <3>2. k \in (first + 1)..(i - 1) /\ k \in 1..Len(q) /\ k <= k
      BY <1>1, <1>2, <3>1
    <3>. QED  BY <1>1, <3>2 DEF Cut
  <2>2. ~(k < first)
    <3>1. SUFFICES ASSUME k < first PROVE FALSE
      OBVIOUS
    <3>2. first > 0 /\ first \in 1..Len(q) /\ ~(first <= k)
      BY <1>1, <3>1
    <3>. QED  BY <1>1, <3>2 DEF Cut
  <2>. QED  BY <1>1, <2>1, <2>2
<1>4. at \in 1..n /\ k + at = i /\ at \in Nat
  BY <1>1, <1>2
<1>5. /\ v \in Seq(Entry) /\ Len(v) = n - 1
      /\ \A j \in 1..(n - 1) : v[j] = IF j < at THEN w[j] ELSE w[j + 1]
      /\ ClientsOf(v) = Without(ClientsOf(w), at)
  BY <1>1, <1>4, WithoutIs, ClientsWithout DEF n
<1>6. /\ new \in Seq(Entry) /\ Len(new) = Len(q)
      /\ \A j \in 1..Len(q) : new[j] = IF j <= k THEN q[j]
                                       ELSE IF j = k + 1 THEN q[i]
                                       ELSE IF j <= i THEN q[j - 1] ELSE q[j]
  <2>. DEFINE a == SubSeq(q, 1, k)
              b == SubSeq(q, k + 1, i - 1)
              c == SubSeq(q, i + 1, Len(q))
  <2>1. a \in Seq(Entry) /\ Len(a) = k /\ \A j \in 1..k : a[j] = q[j]
    BY <1>1, <1>2
  <2>2. b \in Seq(Entry) /\ Len(b) = at - 1 /\ \A j \in 1..(at - 1) : b[j] = q[k + j]
    BY <1>1, <1>2
  <2>3. c \in Seq(Entry) /\ Len(c) = Len(q) - i /\ \A j \in 1..(Len(q) - i) : c[j] = q[i + j]
    BY <1>1, <1>2
  <2>4. q[i] \in Entry
    BY <1>1
  <2>5. new = ((a \o <<q[i]>>) \o b) \o c
    BY <1>3 DEF MoveTo
  <2>. HIDE DEF a, b, c, new
  <2>6. /\ a \o <<q[i]>> \in Seq(Entry) /\ Len(a \o <<q[i]>>) = k + 1
        /\ \A j \in 1..k : (a \o <<q[i]>>)[j] = q[j]
        /\ (a \o <<q[i]>>)[k + 1] = q[i]
    BY <2>1, <2>4, Appended
  <2>. DEFINE d == a \o <<q[i]>>
              f == d \o b
  <2>. HIDE DEF d
  <2>7. /\ f \in Seq(Entry) /\ Len(f) = Len(d) + Len(b)
        /\ \A j \in 1..(Len(d) + Len(b)) : f[j] = IF j <= Len(d) THEN d[j] ELSE b[j - Len(d)]
    BY <2>2, <2>6, Concat DEF d
  <2>8. Len(d) = k + 1 /\ (\A j \in 1..k : d[j] = q[j]) /\ d[k + 1] = q[i] /\ new = f \o c
    BY <2>5, <2>6 DEF d
  <2>. HIDE DEF f
  <2>9. /\ new \in Seq(Entry) /\ Len(new) = Len(f) + Len(c)
        /\ \A j \in 1..(Len(f) + Len(c)) : new[j] = IF j <= Len(f) THEN f[j] ELSE c[j - Len(f)]
    BY <2>3, <2>7, <2>8, Concat
  <2>10. /\ Len(f) = i /\ Len(new) = Len(q) /\ Len(d) = k + 1 /\ Len(b) = at - 1
         /\ Len(c) = Len(q) - i
         /\ k \in Nat /\ i \in Nat /\ Len(q) \in Nat /\ k < i /\ i <= Len(q) /\ at = i - k
    <3>1. /\ Len(b) = at - 1 /\ Len(c) = Len(q) - i /\ Len(d) = k + 1
          /\ Len(f) = Len(d) + Len(b) /\ Len(new) = Len(f) + Len(c)
      BY <2>2, <2>3, <2>7, <2>8, <2>9
    <3>2. k \in Nat /\ i \in Nat /\ Len(q) \in Nat /\ k < i /\ i <= Len(q) /\ at = i - k
      BY <1>1, <1>2
    <3>. QED  BY <3>1, <3>2
  <2>11. ASSUME NEW j \in 1..Len(q)
         PROVE  new[j] = IF j <= k THEN q[j] ELSE IF j = k + 1 THEN q[i]
                         ELSE IF j <= i THEN q[j - 1] ELSE q[j]
    <3>1. CASE j <= k
      <4>1. j \in 1..k /\ j <= Len(f) /\ j <= Len(d) /\ j \in 1..(Len(f) + Len(c))
            /\ j \in 1..(Len(d) + Len(b))
        BY <2>10, <3>1
      <4>. QED  BY <2>7, <2>8, <2>9, <3>1, <4>1
    <3>2. CASE j = k + 1
      <4>1. j <= Len(f) /\ j <= Len(d) /\ j \in 1..(Len(f) + Len(c))
            /\ j \in 1..(Len(d) + Len(b)) /\ ~(j <= k)
        BY <2>10, <3>2
      <4>. QED  BY <2>7, <2>8, <2>9, <3>2, <4>1
    <3>3. CASE j > k + 1 /\ j <= i
      <4>1. /\ j <= Len(f) /\ ~(j <= Len(d)) /\ j \in 1..(Len(f) + Len(c))
            /\ j \in 1..(Len(d) + Len(b)) /\ j - Len(d) \in 1..(at - 1)
            /\ k + (j - Len(d)) = j - 1 /\ ~(j <= k) /\ j # k + 1
        BY <2>10, <3>3
      <4>2. new[j] = b[j - Len(d)]
        BY <2>7, <2>9, <4>1
      <4>3. b[j - Len(d)] = q[j - 1]
        BY <2>2, <4>1
      <4>. QED  BY <3>3, <4>1, <4>2, <4>3
    <3>4. CASE j > i
      <4>1. /\ ~(j <= Len(f)) /\ j \in 1..(Len(f) + Len(c))
            /\ j - Len(f) \in 1..(Len(q) - i)
            /\ i + (j - Len(f)) = j /\ ~(j <= k) /\ j # k + 1 /\ ~(j <= i)
        BY <2>10, <3>4
      <4>. QED  BY <2>3, <2>9, <4>1
    <3>. QED  BY <1>1, <1>2, <3>1, <3>2, <3>3, <3>4
  <2>. QED  BY <2>9, <2>10, <2>11
<1>. HIDE DEF new, at, v
<1>0. k \in Nat /\ n \in Nat /\ i \in Nat /\ k < i /\ i <= Len(q) /\ Len(q) = k + n
  BY <1>1, <1>2
<1>7. \A j \in 1..n : new[k + j] = IF j = 1 THEN w[at] ELSE v[j - 1]
  <2>1. SUFFICES ASSUME NEW j \in 1..n PROVE new[k + j] = IF j = 1 THEN w[at] ELSE v[j - 1]
    OBVIOUS
  <2>2. k + j \in 1..Len(q) /\ ~(k + j <= k) /\ (k + j = k + 1 <=> j = 1)
        /\ (k + j <= i <=> j - 1 < at)
    BY <1>1, <1>4
  <2>3. CASE j = 1
    BY <1>1, <1>4, <1>6, <2>2, <2>3
  <2>4. CASE j # 1
    <3>1. j - 1 \in 1..(n - 1) /\ j - 1 \in 1..n /\ (j - 1) + 1 = j
          /\ k + (j - 1) = (k + j) - 1
      BY <1>0, <2>4
    <3>2. w[j - 1] = q[(k + j) - 1] /\ w[j] = q[k + j]
      BY <1>1, <3>1
    <3>3. v[j - 1] = IF j - 1 < at THEN w[j - 1] ELSE w[j]
      BY <1>5, <3>1
    <3>. QED  BY <1>6, <2>2, <2>4, <3>2, <3>3
  <2>. QED  BY <2>3, <2>4
<1>8. Cut(new, k)
  <2>1. ASSUME NEW j \in 1..Len(new) PROVE new[j].port <=> j <= k
    <3>1. CASE j <= k
      BY <1>1, <1>6, <3>1 DEF Cut
    <3>2. CASE j = k + 1
      <4>1. new[j] = q[i] /\ ~(j <= k) /\ i \in 1..Len(q) /\ ~(i <= k)
        BY <1>0, <1>6, <3>2
      <4>. QED  BY <1>1, <4>1 DEF Cut
    <3>3. CASE j > k + 1 /\ j <= i
      <4>1. new[j] = q[j - 1] /\ ~(j <= k) /\ j - 1 \in 1..Len(q) /\ ~(j - 1 <= k)
        BY <1>0, <1>6, <3>3
      <4>. QED  BY <1>1, <4>1 DEF Cut
    <3>4. CASE j > i
      <4>1. new[j] = q[j] /\ ~(j <= k) /\ j \in 1..Len(q)
        BY <1>0, <1>6, <3>4
      <4>. QED  BY <1>1, <4>1 DEF Cut
    <3>. QED  BY <1>0, <1>6, <3>1, <3>2, <3>3, <3>4
  <2>. QED  BY <1>1, <1>6, <2>1 DEF Cut
<1>9. LineOf(new) = <<LineOf(q)[at]>> \o Without(LineOf(q), at)
  <2>. DEFINE l == LineOf(q)
              m == LineOf(new)
              r == <<l[at]>> \o Without(l, at)
  <2>1. l \in Seq(Clients) /\ Len(l) = n /\ \A j \in 1..n : l[j] = w[j].client
    BY <1>1, ClientsOfIs DEF n
  <2>2. m = [j \in 1..n |-> new[k + j].client]
    <3>1. Len(new) - k = n
      BY <1>1, <1>6
    <3>. QED  BY <1>6, <1>8, <3>1, LineIs
  <2>3. /\ Without(l, at) \in Seq(Clients) /\ Len(Without(l, at)) = n - 1
        /\ \A j \in 1..(n - 1) : Without(l, at)[j] = v[j].client
    <3>1. /\ ClientsOf(v) \in Seq(Clients) /\ Len(ClientsOf(v)) = n - 1
          /\ \A j \in 1..(n - 1) : ClientsOf(v)[j] = v[j].client
      BY <1>5, ClientsOfIs
    <3>2. Without(l, at) = ClientsOf(v)
      BY <1>1, <1>5
    <3>. QED  BY <3>1, <3>2
  <2>4. l[at] \in Clients
    BY <1>4, <2>1
  <2>. HIDE DEF l, m
  <2>5. /\ r \in Seq(Clients) /\ Len(r) = n
        /\ \A j \in 1..n : r[j] = IF j = 1 THEN l[at] ELSE Without(l, at)[j - 1]
    <3>. DEFINE u == Without(l, at)
    <3>1. u \in Seq(Clients) /\ Len(u) = n - 1
      BY <2>3
    <3>. HIDE DEF u
    <3>2. /\ <<l[at]>> \o u \in Seq(Clients) /\ Len(<<l[at]>> \o u) = n
          /\ \A j \in 1..n : (<<l[at]>> \o u)[j] = IF j = 1 THEN l[at] ELSE u[j - 1]
      BY <1>1, <2>4, <3>1
    <3>. QED  BY <3>2 DEF u
  <2>6. \A j \in 1..n : m[j] = r[j]
    <3>1. SUFFICES ASSUME NEW j \in 1..n PROVE m[j] = r[j]
      OBVIOUS
    <3>2. CASE j = 1
      BY <1>4, <1>7, <2>1, <2>2, <2>5, <3>2
    <3>3. CASE j # 1
      <4>1. j - 1 \in 1..(n - 1)
        BY <1>1, <3>3
      <4>. QED  BY <1>7, <2>2, <2>3, <2>5, <3>3, <4>1
    <3>. QED  BY <3>2, <3>3
  <2>7. m \in Seq(Clients) /\ Len(m) = n
    <3>1. \A j \in 1..n : m[j] \in Clients
      BY <2>5, <2>6
    <3>. QED  BY <1>1, <2>2, <3>1
  <2>8. m = r
    BY <2>5, <2>6, <2>7, SeqEqual
  <2>. QED  BY <2>8 DEF l, m
<1>10. Taken(new, q)
  <2>. DEFINE of == [j \in 1..Len(new) |-> IF j <= k THEN j ELSE IF j = k + 1 THEN i
                                           ELSE IF j <= i THEN j - 1 ELSE j]
  <2>1. of \in [1..Len(new) -> 1..Len(q)]
    BY <1>1, <1>2, <1>6
  <2>2. \A j, l \in 1..Len(new) : j # l => of[j] # of[l]
    <3>1. k \in Nat /\ i \in Nat /\ k < i /\ \A j \in 1..Len(new) : j \in Nat
      BY <1>1, <1>2, <1>6
    <3>. QED  BY <3>1
  <2>3. \A j \in 1..Len(new) : new[j].client = q[of[j]].client
    BY <1>1, <1>6
  <2>. QED  BY <2>1, <2>2, <2>3 DEF Taken
<1>11. Distinct(new) /\ FewOfAHost(new) /\ InOrder(new)
  BY <1>1, <1>6, <1>8, <1>10, TakenStays, CutOrder DEF Sound
<1>12. Len(LineOf(q)) = n
  BY <1>1, ClientsOfIs DEF n
<1>. QED  BY <1>4, <1>6, <1>9, <1>11, <1>12 DEF Sound, new, at, k
-----------------------------------------------------------------------------
(* The steps that change the list. *)

(* The list is sound, counted, and empty once the server has ended. *)
ListInv ==
  /\ Sound(queue)
  /\ NumQueuedPlayers = Len(queue)
  /\ ended => queue = <<>>

LEMMA PlayerIs ==
  ASSUME Sound(queue), NEW c \in Clients, QueuePlayer(c)
  PROVE  /\ Sound(queue') /\ NumQueuedPlayers' = Len(queue')
         /\ LineOf(queue') = Append(LineOf(queue), c)
         /\ \A i \in 1..Len(LineOf(queue)) : LineOf(queue)[i] # c
<1>. DEFINE q == queue
            k == Leading(q)
            n == Len(Waiting(q))
            e == NewEntry(c)
            new == Append(q, e)
<1>1. /\ q \in Seq(Entry) /\ k \in Nat /\ Len(q) \in Nat /\ Len(q) = k + n /\ n \in Nat
      /\ Cut(q, k) /\ LineOf(q) = ClientsOf(Waiting(q))
      /\ Waiting(q) \in Seq(Entry)
      /\ \A i \in 1..n : Waiting(q)[i] = q[k + i] /\ k + i \in 1..Len(q)
  BY PartsIs
<1>2. e \in Entry /\ e.client = c /\ e.port = FALSE
  BY DEF Entry, NewEntry
<1>3. /\ queue' = new /\ NumQueuedPlayers' = Len(q) + 1
      /\ \A d \in Of(q) : ~SameNick(c, d)
      /\ ~(Cardinality({d \in Of(q) : HostOf[d] = HostOf[c]}) > 1)
  BY DEF QueuePlayer, Refused, Queued, Of
<1>. HIDE DEF k, n, e
<1>4. /\ new \in Seq(Entry) /\ Len(new) = Len(q) + 1
      /\ \A i \in 1..Len(q) : new[i] = q[i]
      /\ new[Len(q) + 1] = e
  BY <1>1, <1>2
<1>. HIDE DEF q, new
<1>5. \A i \in 1..(Len(q) + 1) : i \in 1..Len(q) \/ i = Len(q) + 1
  BY <1>1
<1>6. \A i \in 1..Len(q) : q[i].client \in Of(q)
  BY DEF Of
<1>7. Cut(new, k)
  <2>1. \A i \in 1..Len(q) : new[i].port <=> i <= k
    BY <1>1, <1>4 DEF Cut
  <2>2. ~new[Len(q) + 1].port /\ ~(Len(q) + 1 <= k)
    BY <1>1, <1>2, <1>4
  <2>. QED  BY <1>1, <1>4, <1>5, <2>1, <2>2 DEF Cut
<1>8. Distinct(new)
  <2>1. \A i \in 1..Len(q) : ~SameNick(c, new[i].client) /\ ~SameNick(new[i].client, c)
    BY <1>3, <1>4, <1>6 DEF SameNick
  <2>2. \A i, j \in 1..Len(q) : i # j => ~SameNick(new[i].client, new[j].client)
    BY <1>4 DEF Sound, Distinct, q
  <2>3. new[Len(q) + 1].client = c
    BY <1>2, <1>4
  <2>. QED  BY <1>4, <1>5, <2>1, <2>2, <2>3 DEF Distinct
<1>9. FewOfAHost(new)
  <2>1. Of(new) = Of(q) \union {c}
    <3>1. \A x \in Of(new) : x \in Of(q) \union {c}
      <4>1. SUFFICES ASSUME NEW i \in 1..Len(new) PROVE new[i].client \in Of(q) \union {c}
        BY DEF Of
      <4>. QED  BY <1>2, <1>4, <1>5, <1>6
    <3>2. \A x \in Of(q) : x \in Of(new)
      <4>1. SUFFICES ASSUME NEW i \in 1..Len(q) PROVE q[i].client \in Of(new)
        BY DEF Of
      <4>2. i \in 1..Len(new) /\ new[i].client = q[i].client
        BY <1>1, <1>4
      <4>3. new[i].client \in Of(new)
        BY <4>2 DEF Of
      <4>. QED  BY <4>2, <4>3
    <3>3. c \in Of(new)
      <4>1. Len(q) + 1 \in 1..Len(new) /\ new[Len(q) + 1].client = c
        BY <1>1, <1>2, <1>4
      <4>. QED  BY <4>1 DEF Of
    <3>. QED  BY <3>1, <3>2, <3>3
  <2>2. ASSUME NEW d \in Clients
        PROVE  Cardinality({x \in Of(new) : HostOf[x] = HostOf[d]}) <= 2
    <3>. DEFINE S == {x \in Of(q) : HostOf[x] = HostOf[d]}
                T == {x \in Of(new) : HostOf[x] = HostOf[d]}
    <3>1. IsFiniteSet(S) /\ Cardinality(S) \in Nat /\ Cardinality(S) <= 2
      <4>1. S \subseteq Clients
        BY <1>1, OfClients
      <4>2. Cardinality(S) <= 2
        BY DEF Sound, FewOfAHost, q
      <4>. QED  BY <4>1, <4>2, ClientsFinite
    <3>2. CASE HostOf[c] = HostOf[d]
      <4>1. T = S \union {c}
        BY <2>1, <3>2
      <4>2. ~(Cardinality(S) > 1)
        <5>1. S = {x \in Of(q) : HostOf[x] = HostOf[c]}
          BY <3>2
        <5>. QED  BY <1>3, <5>1
      <4>3. Cardinality(S \union {c}) = IF c \in S THEN Cardinality(S) ELSE Cardinality(S) + 1
        BY <3>1, FS_AddElement
      <4>4. Cardinality(T) <= 2
        <5>. HIDE DEF S, T
        <5>. QED  BY <3>1, <4>1, <4>2, <4>3
      <4>. QED  BY <4>4
    <3>3. CASE HostOf[c] # HostOf[d]
      <4>1. T = S
        BY <2>1, <3>3
      <4>. QED  BY <3>1, <4>1
    <3>. QED  BY <3>2, <3>3
  <2>. QED  BY <2>2 DEF FewOfAHost
<1>. DEFINE l == LineOf(q)
<1>10. l \in Seq(Clients) /\ Len(l) = n /\ \A i \in 1..n : l[i] = q[k + i].client
  BY <1>1, ClientsOfIs DEF n
<1>11. LineOf(new) = Append(l, c)
  <2>1. LineOf(new) = [i \in 1..(n + 1) |-> new[k + i].client]
    <3>1. Len(new) - k = n + 1
      BY <1>1, <1>4
    <3>. QED  BY <1>4, <1>7, <3>1, LineIs
  <2>. HIDE DEF l
  <2>2. /\ Append(l, c) \in Seq(Clients) /\ Len(Append(l, c)) = n + 1
        /\ \A i \in 1..n : Append(l, c)[i] = l[i]
        /\ Append(l, c)[n + 1] = c
    BY <1>10
  <2>3. \A i \in 1..(n + 1) : LineOf(new)[i] = Append(l, c)[i]
    <3>1. SUFFICES ASSUME NEW i \in 1..(n + 1) PROVE new[k + i].client = Append(l, c)[i]
      BY <2>1
    <3>2. CASE i = n + 1
      <4>1. k + i = Len(q) + 1
        BY <1>1, <3>2
      <4>. QED  BY <1>2, <1>4, <2>2, <3>2, <4>1
    <3>3. CASE i # n + 1
      <4>1. i \in 1..n
        BY <1>1, <3>3
      <4>. QED  BY <1>1, <1>4, <1>10, <2>2, <4>1
    <3>. QED  BY <3>2, <3>3
  <2>4. LineOf(new) \in Seq(Clients) /\ Len(LineOf(new)) = n + 1
    <3>1. \A i \in 1..(n + 1) : new[k + i].client \in Clients
      BY <2>1, <2>2, <2>3
    <3>2. n + 1 \in Nat
      BY <1>1
    <3>. QED  BY <2>1, <3>1, <3>2
  <2>. QED  BY <2>2, <2>3, <2>4, SeqEqual
<1>12. \A i \in 1..Len(l) : l[i] # c
  <2>1. SUFFICES ASSUME NEW i \in 1..n, l[i] = c PROVE FALSE
    BY <1>10
  <2>2. q[k + i].client = c /\ q[k + i].client \in Of(q)
    BY <1>1, <1>6, <1>10, <2>1
  <2>. QED  BY <1>3, <2>2 DEF SameNick
<1>13. InOrder(new)
  BY <1>4, <1>7, CutOrder
<1>. QED  BY <1>3, <1>4, <1>8, <1>9, <1>11, <1>12, <1>13 DEF Sound, q

LEMMA AdvanceIs ==
  ASSUME ListInv, NEW c \in Clients, QueueAdvancePlayer(c)
  PROVE  /\ Sound(queue') /\ NumQueuedPlayers' = Len(queue')
         /\ \E at \in 1..Len(LineOf(queue)) :
              LineOf(queue') = <<LineOf(queue)[at]>> \o Without(LineOf(queue), at)
<1>0. PICK i \in 2..Len(queue) : \E first \in 0..(i - 1) :
        /\ queue[i].client = c /\ ~queue[i].port
        /\ first > 0 => queue[first].port
        /\ \A j \in (first + 1)..(i - 1) : ~queue[j].port
        /\ queue' = MoveTo(i, first)
  BY Zenon DEF QueueAdvancePlayer
<1>1. PICK first \in 0..(i - 1) :
        /\ ~queue[i].port
        /\ first > 0 => queue[first].port
        /\ \A j \in (first + 1)..(i - 1) : ~queue[j].port
        /\ queue' = MoveTo(i, first)
  BY <1>0, Zenon
<1>2. Sound(queue) /\ NumQueuedPlayers = Len(queue)
  BY DEF ListInv
<1>3. /\ Sound(MoveTo(i, first)) /\ Len(MoveTo(i, first)) = Len(queue)
      /\ i - Leading(queue) \in 1..Len(LineOf(queue))
      /\ LineOf(MoveTo(i, first)) =
           <<LineOf(queue)[i - Leading(queue)]>> \o Without(LineOf(queue), i - Leading(queue))
  BY <1>1, <1>2, MoveIs
<1>4. NumQueuedPlayers' = NumQueuedPlayers
  BY DEF QueueAdvancePlayer
<1>. QED  BY <1>1, <1>2, <1>3, <1>4

LEMMA BecomesIs ==
  ASSUME ListInv, NEW q, q \in Seq(Entry), QueueBecomes(q)
  PROVE  queue' = q /\ NumQueuedPlayers' = Len(queue')
<1>1. queue' = q /\ NumQueuedPlayers' = Len(queue) - (Len(queue) - Len(q))
  BY DEF QueueBecomes, ListInv
<1>2. Len(queue) \in Nat /\ Len(q) \in Nat
  BY DEF ListInv, Sound
<1>. QED  BY <1>1, <1>2

(* Who gets a port is connected after it, and of the others nobody is who  *)
(* was not before.                                                         *)
LEMMA SetupConnects ==
  ASSUME ConnInv, NEW c \in Clients, NEW kicked \in SUBSET Playing,
         NEW become \in SetupConnection(c, kicked), conn' = become
  PROVE  c \in Connected' /\ Connected' \subseteq Connected \union {c}
<1>. DEFINE now    == [d \in Clients |-> IF d \in kicked THEN "free" ELSE conn[d]]
            others == {d \in Clients : now[d] # "free"}
<1>1. others \subseteq Connected
  BY DEF Connected
<1>2. CASE \E d \in others : SameNick(c, d)
  <2>1. become = now /\ now[c] = "listening"
    BY <1>2 DEF SetupConnection
  <2>2. Connected' = others
    BY <2>1 DEF Connected
  <2>. QED  BY <1>1, <2>1, <2>2
<1>3. CASE ~ \E d \in others : SameNick(c, d)
  <2>1. become = [now EXCEPT ![c] = "listening"]
    BY <1>3 DEF SetupConnection
  <2>2. become[c] = "listening" /\ \A d \in Clients : d # c => become[d] = now[d]
    BY <2>1
  <2>. QED  BY <1>1, <2>2 DEF Connected
<1>. QED  BY <1>2, <1>3

LEMMA MovesLeave ==
  ASSUME NEW c \in Clients, ConnInv, ConnectionMoves(c)
  PROVE  Connected' \subseteq Connected
<1>1. PICK new \in After(conn[c]) : ConnSetState([conn EXCEPT ![c] = new])
  BY DEF ConnectionMoves
<1>2. conn[c] # "free"
  BY <1>1 DEF After
<1>3. conn \in [Clients -> ConnStates] /\ conn' = [conn EXCEPT ![c] = new]
  BY <1>1 DEF ConnInv, ConnSetState, CountChanges
<1>. QED  BY <1>2, <1>3 DEF Connected

(* The steps of the abstract line. *)
Enters(l, m)  == l # <<>> /\ m = Tail(l)
GoesOff(l, m) == \E i \in 1..Len(l) : m = Without(l, i)

LEMMA LoopIs ==
  ASSUME ListInv, ConnInv, NEW silent, QueueLoop(silent)
  PROVE  /\ Sound(queue') /\ NumQueuedPlayers' = Len(queue')
         /\ \/ LineOf(queue') = LineOf(queue) /\ Connected' = Connected
            \/ /\ Enters(LineOf(queue), LineOf(queue'))
               /\ Head(LineOf(queue)) \in Connected'
               /\ Connected' \subseteq Connected \union {Head(LineOf(queue))}
            \/ GoesOff(LineOf(queue), LineOf(queue')) /\ Connected' \subseteq Connected
<1>. DEFINE q == Aged
            r == Rest(q, silent)
            w == Waiting(r)
<1>1. Sound(q) /\ LineOf(q) = LineOf(queue)
  BY AgedSound DEF ListInv
<1>. HIDE DEF q
<1>2. Sound(r) /\ LineOf(r) = LineOf(queue)
  BY <1>1, RestIs
<1>. HIDE DEF r
<1>3. w \in Seq(Entry) /\ LineOf(r) = ClientsOf(w) /\ Len(LineOf(r)) = Len(w)
  BY <1>2, PartsIs, ClientsOfIs
<1>4. CASE AckPort(q, silent)
  <2>1. PICK i \in Due(q, silent) :
          /\ QueueBecomes(Stay(q, i - 1, silent) \o <<[q[i] EXCEPT !.sent = 0]>>
                            \o SubSeq(q, i + 1, Len(q)))
          /\ UNCHANGED connVars
    BY <1>4 DEF AckPort
  <2>. DEFINE new == Stay(q, i - 1, silent) \o <<[q[i] EXCEPT !.sent = 0]>>
                       \o SubSeq(q, i + 1, Len(q))
  <2>2. Sound(new) /\ LineOf(new) = LineOf(q)
    <3>1. i \in 1..Leading(q)
      BY DEF Due
    <3>. QED  BY <1>1, <3>1, AckIs
  <2>3. QueueBecomes(new)
    BY <2>1
  <2>. HIDE DEF new
  <2>4. queue' = new /\ NumQueuedPlayers' = Len(queue')
    BY <2>2, <2>3, BecomesIs DEF Sound
  <2>5. Connected' = Connected
    BY <2>1 DEF connVars, Connected
  <2>. QED  BY <1>1, <2>2, <2>4, <2>5
<1>5. CASE DropSilent(r, silent)
  <2>1. Connected' = Connected
    BY <1>5 DEF DropSilent, connVars, Connected
  <2>2. \/ QueueBecomes(Ports(r) \o w)
        \/ \E m \in 1..Len(w) : QueueBecomes(Ports(r) \o Without(w, m))
    <3>. DEFINE mute == {i \in 1..Len(w) : w[i].client \in silent}
    <3>1. CASE mute = {}
      BY <1>5, <3>1 DEF DropSilent
    <3>2. CASE mute # {}
      <4>1. \E i \in mute : \A j \in mute : i <= j
        <5>1. Len(w) \in Nat
          BY <1>3
        <5>2. mute \subseteq Nat
          BY <5>1
        <5>. QED  BY <3>2, <5>2, Least
      <4>2. (CHOOSE i \in mute : \A j \in mute : i <= j) \in 1..Len(w)
        BY <4>1
      <4>3. QueueBecomes(Ports(r) \o Without(w, CHOOSE i \in mute : \A j \in mute : i <= j))
        BY <1>5, <3>2 DEF DropSilent
      <4>. QED  BY <4>2, <4>3
    <3>. QED  BY <3>1, <3>2
  <2>3. CASE QueueBecomes(Ports(r) \o w)
    <3>1. Ports(r) \o w = r /\ r \in Seq(Entry)
      BY <1>2, PortsAndWaiting DEF Sound
    <3>2. queue' = r /\ NumQueuedPlayers' = Len(queue')
      BY <2>3, <3>1, BecomesIs
    <3>. QED  BY <1>2, <2>1, <3>2
  <2>4. ASSUME NEW m \in 1..Len(w), QueueBecomes(Ports(r) \o Without(w, m))
        PROVE  /\ Sound(queue') /\ NumQueuedPlayers' = Len(queue')
               /\ GoesOff(LineOf(queue), LineOf(queue'))
    <3>. DEFINE new == Ports(r) \o Without(w, m)
    <3>1. Sound(new) /\ LineOf(new) = Without(LineOf(r), m)
      BY <1>2, DropIs
    <3>2. queue' = new /\ NumQueuedPlayers' = Len(queue')
      BY <2>4, <3>1, BecomesIs DEF Sound
    <3>3. m \in 1..Len(LineOf(queue))
      BY <1>2, <1>3
    <3>. QED  BY <1>2, <3>1, <3>2, <3>3 DEF GoesOff
  <2>. QED  BY <2>1, <2>2, <2>3, <2>4
<1>6. CASE AdmitHead(r) /\ w # <<>>
  <2>. DEFINE c == w[1].client
  <2>1. PICK kicked \in SUBSET Playing :
          \/ \E become \in SetupConnection(c, kicked) :
               /\ ConnSetState(become)
               /\ QueueBecomes(Ports(r) \o <<NewPort(c)>> \o Tail(w))
          \/ /\ ConnSetState([d \in Clients |-> IF d \in kicked THEN "free" ELSE conn[d]])
             /\ QueueBecomes(Ports(r) \o Tail(w))
    BY <1>6 DEF AdmitHead, Admit
  <2>2. c \in Clients
    <3>1. w[1] \in Entry
      BY <1>3, <1>6, EmptySeq
    <3>. QED  BY <3>1 DEF Entry
  <2>3. ASSUME NEW become \in SetupConnection(c, kicked), ConnSetState(become),
               QueueBecomes(Ports(r) \o <<NewPort(c)>> \o Tail(w))
        PROVE  /\ Sound(queue') /\ NumQueuedPlayers' = Len(queue')
               /\ Enters(LineOf(queue), LineOf(queue'))
               /\ Head(LineOf(queue)) \in Connected'
               /\ Connected' \subseteq Connected \union {Head(LineOf(queue))}
    <3>. DEFINE new == Ports(r) \o <<NewPort(c)>> \o Tail(w)
    <3>1. /\ Sound(new) /\ LineOf(r) # <<>> /\ Head(LineOf(r)) = c
          /\ LineOf(new) = Tail(LineOf(r))
      BY <1>2, <1>6, AdmitIs
    <3>2. queue' = new /\ NumQueuedPlayers' = Len(queue')
      BY <2>3, <3>1, BecomesIs DEF Sound
    <3>3. conn' = become
      BY <2>3 DEF ConnSetState, CountChanges
    <3>4. c \in Connected' /\ Connected' \subseteq Connected \union {c}
      BY <2>2, <3>3, SetupConnects
    <3>. QED  BY <1>2, <3>1, <3>2, <3>4 DEF Enters
  <2>4. CASE /\ ConnSetState([d \in Clients |-> IF d \in kicked THEN "free" ELSE conn[d]])
             /\ QueueBecomes(Ports(r) \o Tail(w))
    <3>. DEFINE new == Ports(r) \o Without(w, 1)
    <3>1. 1 \in 1..Len(w) /\ Tail(w) = Without(w, 1)
      BY <1>3, <1>6, TailIsWithout
    <3>2. Sound(new) /\ LineOf(new) = Without(LineOf(r), 1)
      BY <1>2, <3>1, DropIs
    <3>3. queue' = new /\ NumQueuedPlayers' = Len(queue')
      BY <2>4, <3>1, <3>2, BecomesIs DEF Sound
    <3>4. Connected' \subseteq Connected
      BY <2>4 DEF ConnSetState, CountChanges, Connected
    <3>5. 1 \in 1..Len(LineOf(queue))
      BY <1>2, <1>3, <3>1
    <3>. QED  BY <1>2, <3>2, <3>3, <3>4, <3>5 DEF GoesOff
  <2>. QED  BY <2>1, <2>3, <2>4
<1>. QED  BY <1>4, <1>5, <1>6, LoopCases DEF q, r

LEMMA InitList == QueueInit => ListInv /\ LineOf(queue) = <<>>
<1>. SUFFICES ASSUME QueueInit PROVE ListInv /\ LineOf(queue) = <<>>
  OBVIOUS
<1>1. queue = <<>> /\ NumQueuedPlayers = 0 /\ ~ended
  BY DEF QueueInit
<1>2. queue \in Seq(Entry) /\ Len(queue) = 0
  BY <1>1, EmptySeq
<1>3. InOrder(queue) /\ Distinct(queue)
  BY <1>2 DEF InOrder, Distinct
<1>4. FewOfAHost(queue)
  <2>1. Of(queue) = {}
    BY <1>2 DEF Of
  <2>2. ASSUME NEW c \in Clients
        PROVE  Cardinality({d \in Of(queue) : HostOf[d] = HostOf[c]}) <= 2
    <3>1. {d \in Of(queue) : HostOf[d] = HostOf[c]} = {}
      BY <2>1
    <3>. QED  BY <3>1, FS_EmptySet
  <2>. QED  BY <2>2 DEF FewOfAHost
<1>5. LineOf(queue) = <<>>
  <2>1. Sound(queue)
    BY <1>2, <1>3, <1>4 DEF Sound
  <2>2. LineOf(queue) = ClientsOf(Waiting(queue)) /\ Waiting(queue) \in Seq(Entry)
        /\ Len(Waiting(queue)) = 0
    BY <1>2, <2>1, PartsIs
  <2>3. ClientsOf(Waiting(queue)) \in Seq(Clients) /\ Len(ClientsOf(Waiting(queue))) = 0
    BY <2>2, ClientsOfIs
  <2>. QED  BY <2>2, <2>3, EmptySeq
<1>. QED  BY <1>1, <1>2, <1>3, <1>4, <1>5 DEF ListInv, Sound

LEMMA NextList ==
  ASSUME ListInv, ConnInv, [QueueNext]_vars
  PROVE  ListInv'
<1>1. CASE UNCHANGED vars
  BY <1>1 DEF vars, queueVars, ListInv, Sound, InOrder, Distinct, FewOfAHost, SameNick, Of
<1>2. CASE QueueNext
  <2>1. ~ended
    BY <1>2 DEF QueueNext
  <2>2. ASSUME NEW c \in Clients, QueuePlayer(c), UNCHANGED ended PROVE ListInv'
    BY <2>1, <2>2, PlayerIs DEF ListInv
  <2>3. ASSUME NEW c \in Clients, ConnectionMoves(c), UNCHANGED ended PROVE ListInv'
    BY <2>1, <2>3 DEF ConnectionMoves, queueVars, ListInv, Sound, InOrder, Distinct,
                      FewOfAHost, SameNick, Of
  <2>4. ASSUME NEW c \in Clients, QueueAdvancePlayer(c), UNCHANGED ended PROVE ListInv'
    BY <2>1, <2>4, AdvanceIs DEF ListInv
  <2>5. CASE MainLoop
    <3>1. PICK silent : QueueLoop(silent) /\ UNCHANGED ended
      BY <2>5 DEF MainLoop
    <3>. QED  BY <2>1, <3>1, LoopIs DEF ListInv
  <2>6. CASE EndGame
    <3>1. Len(queue) = 0 /\ queue \in Seq(Entry)
      BY <2>6 DEF EndGame, Deserted, ListInv, Sound
    <3>2. queue = <<>>
      BY <3>1, EmptySeq
    <3>. QED  BY <2>6, <3>2 DEF EndGame, queueVars, ListInv, Sound, InOrder, Distinct,
                               FewOfAHost, SameNick, Of
  <2>. QED  BY <1>2, <2>2, <2>3, <2>4, <2>5, <2>6 DEF QueueNext, Favours
<1>. QED  BY <1>1, <1>2

LEMMA AllInit == QueueInit => ConnInv /\ ListInv
  BY InitConn, InitList

LEMMA AllNext == ConnInv /\ ListInv /\ [QueueNext]_vars => (ConnInv /\ ListInv)'
  BY NextConn, NextList

LEMMA AllAlways == QueueSpec => [](ConnInv /\ ListInv)
  BY AllInit, AllNext, PTL DEF QueueSpec

LEMMA ListQueueInv == ConnInv /\ ListInv => QueueInv
<1>. SUFFICES ASSUME ConnInv, ListInv PROVE QueueInv
  OBVIOUS
<1>1. TypeOK
  BY DEF TypeOK, ConnInv, ListInv, Sound
<1>2. Queued = Of(queue)
  BY DEF Queued, Of
<1>3. QueueInOrder
  BY <1>2 DEF QueueInOrder, ListInv, Sound, InOrder, Distinct, FewOfAHost
<1>. QED  BY <1>1, <1>3 DEF QueueInv, ConnInv

(* The steps of the queue are steps of the abstract line. *)
LEMMA LineSteps ==
  ASSUME ListInv, ConnInv, [QueueNext]_vars
  PROVE  [Lining!LineNext]_<<Line, Connected>>
<1>0. Line = LineOf(queue) /\ Line' = LineOf(queue')
  BY DEF Line, LineOf, Waiting, Leading
<1>1. CASE UNCHANGED vars
  <2>1. queue' = queue /\ conn' = conn
    BY <1>1 DEF vars, queueVars, connVars
  <2>2. Line' = Line /\ Connected' = Connected
    BY <1>0, <2>1 DEF Connected
  <2>. QED  BY <2>2
<1>2. CASE QueueNext
  <2>2. ASSUME NEW c \in Clients, QueuePlayer(c) PROVE Lining!LineNext
    <3>1. Line' = Append(Line, c) /\ \A i \in 1..Len(Line) : Line[i] # c
      BY <1>0, <2>2, PlayerIs DEF ListInv
    <3>2. Connected' = Connected
      BY <2>2 DEF QueuePlayer, connVars, Connected
    <3>. QED  BY <3>1, <3>2 DEF Lining!LineNext, Lining!Join, Lining!Members
  <2>3. ASSUME NEW c \in Clients, ConnectionMoves(c) PROVE Lining!LineNext
    <3>1. queue' = queue /\ Connected' \subseteq Connected
      BY <2>3, MovesLeave DEF ConnectionMoves, queueVars
    <3>. QED  BY <1>0, <3>1 DEF Lining!LineNext, Lining!Depart
  <2>4. ASSUME NEW c \in Clients, QueueAdvancePlayer(c) PROVE Lining!LineNext
    <3>1. PICK at \in 1..Len(Line) : Line' = <<Line[at]>> \o Without(Line, at)
      BY <1>0, <2>4, AdvanceIs
    <3>2. Connected' = Connected
      BY <2>4 DEF QueueAdvancePlayer, connVars, Connected
    <3>. QED  BY <3>1, <3>2 DEF Lining!LineNext, Lining!Favour, Lining!Without, Without
  <2>5. CASE MainLoop
    <3>1. PICK silent : QueueLoop(silent)
      BY <2>5 DEF MainLoop
    <3>2. \/ Line' = Line /\ Connected' = Connected
          \/ /\ Enters(Line, Line')
             /\ Head(Line) \in Connected'
             /\ Connected' \subseteq Connected \union {Head(Line)}
          \/ GoesOff(Line, Line') /\ Connected' \subseteq Connected
      BY <1>0, <3>1, LoopIs
    <3>. QED  BY <3>2 DEF Enters, GoesOff, Without, Lining!LineNext, Lining!Admit,
                         Lining!GiveUp, Lining!Without
  <2>6. CASE EndGame
    <3>1. queue' = queue /\ Connected' = Connected
      BY <2>6 DEF EndGame, queueVars, connVars, Connected
    <3>. QED  BY <1>0, <3>1
  <2>. QED  BY <1>2, <2>2, <2>3, <2>4, <2>5, <2>6 DEF QueueNext, Favours
<1>. QED  BY <1>1, <1>2

LEMMA LineStarts == QueueInit => Lining!LineInit
<1>. SUFFICES ASSUME QueueInit PROVE Lining!LineInit
  OBVIOUS
<1>1. Line = <<>>
  BY InitList DEF Line, LineOf
<1>2. Connected = {}
  BY DEF QueueInit, Connected
<1>. QED  BY <1>1, <1>2 DEF Lining!LineInit
-----------------------------------------------------------------------------
(* The list stays one that Queue_loop and Queue_advance_player can work on *)
(* as they do: those with a port before those without, nobody in it twice, *)
(* no more than two of one host; with the connections apart.               *)
THEOREM InOrderAndApart == QueueSpec => []QueueInv
  BY AllAlways, ListQueueInv, PTL

(* The three counters that Main_loop asks before it ends the server know   *)
(* of everybody that waits, logs in or plays.                              *)
THEOREM NobodyLeft == QueueSpec => []NobodyLeftBehind
<1>1. ConnInv /\ ListInv => NobodyLeftBehind
  BY DEF ConnInv, ListInv, NobodyCutOff, NobodyLeftBehind
<1>. QED  BY <1>1, AllAlways, PTL

(* Queue_player, Queue_loop and Queue_advance_player implement the line in *)
(* front of a full server: nobody enters but the first, and nobody is put  *)
(* first but by the word of the owner.                                     *)
THEOREM QueueIsALine == QueueSpec => RefinesLine
<1>1. ListInv /\ ConnInv /\ [QueueNext]_vars => [Lining!LineNext]_<<Line, Connected>>
  BY LineSteps
<1>. QED  BY <1>1, AllAlways, LineStarts, PTL DEF QueueSpec, RefinesLine, Lining!LineSpec
=============================================================================
