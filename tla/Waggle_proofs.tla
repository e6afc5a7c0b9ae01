--------------------------- MODULE Waggle_proofs ---------------------------
(***************************************************************************)
(* Proofs about the waggle dance, for every pair of dances, every length   *)
(* of the waits and every number of frames missed in a row that            *)
(* PaceAssumption allows.                                                  *)
(*                                                                         *)
(* The inductive invariant WaggleIInv says where the ship can be at each   *)
(* phase of a movement (DancerInv), that the onlooker sets up in time      *)
(* (RefInv), what its watch for the end of the dance can be (CheckInv),    *)
(* what it has noted at each phase (NoteInv) and how long it can have seen *)
(* one heading (CountInv).  A tick is taken apart into a move of the       *)
(* dancer (Move, Misses) and a call of the onlooker (Called); what a       *)
(* dancer's move leaves true with the onlooker blind (Showing) is restored *)
(* when it looks (Looking).                                                *)
(***************************************************************************)
EXTENDS Waggle, SequenceTheorems, TLAPS

-----------------------------------------------------------------------------
(* Turning.  Away(h, t) eighths lie between the headings h and t; a turn   *)
(* leaves fewer, and passes only headings that lie between.                *)

Away(h, t) == LET d == (t - h) % 8 IN IF d <= 4 THEN d ELSE 8 - d

Way(t) == IF t = 2 THEN {1} ELSE IF t = 6 THEN {7} ELSE {1, 2, 3, 5, 6, 7}

LEMMA Sectors == Sector = {0, 1, 2, 3, 4, 5, 6, 7}
  BY DEF Sector

LEMMA Differences ==
  ASSUME NEW h \in Sector, NEW t \in Sector
  PROVE  /\ (t - h) % 8 = IF t >= h THEN t - h ELSE 8 + t - h
         /\ \A s \in 1..2 : /\ (h + s) % 8 = IF h + s >= 8 THEN h + s - 8 ELSE h + s
                            /\ (h - s) % 8 = IF h - s < 0 THEN h - s + 8 ELSE h - s
BY DEF Sector

LEMMA TurnsTowards ==
  ASSUME NEW h \in Sector, NEW t \in Sector, h # t, NEW g \in Turned(h, t)
  PROVE  g \in Sector /\ Away(g, t) < Away(h, t)
<1>. DEFINE d == (t - h) % 8
<1>1. d \in 1..7
  BY DEF Sector
<1>2. \/ \E s \in {1, 2} : s <= d /\ d <= 4 /\ g = (h + s) % 8
      \/ \E s \in {1, 2} : s <= 8 - d /\ d >= 4 /\ g = (h - s) % 8
  BY <1>1 DEF Turned
<1>3. ASSUME NEW s \in {1, 2}, s <= d, d <= 4, g = (h + s) % 8
      PROVE  g \in Sector /\ Away(g, t) < Away(h, t)
  <2>1. g \in Sector /\ (t - g) % 8 = d - s
    BY <1>1, <1>3 DEF Sector
  <2>. QED  BY <1>1, <1>3, <2>1 DEF Away
<1>4. ASSUME NEW s \in {1, 2}, s <= 8 - d, d >= 4, g = (h - s) % 8
      PROVE  g \in Sector /\ Away(g, t) < Away(h, t)
  <2>1. g \in Sector /\ (t - g) % 8 = IF d + s = 8 THEN 0 ELSE d + s
    BY <1>1, <1>4 DEF Sector
  <2>. QED  BY <1>1, <1>4, <2>1 DEF Away
<1>. QED  BY <1>2, <1>3, <1>4

Goals == {2, 4, 6}

LEMMA TurnsOut ==
  ASSUME NEW t \in Goals, NEW h \in {0} \union Way(t), NEW g \in Turned(h, t)
  PROVE  g \in {t} \union Way(t)
<1>1. h \in Sector /\ t \in Sector /\ h # t
  BY DEF Goals, Way, Sector
<1>2. g \in Sector /\ Away(g, t) < Away(h, t)
  BY <1>1, TurnsTowards
<1>3. CASE t = 4
  BY <1>1, <1>2, <1>3, Differences DEF Away, Way, Sector
<1>4. CASE t = 2
  BY <1>1, <1>2, <1>4, Differences DEF Away, Way, Sector, Turned
<1>5. CASE t = 6
  BY <1>1, <1>2, <1>5, Differences DEF Away, Way, Sector, Turned
<1>. QED  BY <1>3, <1>4, <1>5 DEF Goals

LEMMA TurnsBack ==
  ASSUME NEW t \in Goals, NEW h \in {t} \union Way(t), NEW g \in Turned(h, 0)
  PROVE  g \in {0} \union Way(t)
<1>1. h \in Sector /\ 0 \in Sector /\ h # 0
  BY DEF Goals, Way, Sector
<1>2. g \in Sector /\ Away(g, 0) < Away(h, 0)
  BY <1>1, TurnsTowards
<1>3. CASE t = 4
  BY <1>1, <1>2, <1>3, Differences DEF Away, Way, Sector
<1>4. CASE t = 2
  BY <1>1, <1>2, <1>4, Differences DEF Away, Way, Sector, Turned
<1>5. CASE t = 6
  BY <1>1, <1>2, <1>5, Differences DEF Away, Way, Sector, Turned
<1>. QED  BY <1>3, <1>4, <1>5 DEF Goals
-----------------------------------------------------------------------------
(* The text of a dance and where the dancer is in it. *)

Sheet == IF part = "x" THEN XDance ELSE YDance

Dancing ==
  part = "type" \/ (part \in {"x", "y"} /\ danceSequence /\ i < Len(Sheet))

Current == IF part = "type" THEN left ELSE Sheet[i + 1]

Goal == Target(Current)

Letter == {left, right, endOfWord}

LEMMA Sheets ==
  /\ XDance \in Seq(Symbol) /\ Len(XDance) \in Nat \ {0}
  /\ YDance \in Seq(Symbol) /\ Len(YDance) \in Nat \ {0}
BY DancerAssumption

LEMMA TextIsHeard ==
  /\ Text \in Seq(Letter)
  /\ Len(Text) = 1 + Len(XDance) + Len(YDance)
  /\ Text[1] = left
  /\ \A k \in 1..Len(XDance) : Text[1 + k] = AsHeard(XDance[k])
  /\ \A k \in 1..Len(YDance) : Text[1 + Len(XDance) + k] = AsHeard(YDance[k])
<1>. DEFINE head == <<left>>
            front == head \o XDance
            all == front \o YDance
            m == Len(XDance)
            n == Len(YDance)
<1>. USE Sheets
<1>1. head \in Seq(Symbol) /\ Len(head) = 1 /\ head[1] = left
  BY DEF Symbol
<1>. HIDE DEF head
<1>2. /\ front \in Seq(Symbol) /\ Len(front) = 1 + m
      /\ front[1] = left
      /\ \A k \in 1..m : front[1 + k] = XDance[k]
  <2>1. /\ front \in Seq(Symbol) /\ Len(front) = Len(head) + m
        /\ \A k \in 1..Len(head) + m :
             front[k] = IF k <= Len(head) THEN head[k] ELSE XDance[k - Len(head)]
    BY <1>1, ConcatProperties
  <2>2. m \in Nat
    OBVIOUS
  <2>. HIDE DEF front, m
  <2>3. \A k \in 1..m : 1 + k \in 1..1 + m /\ ~(1 + k <= 1) /\ (1 + k) - 1 = k
    BY <2>2
  <2>. QED  BY <1>1, <2>1, <2>2, <2>3
<1>. HIDE DEF front
<1>3. /\ all \in Seq(Symbol) /\ Len(all) = 1 + m + n
      /\ \A k \in 1..1 + m : all[k] = front[k]
      /\ \A k \in 1..n : all[1 + m + k] = YDance[k]
  <2>1. /\ all \in Seq(Symbol) /\ Len(all) = Len(front) + n
        /\ \A k \in 1..Len(front) + n :
             all[k] = IF k <= Len(front) THEN front[k] ELSE YDance[k - Len(front)]
    BY <1>2, ConcatProperties
  <2>2. m \in Nat /\ n \in Nat
    OBVIOUS
  <2>. HIDE DEF all, m, n
  <2>3. \A k \in 1..n : /\ 1 + m + k \in 1..1 + m + n
                        /\ ~(1 + m + k <= 1 + m)
                        /\ (1 + m + k) - (1 + m) = k
    BY <2>2
  <2>4. \A k \in 1..1 + m : k \in 1..1 + m + n /\ k <= 1 + m
    BY <2>2
  <2>. QED  BY <1>2, <2>1, <2>3, <2>4
<1>4. Text = [k \in 1..Len(all) |-> AsHeard(all[k])]
  <2>1. DOMAIN all = 1..Len(all)
    BY <1>3
  <2>. QED  BY <2>1 DEF Text, Heard, front, head
<1>. HIDE DEF all
<1>5. \A k \in 1..Len(all) : AsHeard(all[k]) \in Letter
  BY <1>3 DEF AsHeard, Symbol, Letter
<1>6. Text \in Seq(Letter) /\ Len(Text) = 1 + m + n
  BY <1>3, <1>4, <1>5
<1>7. \A k \in 1..1 + m + n : Text[k] = AsHeard(all[k])
  BY <1>3, <1>4
<1>8. Text[1] = left
  BY <1>2, <1>3, <1>7 DEF AsHeard, left, endOfSequence
<1>9. ASSUME NEW k \in 1..m PROVE Text[1 + k] = AsHeard(XDance[k])
  <2>1. 1 + k \in 1..1 + m /\ 1 + k \in 1..1 + m + n
    OBVIOUS
  <2>. QED  BY <1>2, <1>3, <1>7, <2>1
<1>10. ASSUME NEW k \in 1..n PROVE Text[1 + m + k] = AsHeard(YDance[k])
  <2>1. 1 + m + k \in 1..1 + m + n
    OBVIOUS
  <2>. QED  BY <1>3, <1>7, <2>1
<1>. QED  BY <1>6, <1>8, <1>9, <1>10
-----------------------------------------------------------------------------
(* The dancer: where a movement has come to, and with it the ship. *)

(* Resting it is at heading 0 and not turning; on its way it is at, or aims *)
(* at, its goal; it waits there first and at heading 0 then.                *)
DancerInv ==
  /\ part \notin {"x", "y"} => i = 0 /\ ~danceSequence
  /\ part \in {"x", "y"} => i <= Len(Sheet)
  /\ ~danceSequence => i = 0
  /\ isInitial => heading = 0 /\ aim = NoAim
  /\ ~isInitial => Dancing
  /\ ~isInitial /\ ~finishedMove =>
       /\ wait_count = 0
       /\ heading \in {0, Goal} \union Way(Goal)
       /\ heading = 0 => aim = Goal
       /\ heading \in Way(Goal) => aim \in {NoAim, Goal}
       /\ heading = Goal => aim = NoAim
  /\ ~isInitial /\ finishedMove =>
       /\ wait_count \in 1..2 * MinFrames
       /\ wait_count < MinFrames => heading = Goal /\ aim = NoAim
       /\ wait_count = MinFrames => heading \in {0, Goal} \union Way(Goal) /\ aim \in {0, NoAim}
       /\ wait_count > MinFrames => heading = 0
       /\ heading = 0 => aim = NoAim

LEMMA DancerNumbers == /\ MinFrames \in Nat \ {0} /\ ObservedFrames \in Nat \ {0}
                       /\ FrameLimit \in Nat \ {0} /\ Threshold \in Nat \ {0}
                       /\ MaxDancerSkip \in Nat /\ MaxObserverSkip \in Nat
BY DancerAssumption, ObserverAssumption, WaggleAssumption

LEMMA Doubled == ASSUME NEW n \in Int PROVE 2 * n = n + n
  OBVIOUS

LEMMA Pace ==
  /\ MaxObserverSkip < MinFrames
  /\ MaxObserverSkip + 1 + MaxObserverSkip + 1 <= ObservedFrames
<1>1. 2 * (MaxObserverSkip + 1) = (MaxObserverSkip + 1) + (MaxObserverSkip + 1)
  BY DancerNumbers, Doubled
<1>. QED  BY <1>1, DancerNumbers, PaceAssumption

LEMMA Targets ==
  /\ Target(left) = 2 /\ Target(right) = 6 /\ Target(endOfSequence) = 4
  /\ \A s \in Symbol : Target(s) \in Goals
<1>1. /\ Target(left) = LeftOf(0)
      /\ Target(right) = RightOf(0)
      /\ Target(endOfSequence) = RearOf(0)
  BY Zenon DEF Target, left, right, endOfSequence
<1>. QED  BY <1>1 DEF LeftOf, RightOf, RearOf, Symbol, Goals

LEMMA DancingHas ==
  ASSUME TypeOK, DancerInv, Dancing
  PROVE  /\ Current \in Symbol
         /\ Goal \in Goals /\ Goal \in Sector /\ Goal # 0 /\ Goal # NoAim
         /\ 0 \notin Way(Goal) /\ Goal \notin Way(Goal) /\ NoAim \notin Way(Goal)
         /\ Completed \in Nat /\ Completed + 1 \in 1..Len(Text)
         /\ Text[Completed + 1] = AsHeard(Current)
<1>. USE Sheets
<1>. DEFINE Here == /\ Current \in Symbol
                    /\ Completed \in Nat /\ Completed + 1 \in 1..Len(Text)
                    /\ Text[Completed + 1] = AsHeard(Current)
<1>1. ASSUME part = "type" PROVE Here
  <2>1. Completed = 0 /\ Current = left
    BY <1>1 DEF Completed, Current
  <2>. QED  BY <2>1, TextIsHeard DEF Symbol, AsHeard, left, endOfSequence
<1>2. ASSUME part \in {"x", "y"} PROVE Here
  <2>1. i \in Nat /\ i + 1 \in 1..Len(Sheet)
    BY <1>2, Sheets DEF Dancing, TypeOK, DancerTypeOK, Sheet
  <2>2. ASSUME part = "x" PROVE Here
    <3>1. Completed = 1 + i /\ Sheet = XDance /\ Current = XDance[i + 1]
      BY <2>2 DEF Completed, Current, Sheet
    <3>2. 1 + (i + 1) = Completed + 1
      BY <2>1, <3>1
    <3>. QED  BY <2>1, <3>1, <3>2, TextIsHeard
  <2>3. ASSUME part = "y" PROVE Here
    <3>1. Completed = 1 + Len(XDance) + i /\ Sheet = YDance /\ Current = YDance[i + 1]
      BY <2>3 DEF Completed, Current, Sheet
    <3>2. 1 + Len(XDance) + (i + 1) = Completed + 1
      BY <2>1, <3>1
    <3>. QED  BY <2>1, <3>1, <3>2, TextIsHeard
  <2>. QED  BY <1>2, <2>2, <2>3
<1>3. Here
  BY <1>1, <1>2 DEF Dancing
<1>4. Goal \in Goals
  BY <1>3, Targets DEF Goal
<1>. QED  BY <1>3, <1>4 DEF Goals, Sector, NoAim, Way

LEMMA Performs ==
  ASSUME NEW symbol \in Symbol, NEW h \in Sector, PerformMovement(symbol, h),
         isInitial \in BOOLEAN, finishedMove \in BOOLEAN, wait_count \in Nat,
         Target(symbol) # 0
  PROVE  /\ isInitial /\ h = 0 =>
              ~isInitial' /\ ~finishedMove' /\ wait_count' = 0 /\ aim' = Target(symbol)
         /\ ~isInitial /\ ~finishedMove /\ wait_count = 0 =>
              /\ ~isInitial'
              /\ h = Target(symbol) => finishedMove' /\ wait_count' = 1 /\ aim' = NoAim
              /\ h # Target(symbol) => ~finishedMove' /\ wait_count' = 0 /\ aim' = Target(symbol)
         /\ ~isInitial /\ finishedMove =>
              /\ finishedMove'
              /\ wait_count < MinFrames =>
                   ~isInitial' /\ wait_count' = wait_count + 1 /\ aim' = NoAim
              /\ wait_count = MinFrames /\ h # 0 =>
                   ~isInitial' /\ wait_count' = wait_count /\ aim' = 0
              /\ wait_count >= MinFrames /\ wait_count < 2 * MinFrames /\ h = 0 =>
                   ~isInitial' /\ wait_count' = wait_count + 1 /\ aim' = NoAim
              /\ wait_count = 2 * MinFrames /\ h = 0 =>
                   isInitial' /\ wait_count' = wait_count /\ aim' = NoAim
<1>. USE DancerNumbers DEF PerformMovement
<1>1. CASE isInitial /\ h = 0
  BY <1>1 DEF MovementDone, AtTarget, WaitSoFar
<1>2. CASE ~isInitial /\ ~finishedMove /\ wait_count = 0
  <2>1. /\ WaitSoFar = 0
        /\ AtTarget(symbol, h) <=> h = Target(symbol)
        /\ ~MovementDone(symbol, h)
    BY <1>2 DEF MovementDone, AtTarget, WaitSoFar
  <2>. QED  BY <1>2, <2>1
<1>3. CASE ~isInitial /\ finishedMove
  <2>1. /\ WaitSoFar = wait_count
        /\ AtTarget(symbol, h)
        /\ MovementDone(symbol, h) <=> wait_count = 2 * MinFrames /\ h = 0
    BY <1>3 DEF MovementDone, AtTarget, WaitSoFar
  <2>. QED  BY <1>3, <2>1
<1>. QED  BY <1>1, <1>2, <1>3
-----------------------------------------------------------------------------
(* A frame of the dancer is one of these moves. *)

SamePlace == UNCHANGED <<part, danceSequence, i>>

LEMMA SamePlaceMeans ==
  ASSUME SamePlace
  PROVE  /\ Sheet' = Sheet /\ Current' = Current /\ Goal' = Goal /\ Completed' = Completed
         /\ Dancing' <=> Dancing
BY DEF SamePlace, Sheet, Current, Goal, Target, Completed, Dancing

InPlace ==
  /\ part \notin {"x", "y"} => i = 0 /\ ~danceSequence
  /\ part \in {"x", "y"} => i <= Len(Sheet)
  /\ ~danceSequence => i = 0

(* Between two movements, or not dancing. *)
Rests ==
  /\ isInitial /\ isInitial'
  /\ ~Dancing
  /\ InPlace'
  /\ heading' = 0 /\ aim' = NoAim
  /\ Completed' = Completed
  /\ wait_count' = wait_count
  /\ part \in {"x", "y"} => part' \in {"x", "y", "danced"}
  /\ part \in {"x", "y"} /\ ~danceSequence => part' = part /\ danceSequence' /\ Dancing'
  /\ part = "x" /\ danceSequence => part' = "y" /\ ~danceSequence'
  /\ part = "y" /\ danceSequence => part' = "danced"
  /\ part = "danced" => part' = "danced"
  /\ part \notin {"x", "y", "danced"} => part' \notin {"x", "y", "danced"}

Begins ==
  /\ isInitial /\ ~isInitial' /\ ~finishedMove'
  /\ Dancing /\ SamePlace
  /\ heading' = 0 /\ aim' = Goal
  /\ wait_count' = 0

TurnsOn ==
  /\ ~isInitial /\ ~finishedMove /\ ~isInitial' /\ ~finishedMove'
  /\ SamePlace
  /\ heading' # Goal /\ aim' = Goal
  /\ wait_count' = 0

Arrives ==
  /\ ~isInitial /\ ~finishedMove /\ ~isInitial' /\ finishedMove'
  /\ SamePlace
  /\ heading' = Goal /\ aim' = NoAim
  /\ wait_count' = 1

Stays ==
  /\ ~isInitial /\ finishedMove /\ ~isInitial' /\ finishedMove'
  /\ SamePlace
  /\ wait_count < MinFrames
  /\ heading' = Goal /\ aim' = NoAim
  /\ wait_count' = wait_count + 1

TurnsHome ==
  /\ ~isInitial /\ finishedMove /\ ~isInitial' /\ finishedMove'
  /\ SamePlace
  /\ wait_count = MinFrames
  /\ heading' # 0 /\ aim' = 0
  /\ wait_count' = wait_count

Pauses ==
  /\ ~isInitial /\ finishedMove /\ ~isInitial' /\ finishedMove'
  /\ SamePlace
  /\ MinFrames <= wait_count /\ wait_count < 2 * MinFrames
  /\ heading' = 0 /\ aim' = NoAim
  /\ wait_count' = wait_count + 1

Ends ==
  /\ ~isInitial /\ finishedMove /\ isInitial'
  /\ InPlace'
  /\ wait_count = 2 * MinFrames
  /\ heading = 0 /\ heading' = 0 /\ aim' = NoAim
  /\ wait_count' = wait_count
  /\ Completed' = Completed + 1
  /\ part' \in {"x", "y"}

Move == Rests \/ Begins \/ TurnsOn \/ Arrives \/ Stays \/ TurnsHome \/ Pauses \/ Ends

Misses ==
  /\ UNCHANGED <<part, danceSequence, i, isInitial, finishedMove, wait_count>>
  /\ aim' = NoAim

(* The ship turns on the way to its aim, or not at all. *)
LEMMA ShipTurns ==
  ASSUME TypeOK, DancerInv, TurnShip
  PROVE  /\ heading' \in Sector
         /\ isInitial => heading' = 0
         /\ aim = NoAim => heading' = heading
         /\ ~isInitial /\ ~finishedMove =>
              /\ heading' \in {Goal} \union Way(Goal)
              /\ aim # NoAim => Away(heading', Goal) < Away(heading, Goal)
         /\ ~isInitial /\ finishedMove /\ aim # NoAim =>
              /\ aim = 0
              /\ wait_count = MinFrames
              /\ heading # 0
              /\ heading' \in {0} \union Way(Goal)
              /\ Away(heading', 0) < Away(heading, 0)
<1>. USE DEF TurnShip
<1>0. heading \in Sector
  BY DEF TypeOK
<1>1. CASE isInitial
  BY <1>0, <1>1 DEF DancerInv
<1>2. CASE ~isInitial
  <2>. USE DancingHas
  <2>0. Dancing
    BY <1>2 DEF DancerInv
  <2>1. CASE aim = NoAim
    <3>1. heading' = heading
      BY <2>1
    <3>2. ~finishedMove => heading \in {Goal} \union Way(Goal)
      BY <1>2, <2>0, <2>1 DEF DancerInv
    <3>. QED  BY <1>0, <1>2, <2>1, <3>1, <3>2
  <2>2. CASE aim # NoAim
    <3>1. heading' \in Turned(heading, aim)
      BY <2>2
    <3>2. CASE ~finishedMove
      <4>1. aim = Goal /\ heading # Goal /\ heading \in {0} \union Way(Goal)
        BY <1>2, <2>0, <2>2, <3>2 DEF DancerInv
      <4>. QED  BY <1>0, <1>2, <2>0, <2>2, <3>1, <3>2, <4>1, TurnsOut, TurnsTowards
    <3>3. CASE finishedMove
      <4>1. /\ aim = 0 /\ heading # 0 /\ wait_count = MinFrames
            /\ heading \in {Goal} \union Way(Goal)
        BY <1>2, <2>0, <2>2, <3>3, DancerNumbers DEF DancerInv
      <4>2. 0 \in Sector
        BY DEF Sector
      <4>. QED  BY <1>0, <1>2, <2>0, <2>2, <3>1, <3>3, <4>1, <4>2, TurnsBack, TurnsTowards
    <3>. QED  BY <3>2, <3>3
  <2>. QED  BY <2>1, <2>2
<1>. QED  BY <1>1, <1>2

LEMMA DanceIsOneMovement ==
  ASSUME TypeOK, DancerInv, Dancing, NEW h \in Sector, Dance(h)
  PROVE  /\ PerformMovement(Current, h)
         /\ ~isInitial' => SamePlace
         /\ isInitial' => InPlace' /\ Completed' = Completed + 1 /\ part' \in {"x", "y"}
<1>. USE DancingHas
<1>1. i \in Nat /\ Len(XDance) \in Nat /\ Len(YDance) \in Nat
  BY Sheets DEF TypeOK, DancerTypeOK
<1>2. \A s : PerformMovement(s, h) => (isInitial' <=> MovementDone(s, h))
  BY DEF PerformMovement
<1>3. CASE part = "type"
  <2>1. RelayMsg(h) /\ Current = left /\ i = 0 /\ ~danceSequence /\ Completed = 0
    BY <1>3 DEF Dance, Current, DancerInv, Completed
  <2>2. /\ PerformMovement(left, h)
        /\ part' = IF MovementDone(left, h) THEN "x" ELSE "type"
        /\ UNCHANGED <<danceSequence, i>>
    BY <2>1 DEF RelayMsg
  <2>3. ASSUME isInitial' PROVE InPlace' /\ Completed' = 1 /\ part' = "x"
    <3>1. part' = "x" /\ i' = 0 /\ ~danceSequence'
      BY <1>2, <2>1, <2>2, <2>3
    <3>2. Completed' = 1 + i'
      BY <3>1 DEF Completed
    <3>. QED  BY <1>1, <3>1, <3>2 DEF InPlace, Sheet
  <2>. QED  BY <1>2, <1>3, <2>1, <2>2, <2>3 DEF SamePlace
<1>4. CASE part \in {"x", "y"}
  <2>1. danceSequence /\ i < Len(Sheet) /\ Current = Sheet[i + 1]
    BY <1>4 DEF Dancing, Current
  <2>2. /\ PerformMovement(Sheet[i + 1], h)
        /\ i' = IF MovementDone(Sheet[i + 1], h) THEN i + 1 ELSE i
        /\ UNCHANGED <<part, danceSequence>>
    <3>1. PICK next : RelayCoords(Sheet, next, h)
      BY <1>4 DEF Dance, Sheet
    <3>2. i # Len(Sheet)
      BY <1>1, <2>1 DEF Sheet
    <3>. QED  BY <2>1, <3>1, <3>2, Zenon DEF RelayCoords
  <2>3. Sheet' = Sheet /\ Len(Sheet) \in Nat
    BY <1>1, <2>2 DEF Sheet
  <2>4. ASSUME isInitial' PROVE InPlace' /\ Completed' = Completed + 1
    <3>1. i' = i + 1 /\ part' = part /\ danceSequence'
      BY <1>2, <2>1, <2>2, <2>4
    <3>2. InPlace'
      BY <1>1, <1>4, <2>1, <2>3, <3>1 DEF InPlace
    <3>. QED  BY <1>1, <1>4, <3>1, <3>2 DEF Completed
  <2>5. ~isInitial' => SamePlace
    BY <1>2, <2>2 DEF SamePlace
  <2>. QED  BY <1>4, <2>1, <2>2, <2>4, <2>5
<1>. QED  BY <1>3, <1>4 DEF Dancing

LEMMA RestOfFrames ==
  ASSUME TypeOK, DancerInv, ~Dancing, NEW h \in Sector, NEW looked_at,
         heading' = 0, DancerFrame(h, looked_at)
  PROVE  Rests
<1>0. isInitial /\ aim = NoAim
  BY DEF DancerInv
<1>1. i \in Nat /\ Len(XDance) \in Nat /\ Len(YDance) \in Nat
  BY Sheets DEF TypeOK, DancerTypeOK
<1>2. CASE Wait(looked_at)
  <2>1. /\ part = "waiting" /\ part' \in {"waiting", "type", "deposit"}
        /\ UNCHANGED <<danceSequence, i, isInitial, wait_count, aim>>
    BY <1>2 DEF Wait, moveVars
  <2>. QED  BY <1>0, <2>1 DEF Rests, InPlace, DancerInv, Completed
<1>3. CASE Rest
  <2>1. /\ part \in {"danced", "deposit"} /\ aim' = NoAim
        /\ UNCHANGED <<part, danceSequence, i, isInitial, wait_count>>
    BY <1>3 DEF Rest
  <2>. QED  BY <1>0, <2>1 DEF Rests, InPlace, DancerInv, Completed
<1>4. CASE Dance(h)
  <2>1. part \in {"x", "y"}
    BY <1>4 DEF Dance, Dancing
  <2>2. PICK next \in {"y", "danced"} :
           /\ RelayCoords(Sheet, next, h)
           /\ next = IF part = "x" THEN "y" ELSE "danced"
    BY <1>4, <2>1 DEF Dance, Sheet
  <2>3. Len(Sheet) \in Nat /\ i <= Len(Sheet) /\ ~(danceSequence /\ i < Len(Sheet))
    BY <1>1, <2>1 DEF Sheet, DancerInv, Dancing
  <2>4. CASE ~danceSequence
    <3>1. /\ danceSequence' /\ aim' = NoAim
          /\ UNCHANGED <<part, i, isInitial, wait_count>>
      BY <2>2, <2>4 DEF RelayCoords
    <3>2. Sheet' = Sheet
      BY <3>1 DEF Sheet
    <3>3. Dancing'
      <4>1. i = 0 /\ Len(Sheet) # 0
        BY <2>4, Sheets DEF DancerInv, Sheet
      <4>. QED  BY <2>1, <2>3, <3>1, <3>2, <4>1 DEF Dancing
    <3>. QED  BY <1>0, <2>1, <2>3, <2>4, <3>1, <3>2, <3>3 DEF Rests, InPlace, Completed
  <2>5. CASE danceSequence
    <3>1. /\ i = Len(Sheet)
          /\ ~danceSequence' /\ i' = 0 /\ aim' = NoAim /\ part' = next
          /\ UNCHANGED <<isInitial, wait_count>>
      BY <1>1, <2>2, <2>3, <2>5 DEF RelayCoords
    <3>2. Completed' = Completed
      <4>1. CASE part = "x"
        <5>1. part' = "y" /\ i = Len(XDance)
          BY <2>2, <3>1, <4>1 DEF Sheet
        <5>2. Completed = 1 + Len(XDance) /\ Completed' = 1 + Len(XDance) + 0
          BY <3>1, <4>1, <5>1 DEF Completed
        <5>. QED  BY <1>1, <5>2
      <4>2. CASE part = "y"
        <5>1. part' = "danced" /\ i = Len(YDance)
          BY <2>2, <3>1, <4>2 DEF Sheet
        <5>2. Completed = 1 + Len(XDance) + Len(YDance) /\ Completed' = Len(Text)
          BY <4>2, <5>1 DEF Completed
        <5>. QED  BY <5>2, TextIsHeard
      <4>. QED  BY <2>1, <4>1, <4>2
    <3>3. InPlace'
      BY <1>1, <2>2, <3>1 DEF InPlace, Sheet
    <3>. QED  BY <1>0, <2>1, <2>2, <2>5, <3>1, <3>2, <3>3 DEF Rests
  <2>. QED  BY <2>4, <2>5
<1>. QED  BY <1>2, <1>3, <1>4 DEF DancerFrame

LEMMA FrameIsAMove ==
  ASSUME TypeOK, DancerInv, TurnShip, DancerFrame(heading', facing)
  PROVE  Move
<1>. USE ShipTurns, DancingHas, DancerNumbers
<1>1. CASE ~Dancing
  <2>1. isInitial
    BY <1>1 DEF DancerInv
  <2>. QED  BY <1>1, <2>1, RestOfFrames DEF Move
<1>2. CASE Dancing
  <2>1. Dance(heading')
    BY <1>2 DEF DancerFrame, Wait, Rest, Dancing
  <2>2. /\ PerformMovement(Current, heading')
        /\ ~isInitial' => SamePlace
        /\ isInitial' => InPlace' /\ Completed' = Completed + 1 /\ part' \in {"x", "y"}
    BY <1>2, <2>1, DanceIsOneMovement
  <2>3. isInitial \in BOOLEAN /\ finishedMove \in BOOLEAN /\ wait_count \in Nat
    BY DEF TypeOK, DancerTypeOK
  <2>4. CASE isInitial
    BY <1>2, <2>2, <2>3, <2>4, Performs DEF Goal, Move, Begins
  <2>5. CASE ~isInitial /\ ~finishedMove
    <3>1. wait_count = 0
      BY <2>5 DEF DancerInv
    <3>. QED  BY <1>2, <2>2, <2>3, <2>5, <3>1, Performs DEF Goal, Move, TurnsOn, Arrives
  <2>6. CASE ~isInitial /\ finishedMove
    <3>1. wait_count \in 1..2 * MinFrames
      BY <2>6 DEF DancerInv
    <3>2. CASE wait_count < MinFrames
      <4>1. heading' = Goal
        BY <2>6, <3>2 DEF DancerInv
      <4>. QED  BY <1>2, <2>2, <2>3, <2>6, <3>1, <3>2, <4>1, Performs DEF Goal, Move, Stays
    <3>3. CASE wait_count = MinFrames /\ heading' # 0
      BY <1>2, <2>2, <2>3, <2>6, <3>1, <3>3, Performs DEF Goal, Move, TurnsHome
    <3>4. CASE wait_count = MinFrames /\ heading' = 0
      BY <1>2, <2>2, <2>3, <2>6, <3>1, <3>4, Performs DEF Goal, Move, Pauses
    <3>5. CASE wait_count > MinFrames
      <4>1. heading = 0 /\ heading' = 0
        BY <2>6, <3>5 DEF DancerInv
      <4>2. CASE wait_count < 2 * MinFrames
        BY <1>2, <2>2, <2>3, <2>6, <3>1, <3>5, <4>1, <4>2, Performs DEF Goal, Move, Pauses
      <4>3. CASE wait_count = 2 * MinFrames
        BY <1>2, <2>2, <2>3, <2>6, <3>1, <3>5, <4>1, <4>3, Performs DEF Goal, Move, Ends
      <4>. QED  BY <3>1, <4>2, <4>3
    <3>. QED  BY <3>1, <3>2, <3>3, <3>4, <3>5
  <2>. QED  BY <2>3, <2>4, <2>5, <2>6
<1>. QED  BY <1>1, <1>2

LEMMA WayOut ==
  ASSUME TypeOK, DancerInv, TurnShip, ~isInitial, ~finishedMove
  PROVE  /\ heading' \in {Goal} \union Way(Goal)
         /\ heading' # 0
BY ShipTurns, DancingHas DEF DancerInv

LEMMA WayBack ==
  ASSUME TypeOK, DancerInv, TurnShip, ~isInitial, finishedMove, wait_count = MinFrames
  PROVE  heading' \in {0, Goal} \union Way(Goal)
BY ShipTurns, DancingHas, DancerNumbers DEF DancerInv

LEMMA MoveKeepsDancer ==
  ASSUME TypeOK, DancerInv, TurnShip, Move
  PROVE  DancerInv'
<1>. USE DancerNumbers, DancingHas, SamePlaceMeans
<1>0. InPlace /\ (~isInitial => Dancing)
  BY DEF DancerInv, InPlace
<1>1. CASE Rests
  BY <1>1 DEF Rests, DancerInv, InPlace
<1>2. CASE Ends
  BY <1>2 DEF Ends, DancerInv, InPlace
<1>3. CASE SamePlace /\ ~isInitial' /\ Dancing
  <2>1. /\ InPlace' /\ Dancing' /\ Goal' = Goal /\ Way(Goal)' = Way(Goal)
    BY <1>0, <1>3 DEF InPlace, SamePlace, Way
  <2>2. CASE Begins
    BY <2>1, <2>2 DEF Begins, DancerInv, InPlace
  <2>3. CASE TurnsOn
    <3>1. heading' \in Way(Goal) /\ heading' # 0
      BY <2>3, WayOut DEF TurnsOn
    <3>. QED  BY <1>3, <2>1, <2>3, <3>1 DEF TurnsOn, DancerInv, InPlace
  <2>4. CASE Arrives
    BY <1>3, <2>1, <2>4 DEF Arrives, DancerInv, InPlace
  <2>5. CASE Stays
    BY <1>3, <2>1, <2>5 DEF Stays, DancerInv, InPlace
  <2>6. CASE TurnsHome
    <3>1. heading' \in {0, Goal} \union Way(Goal)
      BY <2>6, WayBack DEF TurnsHome
    <3>. QED  BY <1>3, <2>1, <2>6, <3>1 DEF TurnsHome, DancerInv, InPlace
  <2>7. CASE Pauses
    BY <1>3, <2>1, <2>7 DEF Pauses, DancerInv, InPlace
  <2>8. Begins \/ TurnsOn \/ Arrives \/ Stays \/ TurnsHome \/ Pauses
    BY <1>3 DEF Move, Rests, Ends
  <2>. QED  BY <2>2, <2>3, <2>4, <2>5, <2>6, <2>7, <2>8
<1>4. Rests \/ Ends \/ (SamePlace /\ ~isInitial' /\ Dancing)
  BY <1>0 DEF Move, Begins, TurnsOn, Arrives, Stays, TurnsHome, Pauses
<1>. QED  BY <1>1, <1>2, <1>3, <1>4

LEMMA MissKeepsDancer ==
  ASSUME TypeOK, DancerInv, TurnShip, Misses
  PROVE  DancerInv'
<1>. USE DancerNumbers, DancingHas, SamePlaceMeans
<1>1. /\ UNCHANGED <<part, danceSequence, i, isInitial, finishedMove, wait_count>>
      /\ aim' = NoAim
  BY DEF Misses
<1>2. SamePlace
  BY <1>1 DEF SamePlace
<1>3. InPlace' /\ (Dancing' <=> Dancing) /\ Goal' = Goal /\ Way(Goal)' = Way(Goal)
  BY <1>1, <1>2 DEF DancerInv, InPlace, Sheet, Way
<1>4. CASE isInitial
  BY <1>1, <1>3, <1>4, ShipTurns DEF DancerInv, InPlace
<1>5. CASE ~isInitial /\ ~finishedMove
  <2>1. heading' \in {Goal} \union Way(Goal) /\ heading' # 0
    BY <1>5, WayOut
  <2>2. Dancing
    BY <1>5 DEF DancerInv
  <2>. QED  BY <1>1, <1>3, <1>5, <2>1, <2>2 DEF DancerInv, InPlace
<1>6. CASE ~isInitial /\ finishedMove
  <2>1. Dancing
    BY <1>6 DEF DancerInv
  <2>2. CASE wait_count = MinFrames
    <3>1. heading' \in {0, Goal} \union Way(Goal)
      BY <1>6, <2>2, WayBack
    <3>. QED  BY <1>1, <1>3, <1>6, <2>1, <2>2, <3>1 DEF DancerInv, InPlace
  <2>3. CASE wait_count # MinFrames
    <3>1. heading' = heading
      BY <1>6, <2>3, ShipTurns
    <3>. QED  BY <1>1, <1>3, <1>6, <2>1, <2>3, <3>1 DEF DancerInv, InPlace
  <2>. QED  BY <2>2, <2>3
<1>7. isInitial \in BOOLEAN /\ finishedMove \in BOOLEAN
  BY DEF TypeOK, DancerTypeOK
<1>. QED  BY <1>4, <1>5, <1>6, <1>7

LEMMA DancerGoesOn ==
  ASSUME TypeOK, DancerInv, TurnShip, DancerActs
  PROVE  /\ DancerInv'
         /\ (Move /\ dancerSkips' = 0) \/ (Misses /\ dancerSkips' = dancerSkips + 1)
<1>1. CASE DancerFrame(heading', facing) /\ dancerSkips' = 0
  BY <1>1, FrameIsAMove, MoveKeepsDancer
<1>2. CASE DancerSkips /\ dancerSkips' = dancerSkips + 1
  <2>1. Misses
    BY <1>2 DEF Misses, DancerSkips
  <2>. QED  BY <1>2, <2>1, MissKeepsDancer
<1>. QED  BY <1>1, <1>2 DEF DancerActs
-----------------------------------------------------------------------------
(* Types. *)

LEMMA TypesInit == Init => TypeOK
<1>. SUFFICES ASSUME Init PROVE TypeOK
  OBVIOUS
<1>. USE DancerNumbers
<1>0. /\ danceSequence \in BOOLEAN /\ isInitial \in BOOLEAN /\ finishedMove \in BOOLEAN
      /\ observing_dance \in BOOLEAN /\ dancingCheck \in BOOLEAN
      /\ is_initial_setup \in BOOLEAN /\ facing \in BOOLEAN
  BY Zenon DEF Init, DancerInit, ObserverInit
<1>1. DancerTypeOK
  <2>1. /\ part = "waiting" /\ waiting_counter = 0 /\ observed_counter = 0
        /\ i = 0 /\ wait_count = 0 /\ aim = NoAim
    BY DEF Init, DancerInit
  <2>. QED  BY <1>0, <2>1 DEF DancerTypeOK
<1>2. watch \in Watches
  BY DEF Init, ObserverInit, Watches, Sector
<1>3. dance_moves = <<>>
  BY DEF Init, ObserverInit
<1>4. ObserverTypeOK
  <2>1. initial_heading = 0 /\ direction = "none" /\ danceObserved = "none"
    BY DEF Init, ObserverInit
  <2>. QED  BY <1>0, <1>2, <1>3, <2>1 DEF ObserverTypeOK, Sector
<1>5. /\ heading \in Sector /\ facing \in BOOLEAN
      /\ dancerSkips \in 0..MaxDancerSkip /\ observerSkips \in 0..MaxObserverSkip
  BY <1>0 DEF Init, Sector
<1>. QED  BY <1>1, <1>4, <1>5 DEF TypeOK

LEMMA DancerInit0 == Init => DancerInv
  BY Sheets DEF Init, DancerInit, DancerInv

LEMMA DancerTypes ==
  ASSUME TypeOK, DancerInv, TurnShip, DancerActs
  PROVE  DancerTypeOK' /\ heading' \in Sector /\ dancerSkips' \in 0..MaxDancerSkip
<1>. USE DancerNumbers
<1>0. DancerTypeOK /\ heading \in Sector /\ dancerSkips \in 0..MaxDancerSkip
  BY DEF TypeOK
<1>1. dancerSkips' \in 0..MaxDancerSkip
  BY <1>0 DEF DancerActs
<1>2. heading' \in Sector
  BY ShipTurns
<1>3. UNCHANGED <<waiting_counter, observed_counter>> \/ Wait(facing)
  BY DEF DancerActs, DancerFrame, DancerSkips, Dance, Rest
<1>4. waiting_counter' \in 0..FrameLimit /\ observed_counter' \in Nat
  <2>1. waiting_counter \in 0..FrameLimit /\ observed_counter \in Nat
    BY <1>0 DEF DancerTypeOK
  <2>2. CASE Wait(facing)
    <3>1. /\ waiting_counter < FrameLimit /\ waiting_counter' = waiting_counter + 1
          /\ observed_counter' = observed_counter + 1 \/ observed_counter' = 0
      BY <2>2 DEF Wait
    <3>. QED  BY <2>1, <3>1
  <2>. QED  BY <1>3, <2>1, <2>2
<1>5. CASE Misses
  BY <1>0, <1>1, <1>2, <1>4, <1>5 DEF Misses, DancerTypeOK
<1>6. CASE Wait(facing)
  <2>1. part' \in {"waiting", "type", "deposit"} /\ UNCHANGED <<danceSequence, i, moveVars>>
    BY <1>6 DEF Wait
  <2>. QED  BY <1>0, <1>1, <1>2, <1>4, <2>1 DEF moveVars, DancerTypeOK
<1>7. CASE Rest
  BY <1>0, <1>1, <1>2, <1>4, <1>7 DEF Rest, DancerTypeOK
<1>8. CASE Dance(heading')
  <2>1. part' \in {"waiting", "type", "x", "y", "danced", "deposit"}
    <3>1. CASE RelayMsg(heading')
      BY <3>1 DEF RelayMsg
    <3>2. CASE RelayCoords(XDance, "y", heading') \/ RelayCoords(YDance, "danced", heading')
      BY <1>0, <3>2 DEF RelayCoords, DancerTypeOK
    <3>. QED  BY <1>8, <3>1, <3>2 DEF Dance
  <2>2. i' \in Nat /\ danceSequence' \in BOOLEAN
    <3>0. i \in Nat /\ i + 1 \in Nat /\ 0 \in Nat /\ danceSequence \in BOOLEAN
      BY <1>0 DEF DancerTypeOK
    <3>1. CASE RelayMsg(heading')
      BY <3>0, <3>1 DEF RelayMsg
    <3>2. ASSUME NEW sheet, NEW next, RelayCoords(sheet, next, heading')
          PROVE  i' \in {i, i + 1, 0} /\ danceSequence' \in BOOLEAN
      BY <3>0, <3>2, Zenon DEF RelayCoords
    <3>. QED  BY <1>8, <3>0, <3>1, <3>2 DEF Dance
  <2>3. CASE \E s : PerformMovement(s, heading')
    <3>1. PICK s : PerformMovement(s, heading')
      BY <2>3
    <3>2. isInitial' \in BOOLEAN /\ finishedMove' \in BOOLEAN
      BY <3>1 DEF PerformMovement, MovementDone, AtTarget
    <3>3. wait_count' \in 0..2 * MinFrames
      BY <1>0, <3>1 DEF PerformMovement, WaitSoFar, DancerTypeOK
    <3>4. aim' \in Sector \union {NoAim}
      BY <3>1, <1>2 DEF PerformMovement, Target, LeftOf, RightOf, RearOf, Sector
    <3>. QED  BY <1>4, <2>1, <2>2, <3>2, <3>3, <3>4, <1>1, <1>2 DEF DancerTypeOK
  <2>4. CASE UNCHANGED <<isInitial, finishedMove, wait_count>> /\ aim' = NoAim
    BY <1>0, <1>1, <1>2, <1>4, <2>1, <2>2, <2>4 DEF DancerTypeOK
  <2>. QED  BY <1>8, <2>3, <2>4 DEF Dance, RelayMsg, RelayCoords
<1>9. Misses \/ Wait(facing) \/ Rest \/ Dance(heading')
  BY DEF DancerActs, DancerFrame, DancerSkips, Misses
<1>. QED  BY <1>1, <1>2, <1>5, <1>6, <1>7, <1>8, <1>9
-----------------------------------------------------------------------------
(* The onlooker: a frame of it is one of these. *)

New(w) == w.isInitial = TRUE

Watching == dancingCheck /\ danceObserved = "none"

Prev == watch.prevHeading
Same == watch.num_frames_same_dir

(* How often in a row it has seen h once it sees h again. *)
Again(h) == IF h # Prev THEN 0 ELSE Same + 1

(* DirectionSeen, with heading 0 for the reference. *)
Seen(d, h) ==
  IF h = 4 THEN endOfWord
  ELSE IF h = 0 THEN "none"
  ELSE IF d = "none" /\ h = 2 THEN left
  ELSE IF d = "none" /\ h = 6 THEN right
  ELSE d

Writes(d, n, h) == IF d # "none" /\ h = 0 THEN Append(n, d) ELSE n

(* The reference is heading 0; until it is taken nothing else has happened, *)
(* and the dancer has counted at most the frames since it is looked at.     *)
RefInv ==
  /\ initial_heading = 0
  /\ ~facing => observed_counter = 0 /\ ~observing_dance
  /\ ~observing_dance => is_initial_setup
  /\ is_initial_setup => /\ dance_moves = <<>> /\ direction = "none"
                         /\ dancingCheck /\ danceObserved = "none"
                         /\ New(watch)
  /\ part # "deposit" /\ is_initial_setup =>
       /\ part = "waiting"
       /\ observed_counter <= (IF observing_dance THEN MaxObserverSkip + 1 ELSE 0) + observerSkips
  /\ part = "waiting" => observed_counter < ObservedFrames

(* It stops watching for good only before its first note, or knowing all.  *)
CheckInv ==
  /\ ~New(watch) => Same < Threshold
  /\ ~dancingCheck /\ danceObserved = "none" => dance_moves = <<>>
  /\ Watching /\ New(watch) => is_initial_setup
  /\ danceObserved # "none" => danceObserved = "honey" /\ dance_moves = Text /\ part = "danced"

Idle == UNCHANGED observerVars

Overlooks ==
  /\ facing /\ facing' /\ Idle
  /\ observerSkips < MaxObserverSkip /\ observerSkips' = observerSkips + 1

Joins ==
  /\ facing /\ facing' /\ observerSkips' = 0
  /\ ~observing_dance /\ observing_dance'
  /\ UNCHANGED <<dancingCheck, watch, is_initial_setup, initial_heading,
                 direction, dance_moves, danceObserved>>

SetsUp ==
  /\ facing /\ facing' /\ observerSkips' = 0
  /\ observing_dance /\ observing_dance'
  /\ is_initial_setup /\ ~is_initial_setup'
  /\ initial_heading' = 0
  /\ direction' = "none" /\ dance_moves' = <<>> /\ danceObserved' = "none"
  /\ dancingCheck' \in BOOLEAN
  /\ watch' \in Watches /\ ~New(watch')
  /\ watch'.prevHeading = 0 /\ watch'.num_frames_same_dir = 0

Looks ==
  /\ facing /\ facing' /\ observerSkips' = 0
  /\ observing_dance /\ observing_dance'
  /\ Watching /\ ~is_initial_setup /\ ~is_initial_setup'
  /\ initial_heading' = 0
  /\ direction' = Seen(direction, heading')
  /\ dance_moves' = Writes(direction, dance_moves, heading')
  /\ dancingCheck' \in BOOLEAN
  /\ watch' \in Watches
  /\ watch'.prevHeading = heading'

(* It takes the dance for going on, for finished, or for none. *)
GoesOn ==
  /\ Looks
  /\ dancingCheck' /\ danceObserved' = "none"
  /\ ~New(watch') /\ watch'.num_frames_same_dir < Threshold
  /\ watch'.num_frames_same_dir <= Again(heading') + 1

Concludes ==
  /\ Looks
  /\ Again(heading') + 1 >= Threshold
  /\ dance_moves' # <<>>
  /\ danceObserved' = IF dance_moves'[1] = left THEN "honey" ELSE "enemy"
  /\ ~New(watch') => watch'.num_frames_same_dir < Threshold

GivesUp ==
  /\ Looks
  /\ dance_moves' = <<>>
  /\ ~dancingCheck' /\ danceObserved' = "none"
  /\ New(watch')

LEMMA WatchIs ==
  ASSUME NEW w \in Watches
  PROVE  /\ w.isInitial \in BOOLEAN
         /\ w.isInitial <=> New(w)
         /\ w.prevHeading \in Sector
         /\ w.num_frames_same_dir \in 0..Threshold
<1>1. PICK a \in BOOLEAN : \E b \in Sector : \E c \in 0..Threshold :
         w = [isInitial |-> a, prevHeading |-> b, num_frames_same_dir |-> c]
  BY Zenon DEF Watches
<1>2. PICK b \in Sector : \E c \in 0..Threshold :
         w = [isInitial |-> a, prevHeading |-> b, num_frames_same_dir |-> c]
  BY <1>1
<1>3. PICK c \in 0..Threshold :
         w = [isInitial |-> a, prevHeading |-> b, num_frames_same_dir |-> c]
  BY <1>2
<1>4. w.isInitial = a /\ w.prevHeading = b /\ w.num_frames_same_dir = c
  BY <1>3
<1>5. w.isInitial \in BOOLEAN
  BY <1>4, Zenon
<1>6. w.isInitial <=> New(w)
  BY <1>5, Zenon DEF New
<1>. QED  BY <1>4, <1>5, <1>6

LEMMA WatchGoesOn ==
  ASSUME NEW w \in Watches, NEW h \in Sector,
         ~New(w) => w.num_frames_same_dir < Threshold
  PROVE  /\ SameDir(w, h) = IF New(w) \/ h # w.prevHeading THEN 0 ELSE w.num_frames_same_dir + 1
         /\ SameDir(w, h) \in 0..Threshold
         /\ BeeIsDancing(w, h) \in Watches
         /\ New(BeeIsDancing(w, h)) <=> ~New(w) /\ SameDir(w, h) >= Threshold
         /\ BeeIsDancing(w, h).prevHeading = h
         /\ BeeIsDancing(w, h).num_frames_same_dir = SameDir(w, h)
<1>. DEFINE a == ~w.isInitial /\ SameDir(w, h) >= Threshold
            b == BeeIsDancing(w, h)
<1>1. w.isInitial \in BOOLEAN /\ (w.isInitial <=> New(w))
  BY WatchIs
<1>2. SameDir(w, h) = IF New(w) \/ h # w.prevHeading THEN 0 ELSE w.num_frames_same_dir + 1
  BY <1>1, Zenon DEF SameDir
<1>3. SameDir(w, h) \in 0..Threshold
  BY <1>2, WatchIs, DancerNumbers
<1>4. a \in BOOLEAN
  BY Zenon
<1>5. b = [isInitial |-> a, prevHeading |-> h, num_frames_same_dir |-> SameDir(w, h)]
  BY Zenon DEF BeeIsDancing
<1>. HIDE DEF a, b
<1>6. b.isInitial = a /\ b.prevHeading = h /\ b.num_frames_same_dir = SameDir(w, h)
  BY <1>5, Zenon
<1>7. b \in Watches
  BY <1>3, <1>4, <1>5, Zenon DEF Watches
<1>8. New(b) <=> a
  BY <1>4, <1>6, Zenon DEF New
<1>9. a <=> ~New(w) /\ SameDir(w, h) >= Threshold
  BY <1>1, Zenon DEF a
<1>. QED  BY <1>2, <1>3, <1>6, <1>7, <1>8, <1>9 DEF b

Waits == ~facing /\ Idle /\ observerSkips' = observerSkips

Content == facing /\ facing' /\ Idle /\ ~Watching /\ observerSkips' = 0

LEMMA SeenIs ==
  ASSUME NEW h \in Sector, Reference(h) = 0
  PROVE  /\ DirectionSeen(h) = Seen(direction, h)
         /\ h = Reference(h) <=> h = 0
<1>1. RearOf(0) = 4 /\ LeftOf(0) = 2 /\ RightOf(0) = 6
  BY DEF RearOf, LeftOf, RightOf
<1>. QED  BY <1>1 DEF DirectionSeen, Seen

LEMMA TestIsASetUpOrALook ==
  ASSUME TypeOK, RefInv, CheckInv, NEW h \in Sector, heading' = h,
         is_initial_setup => h = 0,
         facing, facing', observerSkips' = 0,
         observing_dance, danceObserved = "none", observing_dance' = observing_dance,
         dancingCheck,
         FirstTest(h, BeeIsDancing(watch, h)),
         SecondTest(h, BeeIsDancing(watch, h))
  PROVE  SetsUp \/ GoesOn \/ Concludes \/ GivesUp
<1>. DEFINE w == BeeIsDancing(watch, h)
<1>. USE DancerNumbers
<1>0. watch \in Watches /\ observing_dance \in BOOLEAN /\ dancingCheck \in BOOLEAN
  BY DEF TypeOK, ObserverTypeOK
<1>1. ~New(watch) => watch.num_frames_same_dir < Threshold
  BY DEF CheckInv, Same
<1>2. /\ SameDir(watch, h) = IF New(watch) THEN 0 ELSE Again(h)
      /\ SameDir(watch, h) \in 0..Threshold
      /\ w \in Watches
      /\ New(w) <=> ~New(watch) /\ SameDir(watch, h) >= Threshold
      /\ w.prevHeading = h
      /\ w.num_frames_same_dir = SameDir(watch, h)
  BY <1>0, <1>1, WatchGoesOn DEF Again, Prev, Same
<1>3. /\ dancingCheck' \in Answers(watch, h)
      /\ ObserveDanceMoves(h)
  BY DEF FirstTest
<1>4. Reference(h) = 0
  BY DEF Reference, RefInv
<1>5. /\ ~is_initial_setup'
      /\ initial_heading' = 0
      /\ direction' = Seen(direction, h)
      /\ dance_moves' = Writes(direction, dance_moves, h)
  BY <1>3, <1>4, SeenIs DEF ObserveDanceMoves, Writes
<1>6. /\ New(watch) => dancingCheck' \in BOOLEAN
      /\ ~New(watch) => dancingCheck' \in BOOLEAN /\ (dancingCheck' <=> SameDir(watch, h) < Threshold)
  <2>1. watch.isInitial <=> New(watch)
    BY <1>0, WatchIs
  <2>2. Answers(watch, h) = IF New(watch) THEN FirstAnswers ELSE {SameDir(watch, h) < Threshold}
    BY <2>1, Zenon DEF Answers
  <2>3. ASSUME New(watch) PROVE dancingCheck' \in BOOLEAN
    BY <1>3, <2>2, <2>3, ObserverAssumption, Zenon
  <2>4. ASSUME ~New(watch) PROVE dancingCheck' = (SameDir(watch, h) < Threshold)
    BY <1>3, <2>2, <2>4, Zenon
  <2>5. (SameDir(watch, h) < Threshold) \in BOOLEAN
    BY <1>2
  <2>. QED  BY <2>3, <2>4, <2>5, Zenon
<1>. HIDE DEF w
<1>7. SecondTest(h, w)
  BY DEF w
<1>8. CASE is_initial_setup
  <2>1. h = 0 /\ dance_moves = <<>> /\ direction = "none" /\ New(watch)
    BY <1>8 DEF RefInv
  <2>2. dance_moves' = <<>> /\ direction' = "none"
    BY <1>5, <2>1 DEF Writes, Seen
  <2>3. watch' = w /\ danceObserved' = "none"
    BY <1>7, <2>2 DEF SecondTest
  <2>4. watch' \in Watches /\ ~New(watch') /\ watch'.prevHeading = 0 /\ watch'.num_frames_same_dir = 0
    BY <1>2, <2>1, <2>3
  <2>. QED  BY <1>5, <1>6, <1>8, <2>1, <2>2, <2>3, <2>4 DEF SetsUp
<1>9. CASE ~is_initial_setup
  <2>1. ~New(watch)
    BY <1>9 DEF CheckInv, Watching
  <2>2. CASE dance_moves' = <<>>
    <3>1. watch' = w /\ danceObserved' = "none"
      BY <1>7, <2>2 DEF SecondTest
    <3>2. Looks
      BY <1>2, <1>5, <1>6, <1>9, <2>1, <3>1 DEF Looks, Watching
    <3>3. CASE SameDir(watch, h) < Threshold
      <4>1. ~New(watch') /\ watch'.num_frames_same_dir = Again(h)
        BY <1>2, <2>1, <3>1, <3>3
      <4>2. dancingCheck'
        BY <1>6, <2>1, <3>3
      <4>3. Again(h) \in Int /\ Again(h) < Threshold
        BY <1>2, <2>1, <3>3
      <4>. QED  BY <3>1, <3>2, <4>1, <4>2, <4>3 DEF GoesOn
    <3>4. CASE ~(SameDir(watch, h) < Threshold)
      <4>1. New(watch')
        BY <1>2, <2>1, <3>1, <3>4
      <4>. QED  BY <1>6, <2>1, <2>2, <3>1, <3>2, <3>4, <4>1 DEF GivesUp
    <3>. QED  BY <3>3, <3>4
  <2>3. CASE dance_moves' # <<>>
    <3>1. /\ watch' = BeeIsDancing(w, h)
          /\ IF SaysNotDancing(w, h) THEN Conclude ELSE UNCHANGED danceObserved
      BY <1>7, <2>3 DEF SecondTest
    <3>2. ~New(w) => w.num_frames_same_dir < Threshold
      BY <1>2, <2>1
    <3>3. /\ SameDir(w, h) = IF New(w) THEN 0 ELSE Again(h) + 1
          /\ watch' \in Watches
          /\ watch'.prevHeading = h
          /\ New(watch') <=> ~New(w) /\ SameDir(w, h) >= Threshold
          /\ watch'.num_frames_same_dir = SameDir(w, h)
          /\ SameDir(w, h) \in 0..Threshold
      BY <1>2, <2>1, <3>1, <3>2, WatchGoesOn
    <3>4. Looks
      BY <1>5, <1>6, <1>9, <2>1, <3>3 DEF Looks, Watching
    <3>5. SaysNotDancing(w, h) <=> New(w) \/ SameDir(w, h) >= Threshold
      BY <1>2, WatchIs, Zenon DEF SaysNotDancing
    <3>6. CASE SaysNotDancing(w, h)
      <4>1. danceObserved' = IF dance_moves'[1] = left THEN "honey" ELSE "enemy"
        BY <3>1, <3>6 DEF Conclude
      <4>2. Again(h) + 1 >= Threshold
        BY <1>2, <2>1, <3>3, <3>5, <3>6
      <4>3. ~New(watch') => watch'.num_frames_same_dir < Threshold
        BY <3>3
      <4>. QED  BY <2>3, <3>4, <4>1, <4>2, <4>3 DEF Concludes
    <3>7. CASE ~SaysNotDancing(w, h)
      <4>1. ~New(w) /\ SameDir(w, h) < Threshold
        BY <3>3, <3>5, <3>7
      <4>2. SameDir(watch, h) < Threshold
        BY <1>2, <2>1, <4>1
      <4>3. dancingCheck' /\ danceObserved' = "none"
        BY <1>6, <2>1, <3>1, <3>7, <4>2
      <4>4. ~New(watch') /\ watch'.num_frames_same_dir < Threshold
            /\ watch'.num_frames_same_dir = Again(h) + 1
        BY <3>3, <4>1
      <4>5. watch'.num_frames_same_dir <= Again(heading') + 1
        <5>1. watch'.num_frames_same_dir \in Int
          BY <3>3
        <5>. QED  BY <4>4, <5>1
      <4>. QED  BY <3>4, <4>3, <4>4, <4>5 DEF GoesOn
    <3>. QED  BY <3>6, <3>7
  <2>. QED  BY <2>2, <2>3
<1>. QED  BY <1>8, <1>9

LEMMA FrameIsALook ==
  ASSUME TypeOK, RefInv, CheckInv, heading' \in Sector,
         is_initial_setup => heading' = 0, ObserverActs
  PROVE  Waits \/ Overlooks \/ Joins \/ SetsUp \/ GoesOn \/ Concludes \/ GivesUp \/ Content
<1>0. facing \in BOOLEAN /\ observing_dance \in BOOLEAN /\ dancingCheck \in BOOLEAN
  BY DEF TypeOK, ObserverTypeOK
<1>1. CASE ~facing
  BY <1>1 DEF ObserverActs, Waits, Idle
<1>2. CASE facing /\ observerSkips < MaxObserverSkip /\ observerSkips' = observerSkips + 1
           /\ UNCHANGED <<observerVars, facing>>
  BY <1>2 DEF Overlooks, Idle
<1>3. CASE facing /\ ObserverFrame(heading') /\ observerSkips' = 0 /\ UNCHANGED facing
  <2>1. CASE ~observing_dance
    <3>1. /\ observing_dance'
          /\ UNCHANGED <<dancingCheck, watch, is_initial_setup, initial_heading,
                         direction, dance_moves, danceObserved>>
      BY <1>3, <2>1 DEF ObserverFrame, RefInv
    <3>. QED  BY <1>3, <2>1, <3>1 DEF Joins
  <2>2. CASE danceObserved # "none"
    <3>1. UNCHANGED observerVars
      BY <1>3, <2>2 DEF ObserverFrame, RefInv
    <3>. QED  BY <1>3, <2>2, <3>1 DEF Content, Idle, Watching
  <2>3. CASE observing_dance /\ danceObserved = "none"
    <3>1. /\ observing_dance' = observing_dance
          /\ LET w == IF dancingCheck THEN BeeIsDancing(watch, heading') ELSE watch
             IN  FirstTest(heading', w) /\ SecondTest(heading', w)
      BY <1>3, <2>3 DEF ObserverFrame
    <3>2. CASE dancingCheck
      <4>1. PICK h \in Sector : h = heading'
        OBVIOUS
      <4>2. FirstTest(h, BeeIsDancing(watch, h)) /\ SecondTest(h, BeeIsDancing(watch, h))
        BY <3>1, <3>2, <4>1
      <4>. QED  BY <1>3, <2>3, <3>1, <3>2, <4>1, <4>2, TestIsASetUpOrALook
    <3>3. CASE ~dancingCheck
      <4>1. dance_moves = <<>>
        BY <2>3, <3>3 DEF CheckInv
      <4>2. FirstTest(heading', watch) /\ SecondTest(heading', watch)
        BY <3>1, <3>3
      <4>3. UNCHANGED <<dancingCheck, is_initial_setup, initial_heading, direction, dance_moves>>
        BY <3>3, <4>2 DEF FirstTest
      <4>4. UNCHANGED <<watch, danceObserved>>
        BY <4>1, <4>2, <4>3 DEF SecondTest
      <4>. QED  BY <1>3, <3>1, <3>3, <4>3, <4>4 DEF Content, Idle, observerVars, Watching
    <3>. QED  BY <1>0, <3>2, <3>3
  <2>. QED  BY <1>0, <2>1, <2>2, <2>3
<1>. QED  BY <1>0, <1>1, <1>2, <1>3 DEF ObserverActs

Called == Waits \/ Overlooks \/ Joins \/ SetsUp \/ GoesOn \/ Concludes \/ GivesUp \/ Content

LEMMA ObserverTypes ==
  ASSUME TypeOK, RefInv, CheckInv, heading' \in Sector, ObserverActs, Called
  PROVE  ObserverTypeOK' /\ facing' \in BOOLEAN /\ observerSkips' \in 0..MaxObserverSkip
<1>. USE DancerNumbers
<1>0. ObserverTypeOK /\ facing \in BOOLEAN /\ observerSkips \in 0..MaxObserverSkip
  BY DEF TypeOK
<1>1. facing' \in BOOLEAN /\ observerSkips' \in 0..MaxObserverSkip
  BY <1>0 DEF ObserverActs
<1>2. CASE Idle
  BY <1>0, <1>1, <1>2 DEF Idle, observerVars, ObserverTypeOK
<1>3. CASE Joins
  BY <1>0, <1>1, <1>3 DEF Joins, ObserverTypeOK
<1>4. CASE SetsUp
  <2>1. dance_moves' \in Seq({left, right, endOfWord}) /\ 0 \in Sector
    BY <1>4 DEF SetsUp, Sector
  <2>2. /\ observing_dance' \in BOOLEAN /\ is_initial_setup' \in BOOLEAN
    BY <1>4, <1>0 DEF SetsUp, ObserverActs, ObserverFrame, FirstTest, ObserveDanceMoves,
                      observerVars, ObserverTypeOK
  <2>. QED  BY <1>1, <1>4, <2>1, <2>2 DEF SetsUp, ObserverTypeOK
<1>5. CASE GoesOn \/ Concludes \/ GivesUp
  <2>1. Looks
    BY <1>5 DEF GoesOn, Concludes, GivesUp
  <2>2. direction \in {"none", left, right, endOfWord} /\ dance_moves \in Seq({left, right, endOfWord})
    BY <1>0 DEF ObserverTypeOK
  <2>3. direction' \in {"none", left, right, endOfWord}
    BY <2>1, <2>2 DEF Looks, Seen
  <2>4. dance_moves' \in Seq({left, right, endOfWord})
    BY <2>1, <2>2 DEF Looks, Writes
  <2>5. danceObserved' \in {"none", "honey", "enemy", "crash"}
    BY <1>5 DEF GoesOn, Concludes, GivesUp
  <2>6. /\ observing_dance' \in BOOLEAN /\ dancingCheck' \in BOOLEAN /\ is_initial_setup' \in BOOLEAN
        /\ watch' \in Watches /\ initial_heading' = 0 /\ 0 \in Sector
    <3>1. observing_dance' /\ ~is_initial_setup' /\ initial_heading' = 0
      BY <2>1 DEF Looks
    <3>2. dancingCheck' \in BOOLEAN /\ watch' \in Watches
      BY <2>1 DEF Looks
    <3>3. is_initial_setup' \in BOOLEAN
      BY <1>5, <2>1, <1>0 DEF ObserverActs, ObserverFrame, FirstTest, ObserveDanceMoves, Looks, observerVars, ObserverTypeOK
    <3>4. observing_dance' \in BOOLEAN
      BY <1>0, <2>1 DEF ObserverActs, ObserverFrame, Looks, observerVars, ObserverTypeOK
    <3>. QED  BY <3>1, <3>2, <3>3, <3>4 DEF Sector
  <2>. QED  BY <1>1, <2>3, <2>4, <2>5, <2>6 DEF ObserverTypeOK
<1>. QED  BY <1>2, <1>3, <1>4, <1>5 DEF Called, Waits, Overlooks, Content

LEMMA TypesStep ==
  ASSUME TypeOK, DancerInv, RefInv, CheckInv, TurnShip, DancerActs, ObserverActs, Called
  PROVE  TypeOK'
BY DancerTypes, ObserverTypes DEF TypeOK
-----------------------------------------------------------------------------
(* The reference is taken in time, and while the heading is 0. *)

LEMMA SetUpAtRest ==
  ASSUME TypeOK, DancerInv, RefInv, TurnShip, is_initial_setup
  PROVE  ~Dancing /\ isInitial /\ heading' = 0
BY ShipTurns DEF RefInv, Dancing, DancerInv

LEMMA Called1 ==
  ASSUME TypeOK, DancerInv, RefInv, CheckInv, TurnShip, ObserverActs
  PROVE  Called
BY ShipTurns, SetUpAtRest, FrameIsALook DEF Called

LEMMA Counted ==
  ASSUME DancerActs
  PROVE  \/ Wait(facing)
         \/ /\ observed_counter' = observed_counter
            /\ part = "waiting" <=> part' = "waiting"
            /\ part = "deposit" <=> part' = "deposit"
<1>1. CASE DancerSkips \/ Rest
  BY <1>1 DEF DancerSkips, Rest
<1>2. CASE Dance(heading')
  <2>1. observed_counter' = observed_counter /\ part \in {"type", "x", "y"}
    BY <1>2 DEF Dance
  <2>2. ASSUME RelayMsg(heading') PROVE part' \in {"x", "type"}
    BY <2>2 DEF RelayMsg
  <2>3. ASSUME NEW sheet, NEW next \in {"y", "danced"}, RelayCoords(sheet, next, heading')
        PROVE  part' = part \/ part' = next
    BY <2>3, Zenon DEF RelayCoords
  <2>4. part' \notin {"waiting", "deposit"}
    BY <1>2, <2>1, <2>2, <2>3 DEF Dance
  <2>. QED  BY <2>1, <2>4
<1>. QED  BY <1>1, <1>2 DEF DancerActs, DancerFrame

LEMMA RefInit == Init => RefInv
<1>. SUFFICES ASSUME Init PROVE RefInv
  OBVIOUS
<1>1. New(watch)
  BY DEF Init, ObserverInit, New
<1>. QED  BY <1>1, DancerNumbers DEF Init, DancerInit, ObserverInit, RefInv

LEMMA StillEarly ==
  ASSUME NEW m \in Nat, NEW s \in 0..m, NEW c \in Nat, NEW o \in Nat,
         m + 1 + m + 1 <= o
  PROVE  (c <= s \/ c <= m + 1 + s) => c < o
OBVIOUS

LEMMA RefStep ==
  ASSUME TypeOK, DancerInv, RefInv, TurnShip, DancerActs, ObserverActs, Called
  PROVE  RefInv'
<1>. USE DancerNumbers
<1>0. /\ observerSkips \in 0..MaxObserverSkip /\ observed_counter \in Nat
      /\ facing \in BOOLEAN
      /\ facing' = facing \/ ~facing
      /\ observing_dance \in BOOLEAN
  BY DEF TypeOK, DancerTypeOK, ObserverTypeOK, ObserverActs
<1>1. initial_heading' = 0
  BY DEF Called, Waits, Overlooks, Joins, SetsUp, GoesOn, Concludes, GivesUp, Content, Looks,
         Idle, observerVars, RefInv
<1>2. ~facing' => observed_counter' = 0 /\ ~observing_dance'
  <2>. SUFFICES ASSUME ~facing' PROVE observed_counter' = 0 /\ ~observing_dance'
    OBVIOUS
  <2>1. ~facing
    BY <1>0
  <2>2. Waits
    BY <2>1 DEF Called, Overlooks, Joins, SetsUp, GoesOn, Concludes, GivesUp, Content, Looks
  <2>3. ~observing_dance' /\ observed_counter = 0
    BY <2>1, <2>2 DEF Waits, Idle, observerVars, RefInv
  <2>. QED  BY <2>1, <2>3, Counted DEF Wait
<1>3. ~observing_dance' => is_initial_setup'
  BY DEF Called, Waits, Overlooks, Joins, SetsUp, GoesOn, Concludes, GivesUp, Content, Looks,
         Idle, observerVars, RefInv
<1>4. is_initial_setup' =>
        /\ is_initial_setup
        /\ Waits \/ Overlooks \/ Joins
        /\ UNCHANGED <<dance_moves, direction, dancingCheck, danceObserved, watch>>
  BY DEF Called, Waits, Overlooks, Joins, SetsUp, GoesOn, Concludes, GivesUp, Content, Looks,
         Idle, observerVars, RefInv, Watching
<1>5. is_initial_setup' => /\ dance_moves' = <<>> /\ direction' = "none"
                           /\ dancingCheck' /\ danceObserved' = "none"
                           /\ New(watch')
  BY <1>4 DEF RefInv, New
<1>6. part' = "waiting" => observed_counter' < ObservedFrames
  <2>1. CASE Wait(facing)
    <3>1. /\ part = "waiting"
          /\ observed_counter' = (IF facing THEN observed_counter + 1 ELSE 0)
          /\ part' = "waiting" => observed_counter' # ObservedFrames
      BY <2>1 DEF Wait
    <3>. QED  BY <1>0, <3>1 DEF RefInv
  <2>. QED  BY <2>1, Counted DEF RefInv
<1>7. ASSUME part' # "deposit", is_initial_setup'
      PROVE  /\ part' = "waiting"
             /\ observed_counter' <= (IF observing_dance' THEN MaxObserverSkip + 1 ELSE 0) + observerSkips'
  <2>0. part # "deposit"
    BY <1>7, Counted DEF Wait
  <2>1. /\ part = "waiting"
        /\ observed_counter <= (IF observing_dance THEN MaxObserverSkip + 1 ELSE 0) + observerSkips
    BY <1>4, <1>7, <2>0 DEF RefInv
  <2>2. observed_counter' \in Nat /\ observed_counter' <= (IF facing THEN observed_counter + 1 ELSE 0)
    <3>1. ~facing => observed_counter = 0
      BY DEF RefInv
    <3>. QED  BY <1>0, <3>1, Counted DEF Wait
  <2>3. /\ observing_dance' => observed_counter' <= MaxObserverSkip + 1 + observerSkips'
        /\ ~observing_dance' => observed_counter' <= observerSkips'
    <3>1. CASE Waits
      <4>1. observerSkips' = observerSkips /\ observed_counter' <= 0 /\ observing_dance' = observing_dance
        BY <2>2, <3>1 DEF Waits, Idle, observerVars
      <4>. QED  BY <1>0, <2>2, <4>1
    <3>2. CASE Overlooks
      <4>1. observerSkips' = observerSkips + 1 /\ observing_dance' = observing_dance /\ facing
        BY <3>2 DEF Overlooks, Idle, observerVars
      <4>. QED  BY <1>0, <2>1, <2>2, <4>1
    <3>3. CASE Joins
      <4>1. observerSkips' = 0 /\ ~observing_dance /\ observing_dance' /\ facing
        BY <3>3 DEF Joins
      <4>. QED  BY <1>0, <2>1, <2>2, <4>1
    <3>. QED  BY <1>4, <1>7, <3>1, <3>2, <3>3
  <2>4. part' = "waiting"
    <3>1. observerSkips' \in 0..MaxObserverSkip
      BY <1>0 DEF ObserverActs
    <3>2. observed_counter' < ObservedFrames
      <4>1. observed_counter' \in Nat
        BY <2>2
      <4>2. MaxObserverSkip \in Nat /\ ObservedFrames \in Nat
        OBVIOUS
      <4>. QED  BY <2>3, <3>1, <4>1, <4>2, Pace, StillEarly
    <3>3. CASE Wait(facing)
      BY <1>7, <3>2, <3>3 DEF Wait
    <3>. QED  BY <2>1, <3>3, Counted
  <2>5. observerSkips' \in Nat
    BY <1>0 DEF ObserverActs
  <2>. QED  BY <2>3, <2>4, <2>5
<1>. QED  BY <1>1, <1>2, <1>3, <1>5, <1>6, <1>7 DEF RefInv
-----------------------------------------------------------------------------
(* What the onlooker has noted at each phase of a movement: c symbols are  *)
(* completed before the movement s, the ship has come to h, w frames of    *)
(* the movement are waited; the onlooker saw the ship at p last, the       *)
(* direction d since the reference, wrote down n, and missed k frames.     *)

Take(c) == SubSeq(Text, 1, c)

Glimpses(s) ==
  {"none", AsHeard(s)} \union (IF s = endOfSequence THEN {left, right} ELSE {})

Notes(phase, c, s, h, w, p, d, n, k) ==
  /\ phase = "rest" => p = 0 /\ d = "none" /\ n = Take(c)
  /\ phase = "out" =>
       /\ n = Take(c) /\ d \in Glimpses(s)
       /\ Away(p, Target(s)) >= Away(h, Target(s))
       /\ h = 0 => d = "none"
       /\ p = Target(s) => d = AsHeard(s)
  /\ phase = "there" =>
       /\ n = Take(c)
       /\ IF p = Target(s) THEN d = AsHeard(s) ELSE d \in Glimpses(s) /\ k >= w
  /\ phase = "home" =>
       /\ n = Take(c) /\ d = AsHeard(s)
       /\ Away(p, 0) >= Away(h, 0)
  /\ phase = "back" =>
       IF p = 0 THEN d = "none" /\ n = Take(c + 1)
                ELSE d = AsHeard(s) /\ n = Take(c) /\ k >= w - MinFrames

Phase ==
  IF isInitial THEN "rest"
  ELSE IF ~finishedMove THEN "out"
  ELSE IF heading = Goal THEN "there"
  ELSE IF heading = 0 THEN "back"
  ELSE "home"

(* The onlooker's notes while it watches.                                  *)
NoteInv ==
  Watching /\ ~is_initial_setup =>
    Notes(Phase, Completed, Current, heading, wait_count,
          Prev, direction, dance_moves, observerSkips)

(* Where the ship is at each phase, and what the movement is. *)
Fits(phase, c, s, h) ==
  /\ phase \in {"rest", "out", "there", "home", "back"}
  /\ phase # "rest" => /\ s \in Symbol /\ c \in Nat /\ c + 1 \in 1..Len(Text)
                       /\ Text[c + 1] = AsHeard(s)
  /\ phase = "rest" => h = 0
  /\ phase = "out" => h \in {0, Target(s)} \union Way(Target(s))
  /\ phase = "there" => h = Target(s)
  /\ phase = "home" => h \in Way(Target(s))
  /\ phase = "back" => h = 0

Placed == Fits(Phase, Completed, Current, heading)

LEMMA WellPlaced == TypeOK /\ DancerInv => Placed
<1>. SUFFICES ASSUME TypeOK, DancerInv PROVE Placed
  OBVIOUS
<1>. USE DancingHas, DancerNumbers
<1>1. CASE isInitial
  BY <1>1 DEF Phase, Placed, Fits, DancerInv
<1>2. CASE ~isInitial
  <2>1. Dancing
    BY <1>2 DEF DancerInv
  <2>2. ~finishedMove => heading \in {0, Goal} \union Way(Goal)
    BY <1>2 DEF DancerInv
  <2>3. finishedMove => heading \in {0, Goal} \union Way(Goal)
    BY <1>2 DEF DancerInv
  <2>. QED  BY <1>2, <2>1, <2>2, <2>3 DEF Phase, Placed, Fits, Goal
<1>. QED  BY <1>1, <1>2

LEMMA AwayIs ==
  ASSUME NEW h \in Sector, NEW t \in Sector
  PROVE  Away(h, t) \in Nat /\ (Away(h, t) = 0 <=> h = t)
BY Differences DEF Away, Sector

LEMMA HeardAt ==
  ASSUME NEW s \in Symbol
  PROVE  /\ AsHeard(s) \in Letter /\ AsHeard(s) # "none"
         /\ AsHeard(s) = IF Target(s) = 2 THEN left
                         ELSE IF Target(s) = 6 THEN right ELSE endOfWord
         /\ s = endOfSequence <=> Target(s) = 4
         /\ Target(s) \in Goals /\ Target(s) \in Sector
<1>1. Target(left) = 2 /\ Target(right) = 6 /\ Target(endOfSequence) = 4
  BY Targets
<1>2. /\ AsHeard(left) = left /\ AsHeard(right) = right
      /\ AsHeard(endOfSequence) = endOfWord
  BY DEF AsHeard, left, right, endOfSequence
<1>3. /\ left # "none" /\ right # "none" /\ endOfWord # "none"
      /\ left # endOfSequence /\ right # endOfSequence
  BY DEF left, right, endOfWord, endOfSequence
<1>4. s = left \/ s = right \/ s = endOfSequence
  BY DEF Symbol
<1>5. Goals \subseteq Sector /\ 2 \in Goals /\ 6 \in Goals /\ 4 \in Goals
  BY DEF Goals, Sector
<1>. QED  BY <1>1, <1>2, <1>3, <1>4, <1>5 DEF Letter

LEMMA OneMore ==
  ASSUME NEW c \in Nat, c + 1 \in 1..Len(Text)
  PROVE  Append(Take(c), Text[c + 1]) = Take(c + 1)
<1>. DEFINE t == Text
<1>1. t \in Seq(Letter) /\ Len(t) \in Nat
  BY TextIsHeard
<1>. HIDE DEF t
<1>2. /\ SubSeq(t, 1, c) \in Seq(Letter) /\ Len(SubSeq(t, 1, c)) = c
      /\ \A k \in 1..c : SubSeq(t, 1, c)[k] = t[k]
  BY <1>1, SubSeqProperties DEF t
<1>3. /\ SubSeq(t, 1, c + 1) \in Seq(Letter) /\ Len(SubSeq(t, 1, c + 1)) = c + 1
      /\ \A k \in 1..c + 1 : SubSeq(t, 1, c + 1)[k] = t[k]
  BY <1>1, SubSeqProperties DEF t
<1>4. t[c + 1] \in Letter
  BY <1>1 DEF t
<1>5. /\ Append(SubSeq(t, 1, c), t[c + 1]) \in Seq(Letter)
      /\ Len(Append(SubSeq(t, 1, c), t[c + 1])) = c + 1
      /\ \A k \in 1..c : Append(SubSeq(t, 1, c), t[c + 1])[k] = t[k]
      /\ Append(SubSeq(t, 1, c), t[c + 1])[c + 1] = t[c + 1]
  BY <1>2, <1>4, AppendProperties
<1>6. \A k \in 1..c + 1 : Append(SubSeq(t, 1, c), t[c + 1])[k] = SubSeq(t, 1, c + 1)[k]
  BY <1>3, <1>5
<1>7. Append(SubSeq(t, 1, c), t[c + 1]) = SubSeq(t, 1, c + 1)
  BY <1>3, <1>5, <1>6, SeqEqual
<1>. QED  BY <1>7 DEF Take, t

LEMMA Looking ==
  ASSUME NEW phase, NEW c, NEW s, NEW h \in Sector, NEW w, NEW p \in Sector,
         NEW d, NEW n, NEW k,
         Notes(phase, c, s, h, w, p, d, n, k), Fits(phase, c, s, h)
  PROVE  /\ Notes(phase, c, s, h, w, h, Seen(d, h), Writes(d, n, h), 0)
         /\ Writes(d, n, h) # n =>
              /\ phase = "back" /\ p # 0 /\ n = Take(c)
              /\ Writes(d, n, h) = Append(n, Text[c + 1])
<1>. USE DEF Fits
<1>1. CASE phase = "rest"
  BY <1>1 DEF Notes, Seen, Writes
<1>2. CASE phase = "back"
  <2>1. CASE p = 0
    BY <1>2, <2>1 DEF Notes, Seen, Writes
  <2>2. CASE p # 0
    <3>1. d = AsHeard(s) /\ d # "none" /\ n = Take(c) /\ h = 0
      BY <1>2, <2>2, HeardAt DEF Notes
    <3>2. Seen(d, h) = "none" /\ Writes(d, n, h) = Take(c + 1)
      BY <1>2, <3>1, OneMore DEF Seen, Writes
    <3>3. Writes(d, n, h) = Append(n, Text[c + 1])
      BY <1>2, <3>1 DEF Writes
    <3>. QED  BY <1>2, <2>2, <3>1, <3>2, <3>3 DEF Notes
  <2>. QED  BY <2>1, <2>2
<1>3. CASE phase \in {"out", "there", "home"}
  <2>. DEFINE t == Target(s)
  <2>1. /\ s \in Symbol /\ AsHeard(s) # "none" /\ t \in Goals
        /\ AsHeard(s) = (IF t = 2 THEN left ELSE IF t = 6 THEN right ELSE endOfWord)
        /\ (s = endOfSequence <=> t = 4)
    BY <1>3, HeardAt
  <2>. HIDE DEF t
  <2>2. t # 0 /\ 0 \notin Way(t) /\ t \notin Way(t)
    BY <2>1 DEF Goals, Way
  <2>3. h = 0 => phase = "out"
    BY <1>3, <2>2 DEF t
  <2>4. Writes(d, n, h) = n
    BY <1>3, <2>3 DEF Notes, Writes
  <2>5. n = Take(c) /\ d \in Glimpses(s)
    BY <1>3 DEF Notes, Glimpses
  <2>6. Glimpses(s) = {"none", AsHeard(s)} \union (IF t = 4 THEN {left, right} ELSE {})
    BY <2>1 DEF Glimpses
  <2>7. h = t => Seen(d, h) = AsHeard(s)
    BY <2>1, <2>5, <2>6 DEF Seen, Goals
  <2>8. h = 0 => Seen(d, h) = "none"
    BY DEF Seen
  <2>9. h \in Way(t) => Seen(d, h) \in Glimpses(s) /\ (d = AsHeard(s) => Seen(d, h) = AsHeard(s))
    BY <2>1, <2>5, <2>6 DEF Seen, Goals, Way
  <2>10. \A u \in Sector : Away(h, u) >= Away(h, u)
    BY AwayIs
  <2>11. 0 \in Sector /\ t \in Sector
    BY <2>1 DEF Sector, Goals
  <2>12. CASE phase = "out"
    <3>1. Seen(d, h) \in Glimpses(s)
      BY <2>6, <2>7, <2>8, <2>9, <2>12 DEF t
    <3>. QED  BY <2>4, <2>5, <2>7, <2>8, <2>10, <2>11, <2>12, <3>1 DEF Notes, t
  <2>13. CASE phase = "there"
    BY <2>4, <2>5, <2>7, <2>13 DEF Notes, t
  <2>14. CASE phase = "home"
    <3>1. d = AsHeard(s)
      BY <2>14 DEF Notes
    <3>. QED  BY <2>4, <2>5, <2>9, <2>10, <2>11, <2>14, <3>1 DEF Notes, t
  <2>. QED  BY <1>3, <2>12, <2>13, <2>14
<1>. QED  BY <1>1, <1>2, <1>3

LEMMA StillMissed ==
  ASSUME NEW k \in Nat, NEW w \in Nat, NEW v \in Nat, NEW m \in Nat, v <= w + 1
  PROVE  /\ k >= w - m => k + 1 >= v - m
         /\ w = m => k + 1 >= v - m
OBVIOUS

(* A frame of the dancer, the onlooker having missed it so far. *)
LEMMA Showing ==
  ASSUME TypeOK, DancerInv, Placed, TurnShip, Move \/ Misses,
         observerSkips <= MaxObserverSkip,
         Notes(Phase, Completed, Current, heading, wait_count,
               Prev, direction, dance_moves, observerSkips)
  PROVE  /\ Notes(Phase', Completed', Current', heading', wait_count',
                  Prev, direction, dance_moves, observerSkips + 1)
         /\ heading' # heading => Prev # heading'
<1>. USE DancerNumbers, Pace, DancingHas
<1>. DEFINE Goal1 == Target(Current)
<1>1. Prev \in Sector /\ heading \in Sector /\ heading' \in Sector /\ observerSkips \in Nat
      /\ 0 \in Sector /\ wait_count \in Nat
  <2>1. Prev \in Sector
    BY WatchIs DEF TypeOK, ObserverTypeOK, Prev
  <2>. QED  BY <2>1, ShipTurns DEF TypeOK, DancerTypeOK, Sector
<1>2. /\ Away(Prev, 0) \in Nat /\ Away(heading, 0) \in Nat /\ Away(heading', 0) \in Nat
      /\ Away(heading, 0) = 0 <=> heading = 0
      /\ Away(heading', 0) = 0 <=> heading' = 0
      /\ Away(Prev, 0) = 0 <=> Prev = 0
  BY <1>1, AwayIs
<1>3. CASE isInitial
  <2>1. heading = 0 /\ heading' = 0 /\ Phase = "rest"
    BY <1>3, ShipTurns DEF DancerInv, Phase
  <2>2. Prev = 0 /\ direction = "none" /\ dance_moves = Take(Completed)
    BY <2>1 DEF Notes
  <2>3. CASE Rests \/ Misses
    <3>1. Phase' = "rest" /\ Completed' = Completed
      BY <1>3, <2>3 DEF Rests, Misses, Phase, Completed
    <3>. QED  BY <2>1, <2>2, <3>1 DEF Notes
  <2>4. CASE Begins
    <3>1. Phase' = "out" /\ Completed' = Completed /\ Current' = Current
      BY <2>4, SamePlaceMeans DEF Begins, Phase
    <3>2. Target(Current) \in Sector /\ Target(Current) # 0
      BY <2>4 DEF Begins, Goal
    <3>3. Away(0, Target(Current)) >= Away(0, Target(Current))
      BY <1>1, <3>2, AwayIs
    <3>. QED  BY <2>1, <2>2, <3>1, <3>2, <3>3 DEF Notes, Glimpses
  <2>. QED  BY <1>3, <2>3, <2>4 DEF Move, TurnsOn, Arrives, Stays, TurnsHome, Pauses, Ends
<1>4. CASE ~isInitial
  <2>1. Dancing
    BY <1>4 DEF DancerInv
  <2>2. /\ Goal \in Sector /\ Goal \in Goals /\ Goal # 0 /\ Goal = Target(Current)
        /\ 0 \notin Way(Goal) /\ Goal \notin Way(Goal) /\ Current \in Symbol
    BY <2>1 DEF Goal
  <2>3. AsHeard(Current) \in Glimpses(Current) /\ "none" \in Glimpses(Current)
    BY DEF Glimpses
  <2>4. /\ Away(Prev, Goal) \in Nat /\ Away(heading, Goal) \in Nat /\ Away(heading', Goal) \in Nat
        /\ Away(heading, Goal) = 0 <=> heading = Goal
        /\ Away(heading', Goal) = 0 <=> heading' = Goal
        /\ Away(Prev, Goal) = 0 <=> Prev = Goal
    BY <1>1, <2>2, AwayIs
  <2>5. CASE Ends
    <3>1. heading = 0 /\ heading' = 0 /\ wait_count = 2 * MinFrames /\ Phase = "back"
      BY <1>4, <2>2, <2>5 DEF Ends, Phase
    <3>2. Prev = 0 /\ direction = "none" /\ dance_moves = Take(Completed + 1)
      <4>1. wait_count - MinFrames > observerSkips
        BY <1>1, <3>1, Doubled
      <4>. QED  BY <1>1, <3>1, <4>1 DEF Notes
    <3>3. Phase' = "rest" /\ Completed' = Completed + 1
      BY <2>5 DEF Ends, Phase
    <3>. QED  BY <3>1, <3>2, <3>3 DEF Notes
  <2>6. CASE SamePlace /\ ~Ends
    <3>0. Completed' = Completed /\ Current' = Current /\ Goal' = Goal
      BY <2>6, SamePlaceMeans
    <3>1. CASE ~finishedMove
      <4>1. /\ Phase = "out" /\ heading' \in {Goal} \union Way(Goal) /\ heading' # 0
            /\ Away(heading', Goal) <= Away(heading, Goal)
            /\ heading' # heading => Away(heading', Goal) < Away(heading, Goal)
        BY <1>4, <2>4, <3>1, ShipTurns, WayOut DEF Phase
      <4>2. /\ dance_moves = Take(Completed) /\ direction \in Glimpses(Current)
            /\ Away(Prev, Goal) >= Away(heading, Goal)
            /\ Prev = Goal => direction = AsHeard(Current)
        BY <2>2, <4>1 DEF Notes
      <4>3. heading' # heading => Prev # heading'
        BY <2>4, <4>1, <4>2
      <4>4. CASE TurnsOn \/ Misses
        <5>1. Phase' = "out"
          BY <1>4, <3>1, <4>4 DEF TurnsOn, Misses, Phase
        <5>2. Away(Prev, Goal) >= Away(heading', Goal)
          BY <2>4, <4>1, <4>2
        <5>. QED  BY <2>2, <3>0, <4>1, <4>2, <4>3, <5>1, <5>2 DEF Notes
      <4>5. CASE Arrives
        <5>1. Phase' = "there" /\ heading' = Goal /\ wait_count' = 1
          BY <3>0, <4>5 DEF Arrives, Phase
        <5>2. observerSkips + 1 >= 1
          BY <1>1
        <5>. QED  BY <2>2, <3>0, <4>2, <4>3, <5>1, <5>2 DEF Notes
      <4>. QED  BY <1>4, <3>1, <4>4, <4>5 DEF Move, Rests, Begins, Stays, TurnsHome, Pauses, Ends
    <3>2. CASE finishedMove
      <4>1. /\ wait_count \in 1..2 * MinFrames
            /\ heading' # heading => /\ wait_count = MinFrames /\ heading # 0
                                     /\ Away(heading', 0) < Away(heading, 0)
            /\ wait_count < MinFrames => heading = Goal
            /\ wait_count > MinFrames => heading = 0
        BY <1>4, <3>2, ShipTurns DEF DancerInv
      <4>2. Phase = (IF heading = Goal THEN "there" ELSE IF heading = 0 THEN "back" ELSE "home")
        BY <1>4, <3>2 DEF Phase
      <4>3. Stays \/ TurnsHome \/ Pauses \/ Misses
        BY <1>4, <2>6, <3>2 DEF Move, Rests, Begins, TurnsOn, Arrives
      <4>4. /\ ~isInitial' /\ finishedMove'
            /\ wait_count' \in Nat /\ wait_count' <= wait_count + 1
        <5>1. CASE Misses
          BY <1>1, <1>4, <3>2, <5>1 DEF Misses
        <5>2. CASE Stays \/ TurnsHome \/ Pauses
          BY <1>1, <5>2 DEF Stays, TurnsHome, Pauses
        <5>. QED  BY <4>3, <5>1, <5>2
      <4>5. Phase' = (IF heading' = Goal THEN "there" ELSE IF heading' = 0 THEN "back" ELSE "home")
        BY <3>0, <4>4 DEF Phase
      <4>6. CASE heading = Goal
        <5>1. /\ dance_moves = Take(Completed)
              /\ IF Prev = Goal THEN direction = AsHeard(Current)
                 ELSE direction \in Glimpses(Current) /\ observerSkips >= wait_count
          BY <2>2, <4>2, <4>6 DEF Notes
        <5>2. CASE heading' = Goal
          <6>1. observerSkips >= wait_count => observerSkips + 1 >= wait_count'
            BY <1>1, <4>4
          <6>. QED  BY <2>2, <3>0, <4>5, <4>6, <5>1, <5>2, <6>1 DEF Notes
        <5>3. CASE heading' # Goal
          <6>1. /\ wait_count = MinFrames
                /\ Away(heading', 0) < Away(heading, 0)
            BY <4>1, <4>6, <5>3
          <6>2. ~(observerSkips >= wait_count)
            BY <1>1, <6>1
          <6>3. Prev = Goal /\ direction = AsHeard(Current)
            BY <5>1, <6>2
          <6>4. Away(Prev, 0) >= Away(heading', 0)
            BY <1>2, <4>6, <6>1, <6>3
          <6>5. observerSkips + 1 >= wait_count' - MinFrames
            BY <1>1, <4>4, <6>1, StillMissed
          <6>. QED  BY <2>2, <3>0, <4>5, <5>1, <5>3, <6>3, <6>4, <6>5 DEF Notes
        <5>. QED  BY <5>2, <5>3
      <4>7. CASE heading = 0
        <5>1. heading' = 0
          BY <4>1, <4>7
        <5>2. observerSkips >= wait_count - MinFrames => observerSkips + 1 >= wait_count' - MinFrames
          BY <1>1, <4>4, StillMissed
        <5>. QED  BY <2>2, <3>0, <4>2, <4>5, <4>7, <5>1, <5>2 DEF Notes
      <4>8. CASE heading # Goal /\ heading # 0
        <5>1. dance_moves = Take(Completed) /\ direction = AsHeard(Current)
              /\ Away(Prev, 0) >= Away(heading, 0)
          BY <4>2, <4>8 DEF Notes
        <5>2. heading' # Goal
          BY <1>4, <2>2, <3>2, <4>8, ShipTurns
        <5>3. /\ Away(Prev, 0) >= Away(heading', 0) /\ Prev # 0
              /\ heading' # heading => Prev # heading'
          BY <1>2, <4>1, <4>8, <5>1
        <5>4. observerSkips + 1 >= wait_count' - MinFrames
          <6>1. wait_count = MinFrames
            BY <4>1, <4>8
          <6>. QED  BY <1>1, <4>4, <6>1, StillMissed
        <5>. QED  BY <3>0, <4>5, <5>1, <5>2, <5>3, <5>4 DEF Notes
      <4>. QED  BY <4>6, <4>7, <4>8
    <3>. QED  BY <3>1, <3>2
  <2>7. SamePlace \/ Ends
    <3>1. Misses => SamePlace
      BY DEF Misses, SamePlace
    <3>. QED  BY <1>4, <3>1 DEF Move, Rests, Begins, TurnsOn, Arrives, Stays, TurnsHome, Pauses
  <2>. QED  BY <2>5, <2>6, <2>7
<1>. QED  BY <1>3, <1>4
-----------------------------------------------------------------------------
(* The onlooker's notes through a tick. *)

LEMMA LookNotes ==
  ASSUME TypeOK, DancerInv, RefInv, NoteInv, TurnShip, DancerActs, Looks, Placed'
  PROVE  /\ Notes(Phase', Completed', Current', heading', wait_count',
                  Prev', direction', dance_moves', observerSkips')
         /\ heading' # heading => Prev # heading'
         /\ dance_moves' # dance_moves =>
              /\ Phase' = "back" /\ heading' = 0 /\ Prev # 0
              /\ dance_moves = Take(Completed')
              /\ dance_moves' = Append(dance_moves, Text[Completed' + 1])
<1>1. /\ Notes(Phase, Completed, Current, heading, wait_count,
               Prev, direction, dance_moves, observerSkips)
      /\ Prev \in Sector
      /\ observerSkips <= MaxObserverSkip
  BY WatchIs DEF NoteInv, Looks, TypeOK, ObserverTypeOK, Prev
<1>2. Move \/ Misses
  BY DancerGoesOn
<1>3. /\ Notes(Phase', Completed', Current', heading', wait_count',
               Prev, direction, dance_moves, observerSkips + 1)
      /\ heading' # heading => Prev # heading'
  BY <1>1, <1>2, WellPlaced, Showing
<1>4. /\ heading' \in Sector
      /\ Prev' = heading' /\ observerSkips' = 0
      /\ direction' = Seen(direction, heading')
      /\ dance_moves' = Writes(direction, dance_moves, heading')
  BY ShipTurns DEF Looks, Prev
<1>5. Fits(Phase', Completed', Current', heading')
  BY DEF Placed
<1>6. /\ Notes(Phase', Completed', Current', heading', wait_count',
               heading', Seen(direction, heading'), Writes(direction, dance_moves, heading'), 0)
      /\ Writes(direction, dance_moves, heading') # dance_moves =>
           /\ Phase' = "back" /\ Prev # 0 /\ dance_moves = Take(Completed')
           /\ Writes(direction, dance_moves, heading') = Append(dance_moves, Text[Completed' + 1])
  BY <1>1, <1>3, <1>4, <1>5, Looking
<1>7. Phase' = "back" => heading' = 0
  BY <1>5 DEF Fits
<1>. QED  BY <1>3, <1>4, <1>6, <1>7

LEMMA AtRest ==
  ASSUME TypeOK, DancerInv, TurnShip, DancerActs, ~Dancing
  PROVE  /\ Rests \/ Misses
         /\ isInitial /\ isInitial' /\ heading' = 0 /\ Completed' = Completed
<1>1. isInitial
  BY DEF DancerInv
<1>2. Rests \/ Misses
  BY <1>1, DancerGoesOn DEF Move, Begins, TurnsOn, Arrives, Stays, TurnsHome, Pauses, Ends
<1>. QED  BY <1>1, <1>2, ShipTurns DEF Rests, Misses, Completed

LEMMA NoteInit == Init => NoteInv
  BY DEF Init, ObserverInit, NoteInv

LEMMA NoteStep ==
  ASSUME TypeOK, DancerInv, RefInv, NoteInv, TurnShip, DancerActs, Called, Placed'
  PROVE  NoteInv'
<1>. SUFFICES ASSUME Watching', ~is_initial_setup'
              PROVE  Notes(Phase', Completed', Current', heading', wait_count',
                           Prev', direction', dance_moves', observerSkips')
  BY DEF NoteInv
<1>1. CASE Overlooks
  <2>1. /\ Watching /\ ~is_initial_setup
        /\ Prev' = Prev /\ direction' = direction /\ dance_moves' = dance_moves
        /\ observerSkips' = observerSkips + 1
    BY <1>1 DEF Overlooks, Idle, observerVars, Watching, Prev
  <2>2. observerSkips <= MaxObserverSkip
    BY DancerNumbers DEF TypeOK
  <2>3. /\ Notes(Phase, Completed, Current, heading, wait_count,
                 Prev, direction, dance_moves, observerSkips)
        /\ Move \/ Misses
    BY <2>1, DancerGoesOn DEF NoteInv
  <2>4. Notes(Phase', Completed', Current', heading', wait_count',
              Prev, direction, dance_moves, observerSkips + 1)
    BY <2>2, <2>3, WellPlaced, Showing
  <2>. QED  BY <2>1, <2>4
<1>2. CASE SetsUp
  <2>1. ~Dancing /\ is_initial_setup
    BY <1>2, SetUpAtRest DEF SetsUp
  <2>2. Completed = 0 /\ Take(0) = <<>>
    <3>1. part \in {"waiting", "deposit"}
      BY <2>1 DEF RefInv
    <3>2. Take(0) = <<>>
      BY TextIsHeard, SubSeqProperties, EmptySeq DEF Take
    <3>. QED  BY <3>1, <3>2 DEF Completed
  <2>3. Phase' = "rest" /\ Completed' = 0
    BY <2>1, <2>2, AtRest DEF Phase
  <2>4. Prev' = 0 /\ direction' = "none" /\ dance_moves' = Take(0)
    BY <1>2, <2>2 DEF SetsUp, Prev
  <2>. QED  BY <2>3, <2>4 DEF Notes
<1>3. CASE GoesOn
  <2>1. Looks
    BY <1>3 DEF GoesOn
  <2>. QED  BY <2>1, LookNotes
<1>4. Overlooks \/ SetsUp \/ GoesOn
  <2>1. ~Waits
    BY DEF Waits, Idle, observerVars, RefInv
  <2>2. ~Joins
    BY DEF Joins, RefInv
  <2>3. ~Concludes
    BY DancerNumbers DEF Concludes, Watching
  <2>4. ~GivesUp
    BY DEF GivesUp, Watching
  <2>5. ~Content
    BY DEF Content, Idle, observerVars, Watching
  <2>. QED  BY <2>1, <2>2, <2>3, <2>4, <2>5 DEF Called
<1>. QED  BY <1>1, <1>2, <1>3, <1>4
-----------------------------------------------------------------------------
(* How long a heading may stay: Frames of the dancer at most, each of them *)
(* after at most MaxDancerSkip missed ones.                                *)

Aimed == IF aim = NoAim THEN 0 ELSE 1

Frames ==
  IF isInitial
  THEN IF ~danceSequence THEN MinFrames + 2
       ELSE IF Dancing THEN MinFrames + 3 ELSE MinFrames + 1
  ELSE IF ~finishedMove THEN IF heading = 0 THEN MinFrames + 4 ELSE Aimed
  ELSE IF heading = 0 THEN wait_count - MinFrames
  ELSE IF heading = Goal THEN wait_count + Aimed
  ELSE Aimed

Ticks(f) == f * (MaxDancerSkip + 1)

Age == Ticks(Frames) + dancerSkips

Longest == Ticks(MinFrames + 4)

(* Both calls of beeIsDancing count, so twice as fast as the ticks pass.   *)
CountInv ==
  Watching /\ dance_moves # <<>> /\ part # "danced" /\ Prev = heading =>
    Same + 1 <= Age + Age

LEMMA TicksGrow ==
  ASSUME NEW f \in Nat, NEW g \in Nat
  PROVE  /\ Ticks(f) \in Nat
         /\ f > 0 => Ticks(f) >= 1
         /\ f < g => Ticks(f) + MaxDancerSkip + 1 <= Ticks(g)
<1>. DEFINE d == MaxDancerSkip + 1
<1>0. d \in Nat /\ d >= 1
  BY DancerNumbers
<1>. HIDE DEF d
<1>1. /\ f * d \in Nat
      /\ f > 0 => f * d >= 1
      /\ f < g => f * d + d <= g * d
  <2>1. f * d \in Nat /\ g * d \in Nat
    BY <1>0
  <2>2. ASSUME f < g PROVE f * d + d <= g * d
    <3>1. PICK r \in Nat : g = f + 1 + r
      <4>1. g - f - 1 \in Nat /\ g = f + 1 + (g - f - 1)
        BY <2>2
      <4>. QED  BY <4>1
    <3>2. g * d = f * d + d + r * d /\ r * d \in Nat
      BY <1>0, <3>1
    <3>. QED  BY <1>0, <2>1, <3>2
  <2>3. ASSUME f > 0 PROVE f * d >= 1
    <3>1. PICK r \in Nat : f = r + 1
      <4>1. f - 1 \in Nat /\ f = (f - 1) + 1
        BY <2>3
      <4>. QED  BY <4>1
    <3>2. f * d = r * d + d /\ r * d \in Nat
      BY <1>0, <3>1
    <3>. QED  BY <1>0, <3>2
  <2>. QED  BY <2>1, <2>2, <2>3
<1>2. Ticks(f) = f * d /\ Ticks(g) = g * d
  BY DEF Ticks, d
<1>3. f < g => Ticks(f) + d <= Ticks(g)
  BY <1>1, <1>2
<1>4. Ticks(f) + d = Ticks(f) + MaxDancerSkip + 1
  BY <1>0, <1>1, <1>2, DancerNumbers DEF d
<1>. QED  BY <1>1, <1>2, <1>3, <1>4

LEMMA Patience ==
  /\ Longest \in Nat /\ Longest >= 1
  /\ Longest + Longest <= Threshold
<1>1. MinFrames + 4 \in Nat /\ MinFrames + 4 > 0
  BY DancerNumbers
<1>2. Longest \in Nat /\ Longest >= 1
  BY <1>1, TicksGrow DEF Longest
<1>3. 2 * (MinFrames + 4) * (MaxDancerSkip + 1) = 2 * Longest
  BY DancerNumbers DEF Longest, Ticks
<1>. QED  BY <1>2, <1>3, PaceAssumption, Doubled

LEMMA FramesIs ==
  ASSUME TypeOK, DancerInv
  PROVE  /\ Frames \in Nat
         /\ Age \in Nat
         /\ aim = NoAim => Frames < MinFrames + 4 /\ Age < Longest
         /\ Age >= Ticks(Frames)
<1>. USE DancerNumbers
<1>1. Frames \in Nat /\ (aim = NoAim => Frames < MinFrames + 4)
  <2>0. Aimed \in Nat /\ (aim = NoAim => Aimed = 0)
    BY DEF Aimed
  <2>1. CASE isInitial
    BY <2>1 DEF Frames
  <2>2. CASE ~isInitial /\ ~finishedMove
    <3>1. heading = 0 => aim # NoAim
      BY <2>2, DancingHas DEF DancerInv
    <3>. QED  BY <2>0, <2>2, <3>1 DEF Frames
  <2>3. CASE ~isInitial /\ finishedMove
    <3>1. /\ wait_count \in 1..2 * MinFrames
          /\ heading # 0 => wait_count <= MinFrames
          /\ heading = 0 => wait_count >= MinFrames
      BY <2>3, DancingHas DEF DancerInv
    <3>2. 2 * MinFrames = MinFrames + MinFrames
      BY Doubled
    <3>3. wait_count \in Nat /\ wait_count <= MinFrames + MinFrames
      BY <3>1, <3>2
    <3>. QED  BY <2>0, <2>3, <3>1, <3>3 DEF Frames
  <2>. QED  BY <2>1, <2>2, <2>3
<1>2. dancerSkips \in 0..MaxDancerSkip
  BY DEF TypeOK
<1>3. Ticks(Frames) \in Nat
  BY <1>1, TicksGrow
<1>4. ASSUME Frames < MinFrames + 4 PROVE Ticks(Frames) + MaxDancerSkip + 1 <= Longest
  BY <1>1, <1>4, TicksGrow DEF Longest
<1>5. /\ Age \in Nat /\ Age >= Ticks(Frames)
      /\ Ticks(Frames) + MaxDancerSkip + 1 <= Longest => Age < Longest
  BY <1>2, <1>3, Patience DEF Age
<1>. QED  BY <1>1, <1>4, <1>5

LEMMA AgeIsNat == TypeOK /\ DancerInv => Frames \in Nat /\ Age \in Nat
  BY FramesIs

LEMMA StillMeansNoAim ==
  ASSUME TypeOK, DancerInv, TurnShip, heading' = heading
  PROVE  aim = NoAim
<1>1. CASE isInitial
  BY <1>1 DEF DancerInv
<1>2. CASE ~isInitial
  <2>1. Dancing
    BY <1>2 DEF DancerInv
  <2>2. /\ Away(heading, Goal) \in Nat /\ Away(heading, 0) \in Nat
    <3>1. heading \in Sector /\ Goal \in Sector /\ 0 \in Sector
      BY <2>1, DancingHas DEF TypeOK, Sector
    <3>. QED  BY <3>1, AwayIs
  <2>. QED  BY <1>2, <2>2, ShipTurns
<1>. QED  BY <1>1, <1>2

LEMMA FramesGrow ==
  ASSUME TypeOK, DancerInv, TurnShip, Move, Frames' \in Nat,
         part' # "danced", part \notin {"waiting", "deposit"}
  PROVE  /\ Frames' > 0
         /\ heading' = heading => Frames < Frames'
<1>. USE DancerNumbers, DancingHas
<1>0. heading' = heading => aim = NoAim
  BY StillMeansNoAim
<1>1. NoAim # 0 /\ (Dancing => Goal # NoAim)
  BY DEF NoAim
<1>2. wait_count \in Nat /\ Frames \in Nat
  BY FramesIs DEF TypeOK, DancerTypeOK
<1>3. CASE Rests
  <2>1. isInitial /\ isInitial' /\ part \in {"x", "y"} /\ ~Dancing
    BY <1>3 DEF Rests, TypeOK, DancerTypeOK, Dancing
  <2>2. CASE ~danceSequence
    <3>1. danceSequence' /\ Dancing'
      BY <1>3, <2>1, <2>2 DEF Rests
    <3>. QED  BY <2>1, <2>2, <3>1 DEF Frames
  <2>3. CASE danceSequence
    <3>1. ~danceSequence'
      BY <1>3, <2>1, <2>3 DEF Rests
    <3>. QED  BY <2>1, <2>3, <3>1 DEF Frames
  <2>. QED  BY <2>2, <2>3
<1>4. CASE Begins
  <2>1. Frames' = MinFrames + 4
    BY <1>4 DEF Begins, Frames
  <2>2. Frames \in {MinFrames + 1, MinFrames + 2, MinFrames + 3}
    BY <1>4 DEF Begins, Frames
  <2>. QED  BY <2>1, <2>2
<1>5. CASE ~isInitial /\ Dancing /\ SamePlace /\ ~isInitial'
  <2>1. Goal' = Goal /\ Goal # 0
    BY <1>5, SamePlaceMeans
  <2>2. CASE TurnsOn
    <3>1. heading' # 0
      BY <2>2, WayOut DEF TurnsOn
    <3>2. Frames' = 1
      BY <1>1, <1>5, <2>1, <2>2, <3>1 DEF TurnsOn, Frames, Aimed
    <3>3. heading' = heading => Frames = 0
      BY <1>0, <2>2, <3>1 DEF TurnsOn, Frames, Aimed
    <3>. QED  BY <3>2, <3>3
  <2>3. CASE Arrives
    <3>1. Frames' = 1
      BY <2>1, <2>3 DEF Arrives, Frames, Aimed
    <3>2. heading' = heading => Frames = 0
      BY <1>0, <2>1, <2>3 DEF Arrives, Frames, Aimed
    <3>. QED  BY <3>1, <3>2
  <2>4. CASE Stays
    <3>1. Frames' = wait_count + 1
      BY <1>2, <2>1, <2>4 DEF Stays, Frames, Aimed
    <3>2. heading' = heading => Frames = wait_count
      BY <1>0, <1>2, <2>1, <2>4 DEF Stays, Frames, Aimed
    <3>. QED  BY <1>2, <3>1, <3>2
  <2>5. CASE TurnsHome
    <3>1. Frames' = (IF heading' = Goal THEN wait_count + 1 ELSE 1)
      BY <1>1, <1>2, <2>1, <2>5 DEF TurnsHome, Frames, Aimed
    <3>2. heading' = heading => Frames = (IF heading' = Goal THEN wait_count ELSE 0)
      BY <1>0, <1>2, <2>1, <2>5 DEF TurnsHome, Frames, Aimed
    <3>. QED  BY <1>2, <3>1, <3>2
  <2>6. CASE Pauses
    <3>1. Frames' = wait_count + 1 - MinFrames /\ wait_count >= MinFrames
      BY <1>2, <2>6 DEF Pauses, Frames
    <3>2. heading' = heading => Frames = wait_count - MinFrames
      BY <2>6 DEF Pauses, Frames
    <3>. QED  BY <1>2, <3>1, <3>2
  <2>. QED  BY <1>5, <2>2, <2>3, <2>4, <2>5, <2>6 DEF Move, Rests, Begins, Ends
<1>6. CASE Ends
  <2>1. Frames' >= MinFrames + 1
    BY <1>6 DEF Ends, Frames
  <2>2. Frames = MinFrames
    <3>1. wait_count = MinFrames + MinFrames
      BY <1>6, Doubled DEF Ends
    <3>2. Frames = wait_count - MinFrames
      BY <1>6 DEF Ends, Frames
    <3>. QED  BY <3>1, <3>2
  <2>. QED  BY <2>1, <2>2
<1>. QED
  <2>1. ~isInitial => Dancing
    BY DEF DancerInv
  <2>. QED  BY <1>3, <1>4, <1>5, <1>6, <2>1
            DEF Move, TurnsOn, Arrives, Stays, TurnsHome, Pauses

LEMMA AgeGrows ==
  ASSUME TypeOK, DancerInv, TurnShip, DancerActs, Frames' \in Nat,
         part' # "danced", part \notin {"waiting", "deposit"}
  PROVE  /\ Age' \in Nat /\ Age' >= 1
         /\ heading' = heading => aim = NoAim /\ Age + 1 <= Age'
<1>1. /\ Frames \in Nat /\ Age \in Nat /\ Age = Ticks(Frames) + dancerSkips
      /\ dancerSkips \in 0..MaxDancerSkip
      /\ MaxDancerSkip \in Nat
  BY FramesIs, DancerNumbers DEF Age, TypeOK
<1>2. Age' = Ticks(Frames') + dancerSkips'
  BY DEF Age, Ticks
<1>3. heading' = heading => aim = NoAim
  BY StillMeansNoAim
<1>4. CASE Move /\ dancerSkips' = 0
  <2>1. Ticks(Frames') \in Nat /\ Ticks(Frames') >= 1
    BY <1>4, FramesGrow, TicksGrow
  <2>2. heading' = heading => Ticks(Frames) + MaxDancerSkip + 1 <= Ticks(Frames')
    BY <1>1, <1>4, FramesGrow, TicksGrow
  <2>3. Ticks(Frames) \in Nat
    BY <1>1, TicksGrow
  <2>. QED  BY <1>1, <1>2, <1>3, <1>4, <2>1, <2>2, <2>3
<1>5. CASE Misses /\ dancerSkips' = dancerSkips + 1
  <2>1. ASSUME heading' = heading PROVE Frames' = Frames
    <3>1. aim' = aim
      BY <1>3, <1>5, <2>1 DEF Misses
    <3>2. UNCHANGED <<part, danceSequence, i, isInitial, finishedMove, wait_count, heading>>
      BY <1>5, <2>1 DEF Misses
    <3>3. Dancing' = Dancing /\ Goal' = Goal /\ Aimed' = Aimed
      BY <3>1, <3>2, Zenon DEF Dancing, Sheet, Goal, Current, Aimed, Target
    <3>. QED  BY <3>1, <3>2, <3>3 DEF Frames
  <2>2. Ticks(Frames) \in Nat /\ Ticks(Frames') \in Nat
    BY <1>1, TicksGrow
  <2>. QED  BY <1>1, <1>2, <1>3, <1>5, <2>1, <2>2
<1>. QED  BY <1>4, <1>5, DancerGoesOn
-----------------------------------------------------------------------------
(* The onlooker takes the dance as finished only when it is. *)

LEMMA AllOfIt ==
  /\ Take(Len(Text)) = Text
  /\ Text # <<>> /\ Text[1] = left
<1>. DEFINE t == Text
<1>1. t \in Seq(Letter) /\ Len(t) \in Nat /\ Len(t) > 0 /\ t[1] = left
  BY TextIsHeard, Sheets
<1>. HIDE DEF t
<1>2. /\ SubSeq(t, 1, Len(t)) \in Seq(Letter) /\ Len(SubSeq(t, 1, Len(t))) = Len(t)
      /\ \A k \in 1..Len(t) : SubSeq(t, 1, Len(t))[k] = t[k]
  BY <1>1, SubSeqProperties
<1>3. SubSeq(t, 1, Len(t)) = t
  BY <1>1, <1>2, SeqEqual
<1>4. t # <<>>
  BY <1>1
<1>. QED  BY <1>1, <1>3, <1>4 DEF Take, t

LEMMA TooSoon ==
  ASSUME NEW n \in Nat, NEW a \in Nat, NEW l \in Nat, NEW t \in Nat,
         n + 1 <= a + a, a < l, l + l <= t
  PROVE  ~(n + 1 + 1 >= t)
OBVIOUS

LEMMA ConcludesNoNote ==
  ASSUME TypeOK, DancerInv, RefInv, NoteInv, TurnShip, DancerActs, Concludes, Placed'
  PROVE  /\ heading' = heading /\ Prev = heading /\ dance_moves' = dance_moves
         /\ Same \in Nat /\ Same + 1 + 1 >= Threshold
<1>. USE DancerNumbers
<1>1. Looks /\ Again(heading') + 1 >= Threshold
  BY DEF Concludes
<1>2. Same \in Nat /\ Threshold \in Nat /\ Threshold >= 2
  <2>1. Same \in Nat
    BY WatchIs DEF TypeOK, ObserverTypeOK, Same
  <2>. QED  BY <2>1, Patience
<1>3. heading' = Prev /\ Same + 1 + 1 >= Threshold
  <2>1. CASE heading' # Prev
    BY <1>1, <1>2, <2>1 DEF Again
  <2>. QED  BY <1>1, <2>1 DEF Again
<1>. QED  BY <1>1, <1>2, <1>3, LookNotes

LEMMA ConcludesRight ==
  ASSUME TypeOK, DancerInv, RefInv, NoteInv, CountInv, TurnShip, DancerActs,
         Concludes, Placed'
  PROVE  /\ danceObserved' = "honey" /\ dance_moves' = Text /\ part' = "danced"
<1>. USE DancerNumbers
<1>1. /\ Watching /\ ~is_initial_setup
      /\ dance_moves' # <<>>
      /\ danceObserved' = IF dance_moves'[1] = left THEN "honey" ELSE "enemy"
  BY DEF Concludes, Looks
<1>2. /\ heading' = heading /\ Prev = heading /\ dance_moves' = dance_moves
      /\ Same \in Nat /\ Same + 1 + 1 >= Threshold
  BY ConcludesNoNote
<1>3. part = "danced"
  <2>. SUFFICES ASSUME part # "danced" PROVE FALSE
    OBVIOUS
  <2>1. Same + 1 <= Age + Age
    BY <1>1, <1>2 DEF CountInv
  <2>2. Age \in Nat /\ Age < Longest
    BY <1>2, StillMeansNoAim, FramesIs
  <2>. QED  BY <1>2, <2>1, <2>2, Patience, TooSoon
<1>4. ~Dancing
  BY <1>3 DEF Dancing
<1>5. part' = "danced"
  BY <1>3, <1>4, AtRest DEF Rests, Misses
<1>6. dance_moves = Text
  <2>1. Phase = "rest" /\ Completed = Len(Text)
    BY <1>3, <1>4, AtRest DEF Phase, Completed
  <2>2. dance_moves = Take(Len(Text))
    BY <1>1, <2>1 DEF NoteInv, Notes
  <2>. QED  BY <2>2, AllOfIt
<1>. QED  BY <1>1, <1>2, <1>5, <1>6, AllOfIt

LEMMA CheckInit == Init => CheckInv
<1>. SUFFICES ASSUME Init PROVE CheckInv
  OBVIOUS
<1>1. New(watch)
  BY DEF Init, ObserverInit, New
<1>. QED  BY <1>1 DEF Init, ObserverInit, CheckInv

LEMMA CheckStep ==
  ASSUME TypeOK, DancerInv, RefInv, CheckInv, NoteInv, CountInv,
         TurnShip, DancerActs, Called, Placed'
  PROVE  CheckInv'
<1>. USE DancerNumbers
<1>1. CASE Idle
  <2>1. UNCHANGED <<dancingCheck, watch, is_initial_setup, dance_moves, danceObserved>>
    BY <1>1 DEF Idle, observerVars
  <2>2. part = "danced" => part' = "danced"
    BY AtRest DEF Dancing, Rests, Misses
  <2>3. New(watch)' = New(watch) /\ Same' = Same /\ Watching' = Watching
    BY <2>1 DEF New, Same, Watching
  <2>4. Text' = Text
    BY DEF Text
  <2>. QED  BY <2>1, <2>2, <2>3, <2>4 DEF CheckInv
<1>2. CASE Joins
  <2>1. /\ is_initial_setup /\ is_initial_setup' /\ danceObserved' = "none" /\ dancingCheck'
        /\ watch' = watch
    BY <1>2 DEF Joins, RefInv
  <2>. QED  BY <2>1 DEF CheckInv, New, Same, Watching, RefInv
<1>3. CASE SetsUp
  BY <1>3 DEF SetsUp, CheckInv, Same, Watching, New
<1>4. CASE GoesOn
  BY <1>4 DEF GoesOn, CheckInv, Same, Watching, New
<1>5. CASE GivesUp
  BY <1>5 DEF GivesUp, CheckInv, Same, Watching, New
<1>6. CASE Concludes
  <2>1. danceObserved' = "honey" /\ dance_moves' = Text /\ part' = "danced"
    BY <1>6, ConcludesRight
  <2>2. ~New(watch') => watch'.num_frames_same_dir < Threshold
    BY <1>6 DEF Concludes
  <2>3. Text' = Text
    BY DEF Text
  <2>. QED  BY <2>1, <2>2, <2>3 DEF CheckInv, Same, Watching, New
<1>. QED  BY <1>1, <1>2, <1>3, <1>4, <1>5, <1>6 DEF Called, Waits, Overlooks, Content

LEMMA NotedMeansDanced ==
  ASSUME TypeOK, DancerInv, dance_moves # <<>>,
         Notes(Phase, Completed, Current, heading, wait_count,
               Prev, direction, dance_moves, observerSkips)
  PROVE  part \notin {"waiting", "deposit"}
<1>. SUFFICES ASSUME part \in {"waiting", "deposit"} PROVE FALSE
  OBVIOUS
<1>1. isInitial
  BY DEF DancerInv, Dancing
<1>2. Phase = "rest" /\ Completed = 0
  BY <1>1 DEF Phase, Completed
<1>3. dance_moves = Take(0)
  BY <1>2 DEF Notes
<1>4. Take(0) = <<>>
  BY TextIsHeard, SubSeqProperties, EmptySeq DEF Take
<1>. QED  BY <1>3, <1>4

LEMMA StillGrowing ==
  ASSUME NEW n \in Nat, NEW m \in Nat, NEW a \in Nat, NEW b \in Nat,
         n + 1 <= a + a, m <= n + 1 + 1, a + 1 <= b
  PROVE  m + 1 <= b + b
OBVIOUS

LEMMA StartsGrowing ==
  ASSUME NEW m \in Nat, NEW b \in Nat, m <= 1, b >= 1
  PROVE  m + 1 <= b + b
OBVIOUS

LEMMA CountInit == Init => CountInv
  BY DEF Init, ObserverInit, CountInv

LEMMA CountStep ==
  ASSUME TypeOK, DancerInv, RefInv, NoteInv, CountInv, TurnShip, DancerActs, Called,
         TypeOK', Placed', Frames' \in Nat
  PROVE  CountInv'
<1>. USE DancerNumbers
<1>. SUFFICES ASSUME Watching', dance_moves' # <<>>, part' # "danced", Prev' = heading'
              PROVE  Same' + 1 <= Age' + Age'
  BY DEF CountInv
<1>0. Same \in Nat /\ Same' \in Nat
  BY WatchIs DEF TypeOK, ObserverTypeOK, Same
<1>1. CASE Overlooks
  <2>1. /\ Watching /\ dance_moves # <<>> /\ Prev' = Prev /\ Same' = Same
        /\ ~is_initial_setup
    BY <1>1 DEF Overlooks, Idle, observerVars, Watching, Prev, Same, RefInv
  <2>2. Notes(Phase, Completed, Current, heading, wait_count,
              Prev, direction, dance_moves, observerSkips)
    BY <2>1 DEF NoteInv
  <2>3. heading' = heading
    <3>1. observerSkips <= MaxObserverSkip
      BY DEF TypeOK
    <3>2. Move \/ Misses
      BY DancerGoesOn
    <3>. QED  BY <2>1, <2>2, <3>1, <3>2, WellPlaced, Showing
  <2>4. part \notin {"waiting", "deposit"}
    BY <2>1, <2>2, NotedMeansDanced
  <2>5. Age \in Nat /\ Age' \in Nat /\ Age + 1 <= Age'
    BY <2>3, <2>4, AgeGrows, FramesIs
  <2>6. part # "danced"
    BY AtRest DEF Dancing, Rests, Misses
  <2>7. Same + 1 <= Age + Age
    BY <2>1, <2>3, <2>6 DEF CountInv
  <2>8. Same' <= Same + 1 + 1
    BY <1>0, <2>1
  <2>. QED  BY <1>0, <2>5, <2>7, <2>8, StillGrowing
<1>2. CASE GoesOn
  <2>1. /\ Looks /\ Watching /\ ~is_initial_setup
        /\ Same' <= Again(heading') + 1
    BY <1>2 DEF GoesOn, Looks, Same
  <2>2. Notes(Phase, Completed, Current, heading, wait_count,
              Prev, direction, dance_moves, observerSkips)
    BY <2>1 DEF NoteInv
  <2>3. /\ heading' # heading => Prev # heading'
        /\ dance_moves' # dance_moves => heading' = 0 /\ Prev # 0
        /\ dance_moves' # dance_moves => Phase' = "back"
    BY <2>1, LookNotes
  <2>4. part \notin {"waiting", "deposit"}
    <3>1. CASE dance_moves = <<>>
      <4>1. ~isInitial'
        BY <2>3, <3>1 DEF Phase
      <4>. QED  BY <4>1, AtRest DEF Dancing
    <3>2. CASE dance_moves # <<>>
      BY <2>2, <3>2, NotedMeansDanced
    <3>. QED  BY <3>1, <3>2
  <2>5. Age' \in Nat /\ Age' >= 1 /\ Age \in Nat
        /\ (heading' = heading => Age + 1 <= Age')
    BY <2>4, AgeGrows, FramesIs
  <2>6. CASE heading' # Prev
    <3>1. Same' <= 1
      BY <2>1, <2>6 DEF Again
    <3>. QED  BY <1>0, <2>5, <3>1, StartsGrowing
  <2>7. CASE heading' = Prev
    <3>1. heading' = heading /\ dance_moves # <<>>
      BY <2>3, <2>7
    <3>2. Same' <= Same + 1 + 1
      BY <1>0, <2>1, <2>7 DEF Again
    <3>3. part # "danced"
      BY AtRest DEF Dancing, Rests, Misses
    <3>4. Same + 1 <= Age + Age
      BY <2>1, <2>7, <3>1, <3>3 DEF CountInv
    <3>. QED  BY <1>0, <2>5, <3>1, <3>2, <3>4, StillGrowing
  <2>. QED  BY <2>6, <2>7
<1>3. Overlooks \/ GoesOn
  <2>1. ~Waits
    BY DEF Waits, Idle, observerVars, RefInv
  <2>2. ~Joins
    BY DEF Joins, RefInv
  <2>3. ~SetsUp
    BY DEF SetsUp
  <2>4. ~Concludes
    BY DEF Concludes, Watching
  <2>5. ~GivesUp
    BY DEF GivesUp, Watching
  <2>6. ~Content
    BY DEF Content, Idle, observerVars, Watching
  <2>. QED  BY <2>1, <2>2, <2>3, <2>4, <2>5, <2>6 DEF Called
<1>. QED  BY <1>1, <1>2, <1>3
-----------------------------------------------------------------------------
WaggleIInv ==
  /\ TypeOK
  /\ DancerInv
  /\ RefInv
  /\ CheckInv
  /\ NoteInv
  /\ CountInv

LEMMA WaggleIInit == Init => WaggleIInv
  BY TypesInit, DancerInit0, RefInit, CheckInit, NoteInit, CountInit DEF WaggleIInv

LEMMA WaggleIStep == WaggleIInv /\ [Next]_vars => WaggleIInv'
<1>. SUFFICES ASSUME WaggleIInv, [Next]_vars PROVE WaggleIInv'
  OBVIOUS
<1>. USE DEF WaggleIInv
<1>1. CASE Next
  <2>1. TurnShip /\ DancerActs /\ ObserverActs
    BY <1>1 DEF Next, Tick
  <2>2. Called
    BY <2>1, Called1
  <2>3. TypeOK' /\ DancerInv' /\ RefInv'
    BY <2>1, <2>2, TypesStep, DancerGoesOn, RefStep
  <2>4. (TypeOK /\ DancerInv)'
    BY <2>3
  <2>5. Placed'
    BY <2>4, WellPlaced, PTL
  <2>6. (Frames \in Nat)'
    BY <2>4, AgeIsNat, PTL
  <2>7. CheckInv' /\ NoteInv' /\ CountInv'
    BY <2>1, <2>2, <2>3, <2>5, <2>6, CheckStep, NoteStep, CountStep
  <2>. QED  BY <2>3, <2>7
<1>2. CASE UNCHANGED vars
  <2>1. UNCHANGED <<part, waiting_counter, observed_counter, danceSequence, i,
                    isInitial, finishedMove, wait_count, aim>>
    BY <1>2 DEF vars, dancerVars
  <2>2. UNCHANGED <<observing_dance, dancingCheck, watch, is_initial_setup,
                    initial_heading, direction, dance_moves, danceObserved>>
    BY <1>2 DEF vars, observerVars
  <2>3. UNCHANGED <<heading, facing, dancerSkips, observerSkips>>
    BY <1>2 DEF vars, worldVars
  <2>4. UNCHANGED <<Sheet, Current, Dancing>>
    BY <2>1 DEF Sheet, Current, Dancing
  <2>5. UNCHANGED <<Goal, Completed, Text>>
    BY <2>1, <2>4 DEF Goal, Completed, Text
  <2>6. UNCHANGED <<Phase, Prev, Same, Watching, Aimed>> /\ New(watch)' = New(watch)
    BY <2>1, <2>2, <2>3, <2>5 DEF Phase, Prev, Same, Watching, New, Aimed
  <2>7. UNCHANGED Frames
    BY <2>1, <2>3, <2>4, <2>5, <2>6 DEF Frames
  <2>8. UNCHANGED Age
    BY <2>3, <2>7 DEF Age, Ticks
  <2>9. TypeOK'
    BY <2>1, <2>2, <2>3 DEF TypeOK, DancerTypeOK, ObserverTypeOK
  <2>10. DancerInv'
    BY <2>1, <2>3, <2>4, <2>5 DEF DancerInv, Way
  <2>11. RefInv' /\ CheckInv'
    BY <2>1, <2>2, <2>3, <2>5, <2>6 DEF RefInv, CheckInv
  <2>12. NoteInv' /\ CountInv'
    BY <2>1, <2>2, <2>3, <2>4, <2>5, <2>6, <2>8 DEF NoteInv, CountInv
  <2>. QED  BY <2>9, <2>10, <2>11, <2>12
<1>. QED  BY <1>1, <1>2

LEMMA WaggleIAlways == Spec => []WaggleIInv
  BY WaggleIInit, WaggleIStep, PTL DEF Spec

(* The counts of both bees keep to their limits, whichever frames either   *)
(* of them misses; and the onlooker never reads its moves while it has no  *)
(* pattern, nor takes the dance for one of another kind: the first symbol  *)
(* it writes down is the one the dancer danced first (observeDance).       *)
THEOREM ReadsItRight == Spec => []WaggleInv
<1>1. WaggleIInv => WaggleInv
  BY DEF WaggleIInv, CheckInv, WaggleInv, NoMisreading
<1>. QED  BY <1>1, WaggleIAlways, PTL

(* The dancer's wait to be looked at outlasts the onlooker's set-up: no    *)
(* dance begins before the reference heading is taken                      *)
(* (checkIfBeingObserved against observeDanceMoves).                       *)
THEOREM ReferenceInTime == Spec => []ReferenceFirst
<1>1. WaggleIInv => ReferenceFirst
  BY DEF WaggleIInv, RefInv, ReferenceFirst
<1>. QED  BY <1>1, WaggleIAlways, PTL
-----------------------------------------------------------------------------
(* The recital. *)

LEMMA ShownSoFar ==
  ASSUME TypeOK, DancerInv, TurnShip, DancerActs
  PROVE  \/ Performed' = Performed
         \/ /\ Performed' = Performed + 1 /\ Performed < Len(Text)
            /\ heading' # 0 /\ part' # "danced"
<1>. USE DancingHas
<1>0. Completed \in Nat
  BY Sheets, TextIsHeard DEF Completed, TypeOK, DancerTypeOK
<1>1. CASE Rests
  BY <1>0, <1>1 DEF Rests, Performed
<1>2. CASE Ends
  BY <1>0, <1>2 DEF Ends, Performed
<1>3. CASE Misses
  BY <1>3 DEF Misses, Performed, Completed
<1>4. CASE Arrives
  <2>1. Dancing /\ Completed' = Completed
    BY <1>4, SamePlaceMeans DEF Arrives, DancerInv
  <2>2. Performed = Completed /\ Performed' = Completed + 1
    BY <1>0, <1>4, <2>1 DEF Arrives, Performed
  <2>3. Completed < Len(Text)
    <3>1. Len(Text) \in Nat
      BY TextIsHeard
    <3>. QED  BY <1>0, <2>1, <3>1
  <2>4. heading' # 0
    BY <1>4, <2>1 DEF Arrives
  <2>5. part' # "danced"
    BY <1>4, <2>1 DEF Arrives, SamePlace, Dancing
  <2>. QED  BY <2>2, <2>3, <2>4, <2>5
<1>5. CASE Begins \/ TurnsOn
  BY <1>5, SamePlaceMeans DEF Begins, TurnsOn, Performed
<1>6. CASE Stays \/ TurnsHome \/ Pauses
  BY <1>6, SamePlaceMeans DEF Stays, TurnsHome, Pauses, Performed
<1>. QED  BY <1>1, <1>2, <1>3, <1>4, <1>5, <1>6, DancerGoesOn DEF Move

LEMMA RecitalStart == Init => Script!RecitalInit
<1>. SUFFICES ASSUME Init PROVE Script!RecitalInit
  OBVIOUS
<1>1. Performed = 0
  BY DEF Init, DancerInit, Performed, Completed
<1>. QED  BY <1>1 DEF Init, ObserverInit, Script!RecitalInit

LEMMA TakeHas ==
  ASSUME NEW c \in Nat, c + 1 \in 1..Len(Text)
  PROVE  Len(Take(c)) = c
<1>. DEFINE t == Text
<1>1. t \in Seq(Letter) /\ Len(t) \in Nat /\ c <= Len(t)
  BY TextIsHeard
<1>. HIDE DEF t
<1>2. Len(SubSeq(t, 1, c)) = c
  BY <1>1, SubSeqProperties
<1>. QED  BY <1>2 DEF Take, t

LEMMA RecitalStep ==
  ASSUME WaggleIInv, Next, Placed'
  PROVE  [Script!Perform \/ Script!Note \/ Script!Learn]_(Script!recitalVars)
<1>. USE DEF WaggleIInv
<1>1. TurnShip /\ DancerActs /\ ObserverActs
  BY DEF Next, Tick
<1>2. Called
  BY <1>1, Called1
<1>3. \/ Performed' = Performed
      \/ /\ Performed' = Performed + 1 /\ Performed < Len(Text)
         /\ heading' # 0 /\ part' # "danced"
  BY <1>1, ShownSoFar
<1>4. ASSUME dance_moves' = dance_moves, danceObserved' = danceObserved
      PROVE  [Script!Perform \/ Script!Note \/ Script!Learn]_(Script!recitalVars)
  <2>1. (danceObserved = "honey")' = (danceObserved = "honey")
    BY <1>4
  <2>. QED  BY <1>3, <1>4, <2>1 DEF Script!Perform, Script!recitalVars
<1>5. CASE Idle \/ Joins
  <2>1. dance_moves' = dance_moves /\ danceObserved' = danceObserved
    BY <1>5 DEF Idle, observerVars, Joins
  <2>. QED  BY <1>4, <2>1
<1>6. CASE SetsUp
  <2>1. dance_moves' = dance_moves /\ danceObserved' = danceObserved
    BY <1>6 DEF SetsUp, RefInv
  <2>. QED  BY <1>4, <2>1
<1>7. CASE GivesUp
  <2>1. Looks /\ dance_moves' = <<>> /\ danceObserved' = "none" /\ danceObserved = "none"
    BY <1>7 DEF GivesUp, Looks, Watching
  <2>2. dance_moves' = dance_moves
    <3>1. dance_moves \in Seq({left, right, endOfWord})
      BY DEF TypeOK, ObserverTypeOK
    <3>2. dance_moves' # dance_moves => dance_moves' = Append(dance_moves, Text[Completed' + 1])
      BY <1>1, <2>1, LookNotes
    <3>3. ASSUME dance_moves' # dance_moves PROVE FALSE
      <4>1. Phase' = "back"
        BY <1>1, <2>1, <3>3, LookNotes
      <4>2. Text[Completed' + 1] \in {left, right, endOfWord}
        BY <4>1, TextIsHeard DEF Placed, Fits, Letter
      <4>3. Append(dance_moves, Text[Completed' + 1]) # <<>>
        BY <3>1, <4>2, AppendProperties
      <4>. QED  BY <2>1, <3>2, <3>3, <4>3
    <3>. QED  BY <3>3
  <2>. QED  BY <1>4, <2>1, <2>2
<1>8. CASE GoesOn
  <2>1. Looks /\ danceObserved' = danceObserved
    BY <1>8 DEF GoesOn, Looks, Watching
  <2>2. CASE dance_moves' = dance_moves
    BY <1>4, <2>1, <2>2
  <2>3. CASE dance_moves' # dance_moves
    <3>1. /\ Phase' = "back" /\ heading' = 0
          /\ dance_moves = Take(Completed')
          /\ dance_moves' = Append(dance_moves, Text[Completed' + 1])
      BY <1>1, <2>1, <2>3, LookNotes
    <3>2. Completed' \in Nat /\ Completed' + 1 \in 1..Len(Text)
      BY <3>1 DEF Placed, Fits
    <3>3. Len(dance_moves) = Completed'
      BY <3>1, <3>2, TakeHas
    <3>4. Performed' = Performed /\ Performed' = Completed' + 1
      BY <1>3, <3>1 DEF Phase, Performed
    <3>5. Len(dance_moves) < Performed
      <4>1. \A n \in Nat : n < n + 1
        OBVIOUS
      <4>. QED  BY <3>2, <3>3, <3>4, <4>1
    <3>6. dance_moves' = Append(dance_moves, Text[Len(dance_moves) + 1])
      BY <3>1, <3>3
    <3>. QED  BY <2>1, <3>4, <3>5, <3>6 DEF Script!Note
  <2>. QED  BY <2>2, <2>3
<1>9. CASE Concludes
  <2>1. danceObserved' = "honey" /\ dance_moves' = Text /\ part' = "danced"
    BY <1>1, <1>9, ConcludesRight
  <2>2. danceObserved = "none" /\ dance_moves' = dance_moves
    BY <1>1, <1>9, ConcludesNoNote DEF Concludes, Looks, Watching
  <2>3. Performed' = Performed
    BY <1>3, <2>1
  <2>4. (danceObserved = "honey")' = TRUE /\ ~(danceObserved = "honey")
    BY <2>1, <2>2
  <2>. QED  BY <2>1, <2>2, <2>3, <2>4 DEF Script!Learn
<1>. QED  BY <1>2, <1>5, <1>6, <1>7, <1>8, <1>9 DEF Called, Waits, Overlooks, Content

(* The onlooker notes every symbol of the dance after it was danced, once  *)
(* and in order, whichever frames either bee misses, and takes the dance   *)
(* as finished when it has noted all of it and never before                *)
(* (observeDanceMoves, beeIsDancing against performMovementFor).           *)
THEOREM RecitalIsFollowed == Spec => RecitalHolds
<1>1. WaggleIInv /\ [Next]_vars =>
        [Script!Perform \/ Script!Note \/ Script!Learn]_(Script!recitalVars)
  <2>. SUFFICES ASSUME WaggleIInv, [Next]_vars
                PROVE  [Script!Perform \/ Script!Note \/ Script!Learn]_(Script!recitalVars)
    OBVIOUS
  <2>1. CASE Next
    <3>1. (TypeOK /\ DancerInv)'
      BY WaggleIStep DEF WaggleIInv
    <3>2. Placed'
      BY <3>1, WellPlaced, PTL
    <3>. QED  BY <2>1, <3>2, RecitalStep
  <2>2. CASE UNCHANGED vars
    <3>1. UNCHANGED <<part, i, isInitial, finishedMove, dance_moves, danceObserved>>
      BY <2>2 DEF vars, dancerVars, observerVars
    <3>2. Text' = Text
      BY DEF Text
    <3>3. Completed' = Completed
      BY <3>1, <3>2 DEF Completed
    <3>4. Performed' = Performed
      BY <3>1, <3>3 DEF Performed
    <3>5. (danceObserved = "honey")' = (danceObserved = "honey")
      BY <3>1
    <3>. QED  BY <3>1, <3>4, <3>5 DEF Script!recitalVars
  <2>. QED  BY <2>1, <2>2
<1>. QED  BY <1>1, WaggleIAlways, RecitalStart, PTL DEF Spec, RecitalHolds, Script!RecitalSpec
=============================================================================
