-------------------------------- MODULE Waggle --------------------------------
(***************************************************************************)
(* A dancer and an onlooker.  The only thing between them is the dancer's  *)
(* heading: the server turns the ship as told in the last frame and sends  *)
(* the new heading to both clients.  Frames are UDP datagrams, so either   *)
(* client may miss some, and each then acts on its own subset of them.     *)
(***************************************************************************)
EXTENDS Dancer, Observer

CONSTANTS
    MaxDancerSkip,      \* bound: frames in a row the dancer misses
    MaxObserverSkip     \* bound: frames in a row the onlooker misses

ASSUME WaggleAssumption == MaxDancerSkip \in Nat /\ MaxObserverSkip \in Nat

(* The waits of the code (5, 15 and 42 frames) outlast the frames missed.  *)
ASSUME PaceAssumption ==
    /\ MaxObserverSkip < MinFrames
    /\ 2 * (MaxObserverSkip + 1) <= ObservedFrames
    /\ 2 * (MinFrames + 4) * (MaxDancerSkip + 1) <= Threshold

VARIABLES
    heading,            \* of the dancer, as the server has it
    facing,             \* the onlooker has chosen the dancer and looks at it
    dancerSkips,        \* frames in a row missed so far
    observerSkips

worldVars == <<heading, facing, dancerSkips, observerSkips>>
vars == <<dancerVars, observerVars, worldVars>>

(* The types of both bees; the counts of performMovementFor, of forage and *)
(* of beeIsDancing stay within their limits.                               *)
TypeOK ==
    /\ DancerTypeOK
    /\ ObserverTypeOK
    /\ heading \in Sector
    /\ facing \in BOOLEAN
    /\ dancerSkips \in 0..MaxDancerSkip
    /\ observerSkips \in 0..MaxObserverSkip

Init ==
    /\ DancerInit
    /\ ObserverInit
    /\ heading = 0
    /\ facing = FALSE
    /\ dancerSkips = 0
    /\ observerSkips = 0

(* A frame's turn on the server (Players_turn). *)
TurnShip == heading' \in IF aim = NoAim THEN {heading} ELSE Turned(heading, aim)

DancerActs ==
    \/ /\ DancerFrame(heading', facing)
       /\ dancerSkips' = 0
    \/ /\ dancerSkips < MaxDancerSkip
       /\ DancerSkips
       /\ dancerSkips' = dancerSkips + 1

(* The onlooker arrives at any time and stays; looking at the dancer it    *)
(* observes it in every frame it gets (onlook).                            *)
ObserverActs ==
    \/ /\ ~facing
       /\ facing' \in BOOLEAN
       /\ UNCHANGED <<observerVars, observerSkips>>
    \/ /\ facing
       /\ ObserverFrame(heading')
       /\ observerSkips' = 0
       /\ UNCHANGED facing
    \/ /\ facing
       /\ observerSkips < MaxObserverSkip
       /\ observerSkips' = observerSkips + 1
       /\ UNCHANGED <<observerVars, facing>>

(* One tick of the server and the frame both clients get, or miss. *)
Tick == TurnShip /\ DancerActs /\ ObserverActs

Next == Tick

Spec == Init /\ [][Next]_vars
FairSpec == Spec /\ WF_vars(Next)

-----------------------------------------------------------------------------
Text == Heard(<<left>> \o XDance \o YDance)

Completed ==
    IF part \in {"waiting", "type", "deposit"} THEN 0
    ELSE IF part = "x" THEN 1 + i
    ELSE IF part = "y" THEN 1 + Len(XDance) + i
    ELSE Len(Text)

(* Symbols shown so far: those completed, and the one whose heading has    *)
(* been reached.                                                           *)
Performed == Completed + (IF ~isInitial /\ finishedMove THEN 1 ELSE 0)

(* The onlooker's record follows the dance symbol by symbol, whichever     *)
(* frames are missed, and it takes the dance as finished only when it has  *)
(* all of it (observeDanceMoves, beeIsDancing against performMovementFor). *)
Script == INSTANCE Recital WITH Text <- Text, performed <- Performed,
                                noted <- dance_moves,
                                learned <- (danceObserved = "honey")
RecitalHolds == Script!RecitalSpec

(* No interleaving makes the onlooker follow dancePattern while it is NULL *)
(* or take the dance for one of another kind (observeDance).               *)
NoMisreading == danceObserved \in {"none", "honey"}

(* With the types, and the limits of the counts in them. *)
WaggleInv == TypeOK /\ NoMisreading

(* The dance starts only when the onlooker has its reference heading: the  *)
(* dancer's wait for ObservedFrames frames covers the onlooker's set-up    *)
(* (checkIfBeingObserved against observeDanceMoves).                       *)
ReferenceFirst == part \in {"type", "x", "y", "danced"} => ~is_initial_setup

(* An onlooker still watching when the dance ends learns of the honey: the *)
(* moves it saw and the heading that stays are enough.  (The first answer  *)
(* of beeIsDancing, which the code leaves open, may have made it stop      *)
(* watching: observeDance's dancingCheck.)                                 *)
DanceLearned == (part = "danced" /\ dancingCheck) ~> danceObserved = "honey"

(* A dance once begun is finished, its turns and pauses never get stuck.   *)
DanceFinished == (part = "type") ~> (part = "danced")
=============================================================================
