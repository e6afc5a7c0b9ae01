------------------------------- MODULE Dancer -------------------------------
(***************************************************************************)
(* A forager at its hive: it waits until somebody looks at it, dances the  *)
(* way to its honey, and gives up waiting after a time (xpilot_ai/c: bee.c *)
(* forage, beeDance.c, and checkIfBeingObserved of cAI.c).  Its statics    *)
(* are the variables here; one operator below is one frame of its AI loop, *)
(* read at the heading h the frame shows.                                  *)
(***************************************************************************)
EXTENDS Headings, Sequences, DanceCode

Symbol == {left, right, endOfSequence}

CONSTANTS
    XDance, YDance,     \* what buildDance makes of the two coordinates
    MinFrames,          \* minimum_frames_to_observe, 5
    ObservedFrames,     \* frames of being looked at before it dances, 15
    FrameLimit          \* frames it waits for that, 14 * 10

ASSUME DancerAssumption ==
    /\ XDance \in Seq(Symbol) \ {<<>>}
    /\ YDance \in Seq(Symbol) \ {<<>>}
    /\ MinFrames \in Nat \ {0}
    /\ ObservedFrames \in Nat \ {0}
    /\ FrameLimit \in Nat \ {0}

NoAim == -1

VARIABLES
    part,               \* what forage() and dance() are at
    waiting_counter,    \* frames waited
    observed_counter,   \* consecutive frames somebody looked at the bee
    danceSequence,      \* relayCoords has built the sequence it performs
    i,                  \* symbols of the sequence performed
    isInitial,          \* performMovementFor starts a movement
    finishedMove,       \* the movement has reached its heading
    wait_count,         \* frames waited there and back at the initial one
    aim                 \* the turn sent to the server in the last frame

dancerVars == <<part, waiting_counter, observed_counter, danceSequence, i,
                isInitial, finishedMove, wait_count, aim>>
moveVars == <<isInitial, finishedMove, wait_count, aim>>

(* The types; the frames waited never exceed the limits of the code.       *)
DancerTypeOK ==
    /\ part \in {"waiting", "type", "x", "y", "danced", "deposit"}
    /\ waiting_counter \in 0..FrameLimit
    /\ observed_counter \in Nat
    /\ danceSequence \in BOOLEAN
    /\ i \in Nat
    /\ isInitial \in BOOLEAN
    /\ finishedMove \in BOOLEAN
    /\ wait_count \in 0..(2 * MinFrames)
    /\ aim \in Sector \cup {NoAim}

DancerInit ==
    /\ part = "waiting"
    /\ waiting_counter = 0
    /\ observed_counter = 0
    /\ danceSequence = FALSE
    /\ i = 0
    /\ isInitial = TRUE
    /\ finishedMove = FALSE
    /\ wait_count = 0
    /\ aim = NoAim

(* The initial heading of the dance is heading 0. *)
Target(symbol) == CASE symbol = left  -> LeftOf(0)
                    [] symbol = right -> RightOf(0)
                    [] OTHER          -> RearOf(0)

(* performMovementFor: has the target been reached, and frames waited.     *)
AtTarget(symbol, h) == (~isInitial /\ finishedMove) \/ h = Target(symbol)
WaitSoFar == IF isInitial THEN 0 ELSE wait_count

MovementDone(symbol, h) ==
    AtTarget(symbol, h) /\ WaitSoFar = 2 * MinFrames /\ h = 0

(* Mutant of PerformMovement: it never turns back. *)
PerformMovementStays(symbol, h) ==
    /\ isInitial' = MovementDone(symbol, h)
    /\ finishedMove' = AtTarget(symbol, h)
    /\ wait_count' = IF AtTarget(symbol, h) /\ WaitSoFar < MinFrames
                     THEN WaitSoFar + 1 ELSE WaitSoFar
    /\ aim' = IF AtTarget(symbol, h) THEN NoAim ELSE Target(symbol)

(* performMovementFor(symbol): turn until the target heading is reached,   *)
(* stay MinFrames there, turn back, stay MinFrames again.                  *)
PerformMovement(symbol, h) ==
    /\ isInitial' = MovementDone(symbol, h)
    /\ finishedMove' = AtTarget(symbol, h)
    /\ LET waits == AtTarget(symbol, h) /\
                       \/ WaitSoFar < MinFrames
                       \/ WaitSoFar < 2 * MinFrames /\ h = 0
       IN  wait_count' = IF waits THEN WaitSoFar + 1 ELSE WaitSoFar
    /\ aim' = IF ~AtTarget(symbol, h)
              THEN Target(symbol)
              ELSE IF WaitSoFar >= MinFrames /\ h # 0 THEN 0 ELSE NoAim

-----------------------------------------------------------------------------
(* relayMsg: the kind of message is one movement, left for foundSource. *)
RelayMsg(h) ==
    /\ PerformMovement(left, h)
    /\ part' = IF MovementDone(left, h) THEN "x" ELSE "type"
    /\ UNCHANGED <<danceSequence, i>>

(* relayCoords and performSequence: a frame to build the sequence, the     *)
(* movements, and a frame to find that none is left.  The frame that       *)
(* builds it returns no value; the build (gcc, no -O) leaves there the 0   *)
(* of fclose, which is false.                                              *)
RelayCoords(sequence, next, h) ==
    \/ /\ ~danceSequence
       /\ danceSequence' = TRUE
       /\ aim' = NoAim
       /\ UNCHANGED <<part, i, isInitial, finishedMove, wait_count>>
    \/ /\ danceSequence
       /\ i < Len(sequence)
       /\ PerformMovement(sequence[i + 1], h)
       /\ i' = IF MovementDone(sequence[i + 1], h) THEN i + 1 ELSE i
       /\ UNCHANGED <<part, danceSequence>>
    \/ /\ danceSequence
       /\ i = Len(sequence)
       /\ danceSequence' = FALSE
       /\ i' = 0
       /\ aim' = NoAim
       /\ part' = next
       /\ UNCHANGED <<isInitial, finishedMove, wait_count>>

Dance(h) ==
    /\ \/ part = "type" /\ RelayMsg(h)
       \/ part = "x" /\ RelayCoords(XDance, "y", h)
       \/ part = "y" /\ RelayCoords(YDance, "danced", h)
    /\ UNCHANGED <<waiting_counter, observed_counter>>

(* Mutant of Wait: it dances as soon as somebody looks. *)
WaitForOne(looked_at) ==
    /\ part = "waiting"
    /\ waiting_counter < FrameLimit
    /\ waiting_counter' = waiting_counter + 1
    /\ observed_counter' = IF looked_at THEN observed_counter + 1 ELSE 0
    /\ part' = IF waiting_counter' = FrameLimit THEN "deposit"
               ELSE IF observed_counter' = 1 THEN "type"
               ELSE "waiting"
    /\ UNCHANGED <<danceSequence, i, moveVars>>

(* forage, waiting: another frame waited, and one more or none of being    *)
(* looked at; the dance starts with the next frame (its headings are set   *)
(* by then) unless the time is over by then.                               *)
Wait(looked_at) ==
    /\ part = "waiting"
    /\ waiting_counter < FrameLimit
    /\ waiting_counter' = waiting_counter + 1
    /\ observed_counter' = IF looked_at THEN observed_counter + 1 ELSE 0
    /\ part' = IF waiting_counter' = FrameLimit THEN "deposit"
               ELSE IF observed_counter' = ObservedFrames THEN "type"
               ELSE "waiting"
    /\ UNCHANGED <<danceSequence, i, moveVars>>

(* Not dancing any more: gathering and depositing are not modelled here. *)
Rest ==
    /\ part \in {"danced", "deposit"}
    /\ aim' = NoAim
    /\ UNCHANGED <<part, waiting_counter, observed_counter, danceSequence, i,
                   isInitial, finishedMove, wait_count>>

DancerFrame(h, looked_at) == Wait(looked_at) \/ Dance(h) \/ Rest

(* The bee misses a frame, or was pushed and only sets its power to zero   *)
(* in it: nothing of the dance goes on, and no turn is sent.               *)
DancerSkips ==
    /\ aim' = NoAim
    /\ UNCHANGED <<part, waiting_counter, observed_counter, danceSequence, i,
                   isInitial, finishedMove, wait_count>>
=============================================================================
