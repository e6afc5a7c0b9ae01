------------------------------- MODULE Observer -------------------------------
(***************************************************************************)
(* An onlooker at its hive that has turned to a ship and takes it for a    *)
(* dancer (xpilot_ai/c: bee.c onlook, beeObserve.c).  Its statics are the  *)
(* variables; ObserverFrame is one call of observeDance, in a frame that   *)
(* shows the ship at heading h.                                            *)
(***************************************************************************)
EXTENDS Headings, Sequences, DanceCode

CONSTANTS
    Threshold,      \* calls at one heading that mean "no longer dancing", 42
    FirstAnswers    \* what the first call of beeIsDancing may return: it has
                    \* no return statement, and the build (gcc, no -O) leaves
                    \* the ship's heading there, false only for heading 0

ASSUME ObserverAssumption ==
    /\ Threshold \in Nat \ {0}
    /\ FirstAnswers \subseteq BOOLEAN /\ FirstAnswers # {}

VARIABLES
    observing_dance,  \* observeDance has been called before
    dancingCheck,     \* what beeIsDancing last said there
    watch,            \* beeIsDancing: isInitial, prevHeading, frames same
    is_initial_setup, \* observeDanceMoves has no reference heading yet
    initial_heading,  \* that reference
    direction,        \* direction seen since the reference, or "none"
    dance_moves,      \* the moves recorded (saw_dance: not empty)
    danceObserved     \* what observeDance made of them

observerVars == <<observing_dance, dancingCheck, watch, is_initial_setup,
                  initial_heading, direction, dance_moves, danceObserved>>

Watches == [isInitial : BOOLEAN, prevHeading : Sector,
            num_frames_same_dir : 0..Threshold]

(* The types; beeIsDancing never counts beyond its threshold.              *)
ObserverTypeOK ==
    /\ observing_dance \in BOOLEAN
    /\ dancingCheck \in BOOLEAN
    /\ watch \in Watches
    /\ is_initial_setup \in BOOLEAN
    /\ initial_heading \in Sector
    /\ direction \in {"none", left, right, endOfWord}
    /\ dance_moves \in Seq({left, right, endOfWord})
    /\ danceObserved \in {"none", "honey", "enemy", "crash"}

ObserverInit ==
    /\ observing_dance = FALSE
    /\ dancingCheck = TRUE
    /\ watch = [isInitial |-> TRUE, prevHeading |-> 0,
                num_frames_same_dir |-> 0]
    /\ is_initial_setup = TRUE
    /\ initial_heading = 0
    /\ direction = "none"
    /\ dance_moves = <<>>
    /\ danceObserved = "none"

(* beeIsDancing's count of calls that saw the same heading in a row.       *)
SameDir(w, h) ==
    IF w.isInitial \/ h # w.prevHeading THEN 0 ELSE w.num_frames_same_dir + 1

(* beeIsDancing, its state after a call; having said "no" it starts over.  *)
BeeIsDancing(w, h) ==
    [isInitial |-> ~w.isInitial /\ SameDir(w, h) >= Threshold,
     prevHeading |-> h,
     num_frames_same_dir |-> SameDir(w, h)]

(* The call in observeDance's first test keeps whatever it returned. *)
Answers(w, h) ==
    IF w.isInitial THEN FirstAnswers ELSE {SameDir(w, h) < Threshold}

(* Mutant of SaysNotDancing: the value without a return statement is TRUE. *)
SaysNotDancingReturned(w, h) == ~w.isInitial /\ SameDir(w, h) >= Threshold

(* The call in its second test is compared with false; of a value without  *)
(* a return statement that comparison holds (only 1 would not be false).   *)
SaysNotDancing(w, h) == w.isInitial \/ SameDir(w, h) >= Threshold

(* observeDanceMoves: the heading of its first call is the reference.      *)
Reference(h) == IF is_initial_setup THEN h ELSE initial_heading

(* Mutant of DirectionSeen: the first direction seen stands. *)
DirectionSeenFirst(h) ==
    IF direction # "none" \/ h = Reference(h) THEN direction
    ELSE IF h = LeftOf(Reference(h)) THEN left
    ELSE IF h = RightOf(Reference(h)) THEN right
    ELSE IF h = RearOf(Reference(h)) THEN endOfWord
    ELSE "none"

(* Away from the reference the first side counts, but the rear overrides. *)
DirectionSeen(h) ==
    IF h = RearOf(Reference(h)) THEN endOfWord
    ELSE IF h = Reference(h) THEN "none"
    ELSE IF direction = "none" /\ h = LeftOf(Reference(h)) THEN left
    ELSE IF direction = "none" /\ h = RightOf(Reference(h)) THEN right
    ELSE direction

(* Mutant of ObserveDanceMoves: every call takes a new reference. *)
ObserveDanceMovesAnew(h) ==
    /\ is_initial_setup' = is_initial_setup
    /\ initial_heading' = Reference(h)
    /\ direction' = DirectionSeen(h)
    /\ dance_moves' = IF direction # "none" /\ h = Reference(h)
                      THEN Append(dance_moves, direction)
                      ELSE dance_moves

(* Back at the reference a direction seen is recorded; it is forgotten    *)
(* there in any case (DirectionSeen).                                      *)
ObserveDanceMoves(h) ==
    /\ is_initial_setup' = FALSE
    /\ initial_heading' = Reference(h)
    /\ direction' = DirectionSeen(h)
    /\ dance_moves' = IF direction # "none" /\ h = Reference(h)
                      THEN Append(dance_moves, direction)
                      ELSE dance_moves

(* The dance is over: what kind it was, if its moves can be read at all    *)
(* (dancePattern is NULL unless the first test was made in this call).     *)
Conclude ==
    danceObserved' = IF ~dancingCheck THEN "crash"
                     ELSE IF dance_moves'[1] = left THEN "honey" ELSE "enemy"

(* observeDance, after its first call. *)
FirstTest(h, w) ==
    IF dancingCheck
    THEN /\ dancingCheck' \in Answers(watch, h)
         /\ w = BeeIsDancing(watch, h)
         /\ ObserveDanceMoves(h)
    ELSE /\ w = watch
         /\ UNCHANGED <<dancingCheck, is_initial_setup, initial_heading,
                        direction, dance_moves>>

SecondTest(h, w) ==
    IF dance_moves' # <<>>
    THEN /\ watch' = BeeIsDancing(w, h)
         /\ IF SaysNotDancing(w, h)
            THEN Conclude
            ELSE UNCHANGED danceObserved
    ELSE /\ watch' = w
         /\ UNCHANGED danceObserved

ObserverFrame(h) ==
    \/ /\ ~observing_dance
       /\ observing_dance' = TRUE
       /\ UNCHANGED <<dancingCheck, watch, is_initial_setup, initial_heading,
                      direction, dance_moves, danceObserved>>
    \/ /\ observing_dance
       /\ danceObserved = "none"
       /\ UNCHANGED observing_dance
       /\ LET w == IF dancingCheck THEN BeeIsDancing(watch, h) ELSE watch
          IN  FirstTest(h, w) /\ SecondTest(h, w)
    \/ /\ danceObserved # "none"      \* forages by now, or is no more
       /\ UNCHANGED observerVars
=============================================================================
