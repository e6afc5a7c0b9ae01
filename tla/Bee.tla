---------------------------------- MODULE Bee ----------------------------------
(***************************************************************************)
(* The brain of a bee (xpilot_ai/c: beeMain.c AI_loop, bee.c searching,    *)
(* forage and onlook, beeAI.c useFueler and checkforFuel, beeObject.c):    *)
(* the roles it goes through, its honey errands, and how it works the      *)
(* refuel key.  One AI_loop call is one action; what the server does goes  *)
(* on between any two of them, for the bot may miss frames.  How the keys  *)
(* travel is KeyboardLink's business, what stations hold is Hive's, and    *)
(* how a dance is danced and read is Waggle's.                             *)
(***************************************************************************)
EXTENDS Integers

CONSTANTS
    Hive,           \* the bee's base
    Sources,        \* the other stations of fuelpoints.csv
    EMPTY, FULL,    \* fuel levels that end a deposit and a gathering
    InitTank,       \* the fuel a bee is given to start with, and after death
    MaxTank,        \* its fuel.max
    Rate,           \* what flows in a tick
    MinFramesPassed,\* MIN_FRAMES_PASSED
    FrameLimit,     \* frames it waits to be looked at
    Orders          \* the roles that chat messages set it to

Stations == Sources \cup {Hive}
Nowhere == "nowhere"        \* out of range of every station
Unknown == "unknown"        \* honeyX, honeyY before they are set

ASSUME BeeAssumption ==
    /\ Hive \notin Sources /\ Nowhere \notin Stations /\ Unknown \notin Stations
    /\ EMPTY \in Nat /\ FULL \in Nat /\ MaxTank \in Nat
    /\ InitTank \in 0..MaxTank /\ Rate \in Nat
    /\ MinFramesPassed \in Nat \ {0} /\ FrameLimit \in Nat
    /\ Orders \subseteq {"flying", "searching"}

VARIABLES
    \* the bot
    init,            \* initialize() has been called
    state,           \* its role
    frameCount,      \* of AI_loop calls, modulo MinFramesPassed
    fuel,            \* the global: the fuel level last remembered
    fueling,         \* useFueler believes to hold the refuel key
    presses,         \* the refuel key's presses not yet released
    fuel_found,      \* searching has found a supply (and read the file)
    honey,           \* the station at (honeyX, honeyY), or Unknown
    learned,         \* prevState = STATE_ONLOOKING
    depositing,      \* forage heads for the hive
    needsToDance,
    performed_dance,
    beingObserved,
    waiting_counter,
    \* the server
    alive,
    tank,            \* fuel.sum, as every frame shows it
    place,           \* the station in range, or Nowhere
    close,           \* and it is within 30 pixels (inVicinityOf)
    keyDown,         \* the refuel key in last_keyv
    refuelling       \* the station the bee refuels at, or Nowhere

errandVars == <<learned, depositing, performed_dance, beingObserved,
                waiting_counter>>
fuelerVars == <<fuel, fueling, presses>>
knowledge == <<fuel_found, honey, needsToDance>>
worldVars == <<alive, tank, place, close>>
keyVars == <<keyDown, refuelling>>
vars == <<init, state, frameCount, errandVars, fuelerVars, knowledge,
          worldVars, keyVars>>

(* The types: of the roles of cAI.h these are the ones bee.c has.          *)
TypeOK ==
    /\ init \in BOOLEAN
    /\ state \in {"init", "flying", "dead", "searching", "foraging",
                  "onlooking"}
    /\ frameCount \in 0..(MinFramesPassed - 1)
    /\ fuel \in 0..MaxTank
    /\ fueling \in BOOLEAN
    /\ presses \in Nat
    /\ fuel_found \in BOOLEAN
    /\ honey \in Stations \cup {Unknown}
    /\ learned \in BOOLEAN
    /\ depositing \in BOOLEAN
    /\ needsToDance \in BOOLEAN
    /\ performed_dance \in BOOLEAN
    /\ beingObserved \in BOOLEAN
    /\ waiting_counter \in 0..FrameLimit
    /\ alive \in BOOLEAN
    /\ tank \in 0..MaxTank
    /\ place \in Stations \cup {Nowhere}
    /\ close \in BOOLEAN
    /\ keyDown \in BOOLEAN
    /\ refuelling \in Stations \cup {Nowhere}

Init ==
    /\ init = FALSE
    /\ state = "init"
    /\ frameCount = 0
    /\ fuel = 0
    /\ fueling = FALSE
    /\ presses = 0
    /\ fuel_found = FALSE
    /\ honey = Unknown
    /\ learned = FALSE
    /\ depositing = TRUE
    /\ needsToDance = FALSE
    /\ performed_dance = FALSE
    /\ beingObserved = FALSE
    /\ waiting_counter = 0
    /\ alive = TRUE
    /\ tank = InitTank
    /\ place = Hive
    /\ close = TRUE
    /\ keyDown = FALSE
    /\ refuelling = Nowhere

-----------------------------------------------------------------------------
(* Working the refuel key.                                                 *)

(* getPOICoordinates, and Player_refuel's choice on the server: the        *)
(* station nearest to the bee.                                             *)
Nearest == IF place \in Stations THEN {place} ELSE Stations

(* refuel(0): one press less, if there is one. *)
Released(n) == IF n > 0 THEN n - 1 ELSE 0

LastFrame == frameCount' = 0        \* frameCount % MIN_FRAMES_PASSED

(* Mutants of UseFueler: the press is not remembered, or it is for ever. *)
UseFuelerForgets(remembered) ==
    /\ fuel' = IF fueling THEN remembered ELSE tank
    /\ presses' = LET pressed == IF fueling THEN presses ELSE presses + 1
                  IN  IF LastFrame THEN Released(pressed) ELSE pressed
    /\ fueling' = FALSE

UseFuelerKeeps(remembered) ==
    /\ fuel' = IF fueling THEN remembered ELSE tank
    /\ presses' = LET pressed == IF fueling THEN presses ELSE presses + 1
                  IN  IF LastFrame THEN Released(pressed) ELSE pressed
    /\ fueling' = TRUE

(* useFueler: press and remember the level, unless pressed already (then   *)
(* the level remembered by then stays); every MinFramesPassed calls of     *)
(* AI_loop release, be it in the same frame.                               *)
UseFueler(remembered) ==
    /\ fuel' = IF fueling THEN remembered ELSE tank
    /\ presses' = LET pressed == IF fueling THEN presses ELSE presses + 1
                  IN  IF LastFrame THEN Released(pressed) ELSE pressed
    /\ fueling' = ~LastFrame

(* refuel(0) without useFueler, which is not told of it. *)
StopFueling ==
    /\ presses' = Released(presses)
    /\ UNCHANGED fueling

(* What the frame's key changes do on the server: a key newly down starts  *)
(* refuelling at the nearest station, one newly up ends it.  The role's    *)
(* key, pressed in every such frame, has the vector sent in any case.      *)
KeysSent ==
    /\ keyDown' = (presses' > 0)
    /\ CASE keyDown' /\ ~keyDown -> refuelling' \in Nearest
         [] ~keyDown' -> refuelling' = Nowhere
         [] OTHER -> UNCHANGED refuelling

-----------------------------------------------------------------------------
(* The controllers, one frame each.                                        *)

(* initialize: the role goes by the parity of the ship's id. *)
Initialize ==
    /\ init' = TRUE
    /\ state' \in {"searching", "onlooking"}
    /\ UNCHANGED <<errandVars, fuelerVars, knowledge, keyVars>>

(* flocking, but for where it flies. *)
Flocking ==
    /\ state' = "flying"
    /\ fuel' = tank
    /\ UNCHANGED <<init, errandVars, fueling, presses, knowledge, keyVars>>

Dead ==
    /\ state' = "searching"
    /\ UNCHANGED <<init, errandVars, fuelerVars, knowledge, keyVars>>

(* Mutant of Found: the file is read only from the second time on. *)
FoundLate ==
    /\ state' = "foraging"
    /\ needsToDance' = TRUE
    /\ fuel_found' = TRUE
    /\ IF fuel_found THEN honey' \in Nearest ELSE UNCHANGED honey

(* The supply is kept where it was found first, the rest happens again     *)
(* whenever a bee that knows one is set to searching.                      *)
Found ==
    /\ state' = "foraging"
    /\ needsToDance' = TRUE
    /\ fuel_found' = TRUE
    /\ IF fuel_found THEN UNCHANGED honey ELSE honey' \in Nearest

(* searching: the fueler is worked until there is more fuel than at the    *)
(* last press (checkforFuel).                                              *)
Searching ==
    /\ IF fuel_found THEN UNCHANGED fuelerVars ELSE UseFueler(fuel)
    /\ IF fuel_found \/ tank > fuel'
       THEN Found
       ELSE state' = "searching" /\ UNCHANGED knowledge
    /\ KeysSent
    /\ UNCHANGED <<init, errandVars>>

(* forage, its first step: who has learned of honey goes there first. *)
HeadsHome == depositing /\ ~learned
Destination == IF HeadsHome THEN Hive ELSE honey
Arrived == place = Destination /\ close
Unfinished == IF HeadsHome THEN tank > EMPTY ELSE tank < FULL
WaitsOrDances ==
    /\ ~performed_dance
    /\ waiting_counter < FrameLimit
    /\ HeadsHome
    /\ needsToDance

Travel ==
    /\ ~Arrived
    /\ StopFueling
    /\ fuel' = tank
    /\ depositing' = HeadsHome
    /\ UNCHANGED <<performed_dance, beingObserved, waiting_counter, needsToDance>>

(* Waiting for somebody to look (checkIfBeingObserved). *)
WaitToBeSeen ==
    /\ Arrived /\ WaitsOrDances /\ ~beingObserved
    /\ waiting_counter' = waiting_counter + 1
    /\ beingObserved' \in BOOLEAN
    /\ fuel' = tank
    /\ depositing' = HeadsHome
    /\ UNCHANGED <<performed_dance, needsToDance, fueling, presses>>

(* dance(foundSource), which ends in some frame. *)
DanceOn ==
    /\ Arrived /\ WaitsOrDances /\ beingObserved
    /\ performed_dance' \in BOOLEAN
    /\ needsToDance' = ~performed_dance'
    /\ fuel' = tank
    /\ depositing' = HeadsHome
    /\ UNCHANGED <<beingObserved, waiting_counter, fueling, presses>>

(* Depositing or gathering; forage remembers the level in every frame. *)
Pump ==
    /\ Arrived /\ ~WaitsOrDances /\ Unfinished
    /\ UseFueler(tank)
    /\ depositing' = HeadsHome
    /\ UNCHANGED <<performed_dance, beingObserved, waiting_counter, needsToDance>>

TurnBack ==
    /\ Arrived /\ ~WaitsOrDances /\ ~Unfinished
    /\ StopFueling
    /\ fuel' = tank
    /\ depositing' = ~HeadsHome
    /\ performed_dance' = FALSE
    /\ beingObserved' = FALSE
    /\ waiting_counter' = 0
    /\ UNCHANGED needsToDance

Forage ==
    /\ Travel \/ WaitToBeSeen \/ DanceOn \/ Pump \/ TurnBack
    /\ state' = "foraging"
    /\ learned' = FALSE
    /\ KeysSent
    /\ UNCHANGED <<init, fuel_found, honey>>

(* onlook: at the hive a dance may be read in any frame.  It is another    *)
(* bee's dance, of whatever station that bee holds to be honey.            *)
Onlook ==
    /\ \/ /\ state' = "onlooking"
          /\ UNCHANGED <<honey, needsToDance, learned>>
       \/ /\ place = Hive /\ close
          /\ honey' \in Stations
          /\ needsToDance' = FALSE
          /\ state' = "foraging"
          /\ learned' = TRUE
    /\ UNCHANGED <<init, fuel_found, fuelerVars, depositing, performed_dance,
                   beingObserved, waiting_counter>>
    /\ KeysSent

(* handleMsgBuffer: beginboids and endboids set a role, as does findhoney. *)
AfterMessage == {state} \cup Orders

(* AI_loop: messages, then death, then the lack of an initialization. *)
Loop(m) ==
    /\ frameCount' = (frameCount + 1) % MinFramesPassed
    /\ LET s == IF ~init THEN "init" ELSE IF ~alive THEN "dead" ELSE m
         IN  \/ s = "init" /\ Initialize
             \/ s = "flying" /\ Flocking
             \/ s = "dead" /\ Dead
             \/ s = "searching" /\ Searching
             \/ s = "foraging" /\ Forage
             \/ s = "onlooking" /\ Onlook
    /\ UNCHANGED worldVars

AI_loop == \E m \in AfterMessage : Loop(m)

-----------------------------------------------------------------------------
(* The server, as far as the bee is concerned.                             *)

Least(m, n) == IF m < n THEN m ELSE n

(* Do_refuel: in range the bee gives at its hive and gets at any other     *)
(* station, unless that is dry or the tank full; out of range it stops.    *)
Refuel ==
    IF refuelling = Nowhere \/ place # refuelling
    THEN refuelling' = Nowhere /\ UNCHANGED tank
    ELSE /\ refuelling' \in {refuelling, Nowhere}
         /\ tank' \in {tank, IF place = Hive THEN tank - Least(tank, Rate)
                                             ELSE Least(tank + Rate, MaxTank)}

(* A bee that lives refuels, or flies and burns fuel. *)
Tick ==
    /\ alive
    /\ \/ Refuel /\ UNCHANGED <<place, close>>
       \/ /\ place' \in Stations \cup {Nowhere}
          /\ close' \in (IF place' = Nowhere THEN {FALSE} ELSE BOOLEAN)
          /\ tank' \in {tank, tank - Least(tank, 1)}
          /\ UNCHANGED refuelling
    /\ UNCHANGED <<init, state, frameCount, errandVars, fuelerVars, knowledge,
                   alive, keyDown>>

(* Kill_player with Player_death_reset: the tank is as at the start again. *)
Die ==
    /\ alive
    /\ alive' = FALSE
    /\ tank' = InitTank
    /\ refuelling' = Nowhere
    /\ UNCHANGED <<init, state, frameCount, errandVars, fuelerVars, knowledge,
                   place, close, keyDown>>

(* Go_home: at its base, and every key up for the server. *)
Recover ==
    /\ ~alive
    /\ alive' = TRUE
    /\ place' = Hive
    /\ close' = TRUE
    /\ keyDown' = FALSE
    /\ refuelling' = Nowhere
    /\ UNCHANGED <<init, state, frameCount, errandVars, fuelerVars, knowledge,
                   tank>>

Next == AI_loop \/ Tick \/ Die \/ Recover

Spec == Init /\ [][Next]_vars

(* Frames arrive, and a dance comes to its end (Waggle's DanceFinished). *)
FairSpec ==
    /\ Spec
    /\ WF_vars(Loop(state))
    /\ SF_vars(Loop(state) /\ DanceOn /\ performed_dance')

-----------------------------------------------------------------------------
(* The refuel key is never pressed twice without a release, which would    *)
(* keep it down for ever: whoever else releases it, and whatever role the  *)
(* bee is in by then, useFueler does not press while it is down            *)
(* (useFueler's flag against forage's calls of refuel).                    *)
RefuelKeyPaired == presses <= 1 /\ (presses = 1 => fueling)

(* A forager has somewhere to go, on whatever way it became one: searching,*)
(* watching, or by death or a message on the way (forage's destination).   *)
ForagerKnowsHoney == state = "foraging" => honey # Unknown

(* A bee that stays where its errand has brought it, with work to do       *)
(* there, is not kept from it by waiting for a look, by its dance, or by a *)
(* refuel key released behind useFueler's back: it gets the key down again *)
(* and again (forage).                                                     *)
AtWork == alive /\ state = "foraging" /\ Arrived /\ Unfinished
PumpsOn ==
    <>[]AtWork /\ <>[][AI_loop => Loop(state)]_vars => []<>(presses > 0)
=============================================================================
