------------------------------ MODULE Bee_proofs ------------------------------
(***************************************************************************)
(* Proofs about Bee, for any stations, fuel levels and frame limits.       *)
(***************************************************************************)
EXTENDS Bee, TLAPS

(* A found supply has been remembered, and stays so: what makes a bee that *)
(* is set to searching again, by death or by a message, a forager with a   *)
(* destination.                                                            *)
FoundIsKnown == fuel_found => honey # Unknown

IInv == TypeOK /\ RefuelKeyPaired /\ ForagerKnowsHoney /\ FoundIsKnown

LEMMA Levels ==
    /\ Hive \in Stations /\ Unknown \notin Stations /\ Nowhere \notin Stations
    /\ MaxTank \in Nat /\ Rate \in Nat /\ InitTank \in 0..MaxTank
    /\ MinFramesPassed \in Nat \ {0} /\ FrameLimit \in Nat
    /\ Orders \subseteq {"flying", "searching"}
  BY BeeAssumption DEF BeeAssumption, Stations

LEMMA InitIInv == Init => IInv
  <1> SUFFICES ASSUME Init
               PROVE  IInv
    OBVIOUS
  <1>1. frameCount \in 0..(MinFramesPassed - 1) /\ fuel \in 0..MaxTank
    BY Levels DEF Init
  <1>2. presses \in Nat /\ waiting_counter \in 0..FrameLimit /\ tank \in 0..MaxTank
    BY Levels DEF Init
  <1>3. /\ honey \in Stations \cup {Unknown} /\ place \in Stations \cup {Nowhere}
        /\ refuelling \in Stations \cup {Nowhere}
    BY Levels DEF Init
  <1>4. TypeOK
    BY <1>1, <1>2, <1>3 DEF Init, TypeOK
  <1>5. RefuelKeyPaired /\ ForagerKnowsHoney /\ FoundIsKnown
    BY DEF Init, RefuelKeyPaired, ForagerKnowsHoney, FoundIsKnown
  <1>6. QED
    BY <1>4, <1>5 DEF IInv

-----------------------------------------------------------------------------
(* The pieces of a frame.                                                  *)

(* frameCount stays below MinFramesPassed. *)
LEMMA FrameCounted ==
    ASSUME TypeOK, AI_loop
    PROVE  frameCount' \in 0..(MinFramesPassed - 1)
  BY Levels DEF TypeOK, AI_loop, Loop

(* useFueler leaves the key down only if it knows, and never twice.        *)
LEMMA UseFuelerPairs ==
    ASSUME TypeOK, RefuelKeyPaired,
           NEW remembered \in 0..MaxTank, UseFueler(remembered)
    PROVE  /\ fuel' \in 0..MaxTank /\ fueling' \in BOOLEAN /\ presses' \in Nat
           /\ RefuelKeyPaired'
  <1>1. presses \in Nat /\ presses <= 1 /\ (presses = 1 => fueling)
    BY DEF TypeOK, RefuelKeyPaired
  <1>2. fuel' \in 0..MaxTank /\ fueling' \in BOOLEAN
    BY DEF TypeOK, UseFueler
  <1> DEFINE pressed == IF fueling THEN presses ELSE presses + 1
  <1>3. pressed \in {0, 1}
    <2>1. CASE fueling
      BY <1>1, <2>1
    <2>2. CASE ~fueling
      BY <1>1, <2>2
    <2>3. QED
      BY <2>1, <2>2
  <1>4. /\ presses' = IF LastFrame THEN Released(pressed) ELSE pressed
        /\ fueling' = ~LastFrame
    BY DEF UseFueler
  <1> HIDE DEF pressed
  <1>5. CASE LastFrame
    <2>1. presses' = 0
      BY <1>3, <1>4, <1>5 DEF Released
    <2>2. QED
      BY <1>2, <2>1 DEF RefuelKeyPaired
  <1>6. CASE ~LastFrame
    <2>1. presses' \in {0, 1} /\ fueling'
      BY <1>3, <1>4, <1>6
    <2>2. QED
      BY <1>2, <2>1 DEF RefuelKeyPaired
  <1>7. QED
    BY <1>5, <1>6

(* refuel(0) releases the key behind useFueler's back, which is harmless.  *)
LEMMA StopFuelingPairs ==
    ASSUME TypeOK, RefuelKeyPaired, StopFueling
    PROVE  /\ fueling' \in BOOLEAN /\ presses' \in Nat
           /\ RefuelKeyPaired'
  BY DEF TypeOK, RefuelKeyPaired, StopFueling, Released

LEMMA NearestType == TypeOK => Nearest \subseteq Stations
  BY DEF TypeOK, Nearest

LEMMA KeysSentType ==
    ASSUME TypeOK, KeysSent
    PROVE  keyDown' \in BOOLEAN /\ refuelling' \in Stations \cup {Nowhere}
  <1>1. keyDown' \in BOOLEAN
    BY DEF KeysSent
  <1>2. CASE keyDown' /\ ~keyDown
    <2>1. refuelling' \in Nearest
      BY <1>2 DEF KeysSent
    <2>2. QED
      BY <1>1, <2>1, NearestType
  <1>3. CASE ~keyDown'
    BY <1>1, <1>3 DEF KeysSent
  <1>4. CASE keyDown' /\ keyDown
    BY <1>1, <1>4 DEF KeysSent, TypeOK
  <1>5. QED
    BY <1>1, <1>2, <1>3, <1>4

-----------------------------------------------------------------------------
(* The controllers.                                                        *)

LEMMA IdleRoles ==
    ASSUME IInv, AI_loop, Initialize \/ Flocking \/ Dead
    PROVE  IInv'
  <1>1. UNCHANGED worldVars /\ frameCount' \in 0..(MinFramesPassed - 1)
    BY FrameCounted DEF IInv, AI_loop, Loop
  <1>2. /\ init' \in BOOLEAN /\ fuel' \in 0..MaxTank
        /\ state' \in {"flying", "searching", "onlooking"}
    BY DEF Initialize, Flocking, Dead, IInv, TypeOK, fuelerVars
  <1>3. UNCHANGED <<errandVars, fueling, presses, knowledge, keyVars>>
    BY DEF Initialize, Flocking, Dead, fuelerVars
  <1>4. TypeOK'
    BY <1>1, <1>2, <1>3
    DEF IInv, TypeOK, errandVars, knowledge, keyVars, worldVars
  <1>5. RefuelKeyPaired' /\ ForagerKnowsHoney' /\ FoundIsKnown'
    BY <1>2, <1>3
    DEF IInv, RefuelKeyPaired, ForagerKnowsHoney, FoundIsKnown, knowledge
  <1>6. QED
    BY <1>4, <1>5 DEF IInv

LEMMA SearchingStep ==
    ASSUME IInv, AI_loop, Searching
    PROVE  IInv'
  <1>1. UNCHANGED worldVars /\ frameCount' \in 0..(MinFramesPassed - 1)
    BY FrameCounted DEF IInv, AI_loop, Loop
  <1>2. /\ fuel' \in 0..MaxTank /\ fueling' \in BOOLEAN /\ presses' \in Nat
        /\ RefuelKeyPaired'
    <2>1. CASE fuel_found
      BY <2>1 DEF Searching, IInv, TypeOK, RefuelKeyPaired, fuelerVars
    <2>2. CASE ~fuel_found
      BY <2>2, UseFuelerPairs DEF Searching, IInv, TypeOK
    <2>3. QED
      BY <2>1, <2>2
  <1>3. keyDown' \in BOOLEAN /\ refuelling' \in Stations \cup {Nowhere}
    BY KeysSentType DEF Searching, IInv
  <1>4. /\ state' \in {"searching", "foraging"}
        /\ fuel_found' \in BOOLEAN /\ needsToDance' \in BOOLEAN
        /\ honey' \in Stations \cup {Unknown}
        /\ ForagerKnowsHoney' /\ FoundIsKnown'
    <2>1. CASE Found
      BY <2>1, NearestType, Levels
      DEF Found, IInv, TypeOK, ForagerKnowsHoney, FoundIsKnown
    <2>2. CASE state' = "searching" /\ UNCHANGED knowledge
      BY <2>2 DEF IInv, TypeOK, ForagerKnowsHoney, FoundIsKnown, knowledge
    <2>3. QED
      BY <2>1, <2>2 DEF Searching
  <1>5. TypeOK'
    BY <1>1, <1>2, <1>3, <1>4
    DEF Searching, IInv, TypeOK, errandVars, worldVars
  <1>6. QED
    BY <1>2, <1>4, <1>5 DEF IInv

LEMMA ForageStep ==
    ASSUME IInv, AI_loop, Forage, state = "foraging"
    PROVE  IInv'
  <1>1. UNCHANGED worldVars /\ frameCount' \in 0..(MinFramesPassed - 1)
    BY FrameCounted DEF IInv, AI_loop, Loop
  <1>2. /\ fuel' \in 0..MaxTank /\ fueling' \in BOOLEAN /\ presses' \in Nat
        /\ RefuelKeyPaired'
    <2>1. CASE Travel \/ TurnBack
      BY <2>1, StopFuelingPairs DEF Travel, TurnBack, IInv, TypeOK
    <2>2. CASE WaitToBeSeen \/ DanceOn
      BY <2>2 DEF WaitToBeSeen, DanceOn, IInv, TypeOK, RefuelKeyPaired
    <2>3. CASE Pump
      BY <2>3, UseFuelerPairs DEF Pump, IInv, TypeOK
    <2>4. QED
      BY <2>1, <2>2, <2>3 DEF Forage
  <1>3. keyDown' \in BOOLEAN /\ refuelling' \in Stations \cup {Nowhere}
    BY KeysSentType DEF Forage, IInv
  <1>4. /\ depositing' \in BOOLEAN /\ performed_dance' \in BOOLEAN
        /\ beingObserved' \in BOOLEAN /\ needsToDance' \in BOOLEAN
    BY DEF Forage, Travel, WaitToBeSeen, DanceOn, Pump, TurnBack, HeadsHome,
           IInv, TypeOK
  <1>5. waiting_counter' \in 0..FrameLimit
    <2>1. CASE WaitToBeSeen
      BY <2>1, Levels DEF WaitToBeSeen, WaitsOrDances, IInv, TypeOK
    <2>2. CASE Travel \/ DanceOn \/ Pump
      BY <2>2 DEF Travel, DanceOn, Pump, IInv, TypeOK
    <2>3. CASE TurnBack
      BY <2>3, Levels DEF TurnBack
    <2>4. QED
      BY <2>1, <2>2, <2>3 DEF Forage
  <1>6. TypeOK'
    BY <1>1, <1>2, <1>3, <1>4, <1>5 DEF Forage, IInv, TypeOK, worldVars
  <1>7. ForagerKnowsHoney' /\ FoundIsKnown'
    BY DEF Forage, IInv, ForagerKnowsHoney, FoundIsKnown
  <1>8. QED
    BY <1>2, <1>6, <1>7 DEF IInv

LEMMA OnlookStep ==
    ASSUME IInv, AI_loop, Onlook
    PROVE  IInv'
  <1>1. UNCHANGED worldVars /\ frameCount' \in 0..(MinFramesPassed - 1)
    BY FrameCounted DEF IInv, AI_loop, Loop
  <1>2. keyDown' \in BOOLEAN /\ refuelling' \in Stations \cup {Nowhere}
    BY KeysSentType DEF Onlook, IInv
  <1>3. /\ state' \in {"onlooking", "foraging"} /\ needsToDance' \in BOOLEAN
        /\ learned' \in BOOLEAN /\ honey' \in Stations \cup {Unknown}
        /\ ForagerKnowsHoney' /\ FoundIsKnown'
    BY Levels DEF Onlook, IInv, TypeOK, ForagerKnowsHoney, FoundIsKnown
  <1>4. TypeOK' /\ RefuelKeyPaired'
    BY <1>1, <1>2, <1>3
    DEF Onlook, IInv, TypeOK, RefuelKeyPaired, fuelerVars, worldVars
  <1>5. QED
    BY <1>3, <1>4 DEF IInv

LEMMA FrameStep ==
    ASSUME IInv, AI_loop
    PROVE  IInv'
  <1>1. PICK m \in AfterMessage :
          LET s == IF ~init THEN "init" ELSE IF ~alive THEN "dead" ELSE m
          IN  \/ Initialize \/ Flocking \/ Dead \/ Searching \/ Onlook
              \/ s = "foraging" /\ Forage
    BY DEF AI_loop, Loop
  <1>2. CASE Initialize \/ Flocking \/ Dead \/ Searching \/ Onlook
    BY <1>2, IdleRoles, SearchingStep, OnlookStep
  <1>3. CASE m = "foraging" /\ Forage
    <2>1. state = "foraging"
      BY <1>3, Levels DEF AfterMessage
    <2>2. QED
      BY <1>3, <2>1, ForageStep
  <1>4. QED
    BY <1>1, <1>2, <1>3

-----------------------------------------------------------------------------
(* The server's steps touch no role, no errand and no key of the bot.      *)
LEMMA WorldStep ==
    ASSUME IInv, Tick \/ Die \/ Recover
    PROVE  IInv'
  <1>1. /\ tank' \in 0..MaxTank /\ place' \in Stations \cup {Nowhere}
        /\ close' \in BOOLEAN /\ alive' \in BOOLEAN /\ keyDown' \in BOOLEAN
        /\ refuelling' \in Stations \cup {Nowhere}
    <2>1. CASE Tick
      <3>1. tank' \in 0..MaxTank
        <4>1. /\ tank \in 0..MaxTank /\ MaxTank \in Nat /\ Rate \in Nat
              /\ tank' \in {tank, tank - Least(tank, 1), tank - Least(tank, Rate),
                            Least(tank + Rate, MaxTank)}
          BY <2>1, Levels DEF Tick, Refuel, IInv, TypeOK
        <4>2. /\ tank - Least(tank, 1) \in 0..MaxTank
              /\ tank - Least(tank, Rate) \in 0..MaxTank
              /\ Least(tank + Rate, MaxTank) \in 0..MaxTank
          BY <4>1 DEF Least
        <4>3. QED
          BY <4>1, <4>2
      <3>2. refuelling' \in Stations \cup {Nowhere}
        BY <2>1 DEF Tick, Refuel, IInv, TypeOK
      <3>3. QED
        BY <2>1, <3>1, <3>2 DEF Tick, IInv, TypeOK
    <2>2. CASE Die \/ Recover
      BY <2>2, Levels DEF Die, Recover, IInv, TypeOK
    <2>3. QED
      BY <2>1, <2>2
  <1>2. UNCHANGED <<init, state, frameCount, errandVars, fuelerVars, knowledge>>
    BY DEF Tick, Die, Recover
  <1>3. QED
    BY <1>1, <1>2
    DEF IInv, TypeOK, RefuelKeyPaired, ForagerKnowsHoney, FoundIsKnown,
        errandVars, fuelerVars, knowledge

LEMMA NextIInv == IInv /\ [Next]_vars => IInv'
  <1> SUFFICES ASSUME IInv, [Next]_vars
               PROVE  IInv'
    OBVIOUS
  <1>1. CASE UNCHANGED vars
    BY <1>1
    DEF IInv, TypeOK, RefuelKeyPaired, ForagerKnowsHoney, FoundIsKnown, vars,
        errandVars, fuelerVars, knowledge, worldVars, keyVars
  <1>2. QED
    BY <1>1, FrameStep, WorldStep DEF Next

LEMMA Invariance == Spec => []IInv
  BY InitIInv, NextIInv, PTL DEF Spec

-----------------------------------------------------------------------------
(* The types, which bound what the bee remembers and how long it waits.    *)
THEOREM TypeCorrect == Spec => []TypeOK
  <1>1. IInv => TypeOK
    BY DEF IInv
  <1>2. QED
    BY <1>1, Invariance, PTL

(* No refuel key is left down for good by a second press (useFueler).      *)
THEOREM KeyPaired == Spec => []RefuelKeyPaired
  <1>1. IInv => RefuelKeyPaired
    BY DEF IInv
  <1>2. QED
    BY <1>1, Invariance, PTL

(* A bee that forages knows where to, whatever has happened to it before.  *)
THEOREM KnowsHoney == Spec => []ForagerKnowsHoney
  <1>1. IInv => ForagerKnowsHoney
    BY DEF IInv
  <1>2. QED
    BY <1>1, Invariance, PTL
=============================================================================
