----------------------------- MODULE Hive_proofs -----------------------------
(***************************************************************************)
(* Proofs about Hive, for any hives, cells, players and amounts.           *)
(***************************************************************************)
EXTENDS Hive, SequenceTheorems, TLAPS

LEMMA Amounts ==
    /\ Start \in Nat \ {0} /\ Rate \in Nat \ {0} /\ NurseTick \in Nat \ {0}
    /\ Threshold \in Nat \ {0} /\ Regeneration \in Nat
    /\ MaxTank \in Nat /\ InitTank \in 0..MaxTank
    /\ Garbage \subseteq Nat
    /\ InitTeam \in Seq(Hives) /\ Len(InitTeam) \in Nat
    /\ Len(InitTeam) > 0
  BY HiveAssumption DEF HiveAssumption

(* What a hive holds and what it has put aside came from its start and     *)
(* from deposits: no honey is made out of nothing in the hive.             *)
Ledger ==
    \A h \in Hives : fuel[h] + totalNursedFuel[h] <= Start + Rate * deposits[h]

(* Players never leave: there is one to take the first turn.               *)
Populated == Len(team) > 0

IInv == TypeOK /\ NurseBooks /\ Ledger /\ Populated

(* The players' variables are functions on 1..Len(team), and stay so when  *)
(* a player joins.                                                         *)
LEMMA AppendOne ==
    ASSUME NEW S, NEW n \in Nat, NEW f \in [1..n -> S], NEW e \in S
    PROVE  Append(f, e) \in [1..(n + 1) -> S]
  <1>1. f \in Seq(S) /\ Len(f) = n
    BY LenProperties, SeqDef
  <1>2. Append(f, e) \in Seq(S) /\ Len(Append(f, e)) = n + 1
    BY <1>1, AppendProperties
  <1>3. QED
    BY <1>2, LenProperties

LEMMA LeastProperties ==
    ASSUME NEW m \in Nat, NEW n \in Nat
    PROVE  Least(m, n) \in Nat /\ Least(m, n) <= m /\ Least(m, n) <= n
  BY DEF Least

LEMMA PlayerTeam ==
    ASSUME TypeOK, NEW b \in Players
    PROVE  team[b] \in Hives /\ team[b] \in Stations
  <1>1. team \in Seq(Hives) /\ b \in 1..Len(team)
    BY DEF TypeOK, Players
  <1>2. team[b] \in Hives
    BY <1>1, ElementOfSeq
  <1>3. QED
    BY <1>2 DEF Stations

LEMMA UpkeepNat == TypeOK => Upkeep \in Nat
  <1>1. TypeOK => Len(team) \in Nat
    BY DEF TypeOK
  <1>2. QED
    BY <1>1, Amounts DEF Upkeep

LEMMA InitIInv == Init => IInv
  <1> SUFFICES ASSUME Init
               PROVE  IInv
    OBVIOUS
  <1> USE Amounts
  <1>1. /\ team \in Seq(Hives)
        /\ \A b \in Players : team[b] \in Hives
        /\ Hives \subseteq Stations
    BY DEF Init, Players, Stations
  <1>2. fuel \in [Stations -> Nat] /\ \A h \in Hives : fuel[h] = Start
    BY <1>1 DEF Init
  <1>3. /\ nursedFuel \in [Hives -> Nat] /\ nursed0 \in [Hives -> Garbage]
        /\ totalNursedFuel \in [Hives -> Nat]
        /\ births \in [Hives -> Nat]
        /\ deposits \in [Hives -> Nat]
        /\ spawned \in [Hives -> Nat]
    BY DEF Init
  <1>4. /\ tank \in [Players -> 0..MaxTank]
        /\ refuelling \in [Players -> BOOLEAN]
        /\ nursing \in [Players -> BOOLEAN]
    BY DEF Init
  <1>5. /\ fs \in [Players -> Stations]
        /\ where \in [Players -> Stations \cup {Nowhere}]
    BY <1>1 DEF Init
  <1>6. turn \in 0..Len(team) /\ stage \in {"refuel", "nurse", "move"}
    BY <1>1 DEF Init
  <1>7. TypeOK
    BY <1>1, <1>2, <1>3, <1>4, <1>5, <1>6 DEF TypeOK
  <1>8. NurseBooks
    <2> SUFFICES ASSUME NEW h \in Hives
                 PROVE  totalNursedFuel[h] + nursed0[h]
                            = nursedFuel[h] + Threshold * spawned[h]
      BY DEF NurseBooks
    <2>1. /\ totalNursedFuel[h] = 0 /\ spawned[h] = 0
          /\ nursed0[h] = nursedFuel[h] /\ nursedFuel[h] \in Nat
      BY <1>3 DEF Init
    <2>2. QED
      BY <2>1
  <1>9. Ledger
    <2> SUFFICES ASSUME NEW h \in Hives
                 PROVE  fuel[h] + totalNursedFuel[h] <= Start + Rate * deposits[h]
      BY DEF Ledger
    <2>1. totalNursedFuel[h] = 0 /\ deposits[h] = 0 /\ fuel[h] = Start
      BY <1>2 DEF Init
    <2>2. QED
      BY <2>1
  <1>10. QED
    BY <1>7, <1>8, <1>9, Amounts DEF IInv, Populated, Init

(* What is neither in a station nor in the books does not touch them.      *)
LEMMA BooksKept ==
    ASSUME IInv, UNCHANGED <<stationVars, historyVars>>
    PROVE  NurseBooks' /\ Ledger'
  BY DEF IInv, NurseBooks, Ledger, stationVars, historyVars

LEMMA KeyStep ==
    ASSUME IInv, NEW b \in Players,
           RefuelKey(b) \/ RefuelKeyUp(b) \/ NurseKey(b)
    PROVE  IInv'
  <1>1. NurseBooks' /\ Ledger' /\ Populated'
    BY BooksKept DEF RefuelKey, RefuelKeyUp, NurseKey, IInv, Populated
  <1>2. TypeOK
    BY DEF IInv
  <1>3. CASE RefuelKey(b)
    <2>1. refuelling' \in [Players -> BOOLEAN]
      BY <1>2, <1>3 DEF RefuelKey, TypeOK
    <2>2. fs' \in [Players -> Stations]
      BY <1>2, <1>3 DEF RefuelKey, TypeOK
    <2>3. TypeOK'
      BY <1>2, <1>3, <2>1, <2>2
      DEF RefuelKey, TypeOK, Players, stationVars, historyVars
    <2>4. QED
      BY <1>1, <2>3 DEF IInv
  <1>4. CASE RefuelKeyUp(b)
    <2>1. refuelling' \in [Players -> BOOLEAN]
      BY <1>2, <1>4 DEF RefuelKeyUp, TypeOK
    <2>2. TypeOK'
      BY <1>2, <1>4, <2>1
      DEF RefuelKeyUp, TypeOK, Players, stationVars, historyVars
    <2>3. QED
      BY <1>1, <2>2 DEF IInv
  <1>5. CASE NurseKey(b)
    <2>1. nursing' \in [Players -> BOOLEAN]
      BY <1>2, <1>5 DEF NurseKey, TypeOK
    <2>2. TypeOK'
      BY <1>2, <1>5, <2>1
      DEF NurseKey, TypeOK, Players, stationVars, historyVars
    <2>3. QED
      BY <1>1, <2>2 DEF IInv
  <1>6. QED
    BY <1>3, <1>4, <1>5

LEMMA JoinStep ==
    ASSUME IInv, NEW h \in Hives, Join(h)
    PROVE  IInv'
  <1>1. NurseBooks' /\ Ledger'
    BY BooksKept DEF Join
  <1>2. TypeOK
    BY DEF IInv
  <1> DEFINE n == Len(team)
  <1>3. /\ team \in Seq(Hives) /\ n \in Nat /\ Players = 1..n
        /\ h \in Stations /\ h \in Stations \cup {Nowhere}
    BY <1>2 DEF TypeOK, Players, Stations
  <1>4. team' \in Seq(Hives) /\ Len(team') = n + 1 /\ Players' = 1..(n + 1)
    BY <1>3, AppendProperties DEF Join, Players
  <1>5. tank' \in [Players' -> 0..MaxTank]
    <2>1. tank' = Append(tank, InitTank) /\ tank \in [1..n -> 0..MaxTank]
      BY <1>2, <1>3 DEF Join, TypeOK
    <2>2. QED
      BY <1>3, <1>4, <2>1, Amounts, AppendOne
  <1>6. refuelling' \in [Players' -> BOOLEAN]
    <2>1. refuelling' = Append(refuelling, FALSE) /\ refuelling \in [1..n -> BOOLEAN]
      BY <1>2, <1>3 DEF Join, TypeOK
    <2>2. QED
      BY <1>3, <1>4, <2>1, AppendOne
  <1>7. nursing' \in [Players' -> BOOLEAN]
    <2>1. nursing' = Append(nursing, FALSE) /\ nursing \in [1..n -> BOOLEAN]
      BY <1>2, <1>3 DEF Join, TypeOK
    <2>2. QED
      BY <1>3, <1>4, <2>1, AppendOne
  <1>8. fs' \in [Players' -> Stations]
    <2>1. fs' = Append(fs, h) /\ fs \in [1..n -> Stations]
      BY <1>2, <1>3 DEF Join, TypeOK
    <2>2. QED
      BY <1>3, <1>4, <2>1, AppendOne
  <1>9. where' \in [Players' -> Stations \cup {Nowhere}]
    <2>1. where' = Append(where, h) /\ where \in [1..n -> Stations \cup {Nowhere}]
      BY <1>2, <1>3 DEF Join, TypeOK
    <2>2. QED
      BY <1>3, <1>4, <2>1, AppendOne
  <1>10. births' \in [Hives -> Nat] /\ turn' \in 0..Len(team')
    BY <1>2, <1>3, <1>4 DEF Join, TypeOK
  <1>11. /\ fuel' \in [Stations -> Nat]
         /\ nursedFuel' \in [Hives -> Nat]
         /\ totalNursedFuel' \in [Hives -> Nat]
         /\ stage' \in {"refuel", "nurse", "move"}
         /\ nursed0' \in [Hives -> Garbage]
         /\ deposits' \in [Hives -> Nat]
         /\ spawned' \in [Hives -> Nat]
    BY <1>2 DEF Join, TypeOK, stationVars, historyVars
  <1>12. TypeOK'
    BY <1>4, <1>5, <1>6, <1>7, <1>8, <1>9, <1>10, <1>11 DEF TypeOK
  <1>13. QED
    BY <1>1, <1>3, <1>4, <1>12 DEF IInv, Populated

(* A hive pays its upkeep: what it pays is gone, and only that.            *)
LEMMA FuelUpdateStep ==
    ASSUME IInv, FuelUpdate
    PROVE  IInv'
  <1>1. TypeOK /\ Upkeep \in Nat
    BY UpkeepNat DEF IInv
  <1>2. \A s \in Stations : fuel[s] \in Nat
    BY <1>1 DEF TypeOK
  <1>3. \A h \in Hives : h \in Stations
    BY DEF Stations
  <1>4. /\ fuel' \in [Stations -> Nat]
        /\ \A h \in Hives : fuel'[h] <= fuel[h]
    BY <1>1, <1>2, <1>3, Amounts DEF FuelUpdate, Least
  <1>5. turn' \in 0..Len(team') /\ Populated'
    <2>1. Len(team) \in Nat /\ Len(team) > 0
      BY <1>1 DEF IInv, TypeOK, Populated
    <2>2. QED
      BY <2>1 DEF FuelUpdate, playerVars, Populated
  <1>6. TypeOK'
    BY <1>1, <1>4, <1>5 DEF FuelUpdate, TypeOK, Players, playerVars, historyVars
  <1>7. NurseBooks'
    BY DEF IInv, NurseBooks, FuelUpdate, historyVars
  <1>8. Ledger'
    <2> SUFFICES ASSUME NEW h \in Hives
                 PROVE  fuel'[h] + totalNursedFuel'[h] <= Start + Rate * deposits'[h]
      BY DEF Ledger
    <2>1. /\ fuel[h] + totalNursedFuel[h] <= Start + Rate * deposits[h]
          /\ totalNursedFuel[h] \in Nat /\ deposits[h] \in Nat /\ fuel[h] \in Nat
      BY <1>1, <1>2, <1>3 DEF IInv, Ledger, TypeOK
    <2>2. fuel'[h] \in Nat /\ fuel'[h] <= fuel[h]
      BY <1>3, <1>4
    <2>3. totalNursedFuel' = totalNursedFuel /\ deposits' = deposits
      BY DEF FuelUpdate, historyVars
    <2>4. Start \in Nat /\ Rate * deposits[h] \in Nat
      BY <2>1, Amounts
    <2>5. QED
      BY <2>1, <2>2, <2>3, <2>4
  <1>9. QED
    BY <1>5, <1>6, <1>7, <1>8 DEF IInv

LEMMA NextPlayerType ==
    ASSUME TypeOK, Populated, turn \in Players, NextPlayer, UNCHANGED team
    PROVE  turn' \in 0..Len(team') /\ stage' \in {"refuel", "nurse", "move"}
  <1>1. Len(team) \in Nat /\ turn \in 1..Len(team)
    BY DEF TypeOK, Players
  <1>2. QED
    BY <1>1 DEF NextPlayer

LEMMA DeadStep ==
    ASSUME IInv, NEW b \in Players, Dead(b)
    PROVE  IInv'
  <1>1. NurseBooks' /\ Ledger' /\ Populated'
    BY BooksKept DEF Dead, IInv, Populated
  <1>2. TypeOK /\ team[b] \in Stations
    BY PlayerTeam DEF IInv
  <1>3. turn' \in 0..Len(team') /\ stage' \in {"refuel", "nurse", "move"}
    <2>1. CASE NextPlayer
      BY <1>2, <2>1, NextPlayerType DEF Dead, IInv
    <2>2. CASE stage' = "nurse" /\ UNCHANGED turn
      BY <1>2, <2>2 DEF Dead, TypeOK
    <2>3. QED
      BY <2>1, <2>2 DEF Dead
  <1>4. tank' \in [Players -> 0..MaxTank]
    BY <1>2, Amounts DEF Dead, TypeOK
  <1>5. refuelling' \in [Players -> BOOLEAN]
    BY <1>2 DEF Dead, TypeOK
  <1>6. where' \in [Players -> Stations \cup {Nowhere}]
    BY <1>2 DEF Dead, TypeOK
  <1>7. TypeOK'
    BY <1>2, <1>3, <1>4, <1>5, <1>6
    DEF Dead, TypeOK, Players, stationVars, historyVars
  <1>8. QED
    BY <1>1, <1>7 DEF IInv

LEMMA MoveOnStep ==
    ASSUME IInv, NEW b \in Players, MoveOn(b)
    PROVE  IInv'
  <1>1. NurseBooks' /\ Ledger' /\ Populated'
    BY BooksKept DEF MoveOn, IInv, Populated
  <1>2. TypeOK
    BY DEF IInv
  <1>3. turn' \in 0..Len(team') /\ stage' \in {"refuel", "nurse", "move"}
    BY <1>2, NextPlayerType DEF MoveOn, IInv
  <1>4. refuelling' \in [Players -> BOOLEAN]
    <2>1. refuelling' = [refuelling EXCEPT ![b] = @ /\ tank[b] <= MaxTank - Rate]
      BY DEF MoveOn
    <2>2. (refuelling[b] /\ tank[b] <= MaxTank - Rate) \in BOOLEAN
      OBVIOUS
    <2>3. QED
      BY <1>2, <2>1, <2>2, Zenon DEF TypeOK
  <1>5. where' \in [Players -> Stations \cup {Nowhere}]
    BY <1>2 DEF MoveOn, TypeOK
  <1>6. TypeOK'
    BY <1>2, <1>3, <1>4, <1>5
    DEF MoveOn, TypeOK, Players, stationVars, historyVars
  <1>7. QED
    BY <1>1, <1>6 DEF IInv

(* One more deposit is worth one more Rate. *)
LEMMA OneDeposit ==
    ASSUME NEW d \in Nat
    PROVE  Rate * (d + 1) = Rate * d + Rate /\ Rate * d \in Nat
  BY Amounts

(* A deposit goes to both sides of the ledger. *)
LEMMA DepositAdds ==
    ASSUME NEW held \in Nat, NEW aside \in Nat, NEW first \in Nat, NEW given \in Nat,
           NEW amount \in Nat, held + aside <= first + given
    PROVE  (held + amount) + aside <= first + (given + amount)
  OBVIOUS

(* What Do_refuel does to the hive h, whoever refuels where.               *)
LEMMA RefuelEffect ==
    ASSUME IInv, NEW b \in Players, DoRefuel(b), NEW h \in Hives
    PROVE  \/ /\ fuel'[h] \in Nat /\ fuel'[h] <= fuel[h]
              /\ deposits'[h] = deposits[h]
           \/ /\ fuel[h] > Rate
              /\ fuel'[h] = fuel[h] + Rate
              /\ deposits'[h] = deposits[h] + 1
  <1> DEFINE s == fs[b]
  <1>1. /\ TypeOK /\ s \in Stations /\ h \in Stations
        /\ fuel \in [Stations -> Nat] /\ deposits \in [Hives -> Nat]
        /\ fuel[h] \in Nat /\ fuel[s] \in Nat /\ team[b] \in Hives
    BY PlayerTeam DEF IInv, TypeOK, Stations
  <1>2. CASE Deposits(b)
    <2>1. s \in Hives
      BY <1>1, <1>2 DEF Deposits
    <2>2. /\ fuel' = [fuel EXCEPT ![s] = Filled(s)]
          /\ deposits' = IF fuel[s] > Rate
                         THEN [deposits EXCEPT ![s] = @ + 1] ELSE deposits
      BY <1>2 DEF DoRefuel
    <2>3. QED
      BY <1>1, <2>1, <2>2, Amounts DEF Filled
  <1>3. CASE ~Deposits(b) /\ Gathers(b)
    <2>1. /\ fuel' = [fuel EXCEPT ![s] = @ - Flow(b)]
          /\ deposits' = deposits
      BY <1>3 DEF DoRefuel
    <2>2. Flow(b) \in Nat /\ Flow(b) <= fuel[s]
      BY <1>1, Amounts, LeastProperties DEF Flow
    <2>3. QED
      BY <1>1, <2>1, <2>2
  <1>4. CASE ~Deposits(b) /\ ~Gathers(b)
    <2>1. fuel' = fuel /\ deposits' = deposits
      BY <1>4 DEF DoRefuel
    <2>2. QED
      BY <1>1, <2>1
  <1>5. QED
    BY <1>2, <1>3, <1>4

LEMMA DoRefuelStep ==
    ASSUME IInv, NEW b \in Players, DoRefuel(b)
    PROVE  IInv'
  <1> DEFINE s == fs[b]
  <1>1. /\ TypeOK /\ s \in Stations
        /\ fuel \in [Stations -> Nat] /\ fuel[s] \in Nat
        /\ tank \in [Players -> 0..MaxTank] /\ tank[b] \in 0..MaxTank
        /\ deposits \in [Hives -> Nat]
    BY DEF IInv, TypeOK
  <1>2. Flow(b) \in Nat /\ Flow(b) <= fuel[s]
    BY <1>1, Amounts, LeastProperties DEF Flow
  <1>3. fuel' \in [Stations -> Nat]
    <2>1. Filled(s) \in Nat
      BY <1>1, Amounts DEF Filled
    <2>2. fuel[s] - Flow(b) \in Nat
      BY <1>1, <1>2
    <2>3. QED
      BY <1>1, <2>1, <2>2 DEF DoRefuel
  <1>4. tank' \in [Players -> 0..MaxTank]
    <2>1. tank[b] - Least(tank[b], Flow(b)) \in 0..MaxTank
      BY <1>1, <1>2, Amounts DEF Least
    <2>2. Least(tank[b] + Flow(b), MaxTank) \in 0..MaxTank
      BY <1>1, <1>2, Amounts DEF Least
    <2>3. QED
      BY <1>1, <2>1, <2>2 DEF DoRefuel
  <1>5. refuelling' \in [Players -> BOOLEAN]
    <2>1. refuelling' = [refuelling EXCEPT ![b] = @ /\ ~Refused(b) /\ fuel[s] > Rate]
      BY DEF DoRefuel
    <2>2. (refuelling[b] /\ ~Refused(b) /\ fuel[s] > Rate) \in BOOLEAN
      OBVIOUS
    <2>3. QED
      BY <1>1, <2>1, <2>2, Zenon DEF TypeOK
  <1>6. deposits' \in [Hives -> Nat]
    <2>1. ASSUME NEW h \in Hives
          PROVE  deposits'[h] \in Nat
      BY <1>1, <2>1, RefuelEffect
    <2>2. deposits' = [h \in Hives |-> deposits'[h]]
      BY <1>1 DEF DoRefuel
    <2>3. QED
      BY <2>1, <2>2
  <1>7. TypeOK'
    BY <1>1, <1>3, <1>4, <1>5, <1>6 DEF DoRefuel, TypeOK, Players
  <1>8. NurseBooks' /\ Populated'
    BY DEF IInv, NurseBooks, Populated, DoRefuel
  <1>9. Ledger'
    <2> SUFFICES ASSUME NEW h \in Hives
                 PROVE  fuel'[h] + totalNursedFuel'[h] <= Start + Rate * deposits'[h]
      BY DEF Ledger
    <2>1. /\ fuel[h] + totalNursedFuel[h] <= Start + Rate * deposits[h]
          /\ totalNursedFuel[h] \in Nat /\ deposits[h] \in Nat /\ fuel[h] \in Nat
          /\ totalNursedFuel' = totalNursedFuel
      BY <1>1 DEF IInv, Ledger, TypeOK, DoRefuel, Stations
    <2>2. CASE fuel'[h] \in Nat /\ fuel'[h] <= fuel[h] /\ deposits'[h] = deposits[h]
      BY <2>1, <2>2, OneDeposit, Amounts
    <2>3. CASE fuel'[h] = fuel[h] + Rate /\ deposits'[h] = deposits[h] + 1
      <3>1. Rate * deposits'[h] = Rate * deposits[h] + Rate /\ Rate * deposits[h] \in Nat
        BY <2>1, <2>3, OneDeposit
      <3>2. totalNursedFuel'[h] = totalNursedFuel[h]
        BY <2>1
      <3>3. (fuel[h] + Rate) + totalNursedFuel[h] <= Start + (Rate * deposits[h] + Rate)
        BY <2>1, <3>1, Amounts, DepositAdds
      <3>. QED  BY <2>3, <3>1, <3>2, <3>3
    <2>4. QED
      BY <2>2, <2>3, RefuelEffect
  <1>10. QED
    BY <1>7, <1>8, <1>9 DEF IInv

LEMMA GivenProperties ==
    ASSUME TypeOK, NEW b \in Players
    PROVE  /\ Given(b) \in Nat /\ Given(b) <= fuel[team[b]]
           /\ ~Nurses(b) => Given(b) = 0 /\ ~Enough(b)
           /\ Nurses(b) => Given(b) > 0
           /\ LeftAside(b) \in Nat
  <1>1. /\ team[b] \in Hives /\ fuel[team[b]] \in Nat
        /\ nursedFuel[team[b]] \in Nat
    <2>1. team[b] \in Hives /\ team[b] \in Stations
      BY PlayerTeam
    <2>2. QED
      BY <2>1 DEF TypeOK
  <1>2. /\ Given(b) \in Nat /\ Given(b) <= fuel[team[b]]
        /\ ~Nurses(b) => Given(b) = 0 /\ ~Enough(b)
    <2>1. /\ Least(fuel[team[b]], NurseTick) \in Nat
          /\ Least(fuel[team[b]], NurseTick) <= fuel[team[b]]
      BY <1>1, Amounts, LeastProperties
    <2>2. CASE Nurses(b)
      BY <2>1, <2>2 DEF Given
    <2>3. CASE ~Nurses(b)
      BY <1>1, <2>3 DEF Given, Enough
    <2>4. QED
      BY <2>2, <2>3
  <1>3. Nurses(b) => Given(b) > 0
    BY <1>1, Amounts DEF Given, Nurses, Least
  <1>4. LeftAside(b) \in Nat
    BY <1>1, <1>2, Amounts DEF LeftAside, Enough
  <1>5. QED
    BY <1>2, <1>3, <1>4

(* One more bee costs one more Threshold. *)
LEMMA OneBee ==
    ASSUME NEW n \in Nat
    PROVE  /\ Threshold * (n + 1) = Threshold * n + Threshold
           /\ Threshold * n \in Nat
           /\ Threshold * 0 = 0 /\ Threshold * 1 = Threshold
  BY Amounts

(* What Do_nurse does to the hive h: nothing to any but the nurse's own.   *)
NurseTakes(h, g, n) ==
    /\ g \in Nat /\ g <= fuel[h] /\ n \in {0, 1}
    /\ nursedFuel[h] + g - Threshold * n \in Nat
    /\ fuel'[h] = fuel[h] - g
    /\ totalNursedFuel'[h] = totalNursedFuel[h] + g
    /\ nursedFuel'[h] = nursedFuel[h] + g - Threshold * n
    /\ births'[h] = births[h] + n
    /\ spawned'[h] = spawned[h] + n

NurseSpares(h) ==
    /\ fuel'[h] = fuel[h]
    /\ totalNursedFuel'[h] = totalNursedFuel[h]
    /\ nursedFuel'[h] = nursedFuel[h]
    /\ births'[h] = births[h]
    /\ spawned'[h] = spawned[h]

LEMMA NurseEffect ==
    ASSUME TypeOK, NEW b \in Players, DoNurse(b)
    PROVE  /\ NurseTakes(team[b], Given(b), IF Enough(b) THEN 1 ELSE 0)
           /\ \A s \in Stations : s # team[b] => fuel'[s] = fuel[s]
           /\ \A h \in Hives : h # team[b] => NurseSpares(h)
  <1> DEFINE o == team[b]
             g == Given(b)
             n == IF Enough(b) THEN 1 ELSE 0
             l == LeftAside(b)
  <1>1. /\ o \in Hives /\ o \in Stations /\ n \in {0, 1}
        /\ g \in Nat /\ g <= fuel[o] /\ l \in Nat
    BY PlayerTeam, GivenProperties
  <1>2. l = nursedFuel[o] + g - Threshold * n
    <2>1. CASE Enough(b)
      BY <2>1, Amounts DEF LeftAside
    <2>2. CASE ~Enough(b)
      BY <2>2, Amounts DEF LeftAside
    <2>3. QED
      BY <2>1, <2>2
  <1>3. /\ fuel' = [fuel EXCEPT ![o] = @ - g]
        /\ totalNursedFuel' = [totalNursedFuel EXCEPT ![o] = @ + g]
        /\ nursedFuel' = [nursedFuel EXCEPT ![o] = l]
        /\ births' = [births EXCEPT ![o] = @ + n]
        /\ spawned' = [spawned EXCEPT ![o] = @ + n]
    BY DEF DoNurse
  <1>4. /\ DOMAIN fuel = Stations /\ DOMAIN totalNursedFuel = Hives
        /\ DOMAIN nursedFuel = Hives /\ DOMAIN births = Hives
        /\ DOMAIN spawned = Hives /\ Hives \subseteq Stations
    BY DEF TypeOK, Stations
  <1> HIDE DEF o, g, n, l
  <1>5. NurseTakes(o, g, n)
    BY <1>1, <1>2, <1>3, <1>4 DEF NurseTakes
  <1>6. \A s \in Stations : s # o => fuel'[s] = fuel[s]
    BY <1>3, <1>4
  <1>7. \A h \in Hives : h # o => NurseSpares(h)
    BY <1>3, <1>4, <1>6 DEF NurseSpares
  <1>8. QED
    BY <1>5, <1>6, <1>7 DEF o, g, n

LEMMA NurseDomains ==
    ASSUME TypeOK, NEW b \in Players, DoNurse(b)
    PROVE  /\ fuel' = [s \in Stations |-> fuel'[s]]
           /\ totalNursedFuel' = [h \in Hives |-> totalNursedFuel'[h]]
           /\ nursedFuel' = [h \in Hives |-> nursedFuel'[h]]
           /\ births' = [h \in Hives |-> births'[h]]
           /\ spawned' = [h \in Hives |-> spawned'[h]]
  BY DEF DoNurse, TypeOK

LEMMA DoNurseStep ==
    ASSUME IInv, NEW b \in Players, DoNurse(b)
    PROVE  IInv'
  <1>1. TypeOK /\ team[b] \in Hives /\ team[b] \in Stations
    BY PlayerTeam DEF IInv
  <1>2. PICK g, n : NurseTakes(team[b], g, n)
    BY <1>1, NurseEffect
  <1>3. /\ \A s \in Stations : s # team[b] => fuel'[s] = fuel[s]
        /\ \A h \in Hives : h # team[b] => NurseSpares(h)
    BY <1>1, NurseEffect
  <1>4. g \in Nat /\ n \in {0, 1}
    BY <1>2 DEF NurseTakes
  <1>5. fuel' \in [Stations -> Nat]
    <2>1. ASSUME NEW s \in Stations
          PROVE  fuel'[s] \in Nat
      <3>1. fuel[s] \in Nat
        BY <1>1 DEF TypeOK
      <3>2. QED
        BY <1>2, <1>3, <3>1 DEF NurseTakes
    <2>2. QED
      BY <1>1, <2>1, NurseDomains
  <1>6. /\ totalNursedFuel' \in [Hives -> Nat]
        /\ nursedFuel' \in [Hives -> Nat]
        /\ births' \in [Hives -> Nat]
        /\ spawned' \in [Hives -> Nat]
    <2>1. ASSUME NEW h \in Hives
          PROVE  /\ totalNursedFuel'[h] \in Nat /\ nursedFuel'[h] \in Nat
                 /\ births'[h] \in Nat /\ spawned'[h] \in Nat
      <3>1. /\ totalNursedFuel[h] \in Nat /\ nursedFuel[h] \in Nat
            /\ births[h] \in Nat /\ spawned[h] \in Nat
        BY <1>1 DEF TypeOK
      <3>2. QED
        BY <1>2, <1>3, <1>4, <3>1 DEF NurseTakes, NurseSpares
    <2>2. QED
      BY <1>1, <2>1, NurseDomains
  <1>7. TypeOK' /\ Populated'
    BY <1>1, <1>5, <1>6
    DEF DoNurse, IInv, TypeOK, Populated, Players, playerVars
  <1>8. NurseBooks'
    <2> SUFFICES ASSUME NEW h \in Hives
                 PROVE  totalNursedFuel'[h] + nursed0'[h]
                            = nursedFuel'[h] + Threshold * spawned'[h]
      BY DEF NurseBooks
    <2>1. /\ totalNursedFuel[h] + nursed0[h] = nursedFuel[h] + Threshold * spawned[h]
          /\ totalNursedFuel[h] \in Nat /\ nursedFuel[h] \in Nat
          /\ spawned[h] \in Nat /\ nursed0[h] \in Nat
          /\ nursed0' = nursed0
      BY <1>1, Amounts DEF IInv, NurseBooks, TypeOK, DoNurse
    <2> DEFINE t == totalNursedFuel[h]
               u == nursed0[h]
               m == nursedFuel[h]
               c == Threshold * spawned[h]
    <2>c. t + u = m + c /\ t \in Nat /\ u \in Nat /\ m \in Nat /\ c \in Nat
      BY <2>1, OneBee
    <2>d. /\ (t + g) + u = (m + g) + c
          /\ (t + g) + u = (m + g - Threshold) + (c + Threshold)
      <3>1. g \in Nat /\ Threshold \in Nat
        BY <1>4, Amounts
      <3> HIDE DEF t, u, m, c
      <3>2. QED
        BY <2>c, <3>1
    <2>2. CASE h # team[b]
      BY <1>3, <2>1, <2>2 DEF NurseSpares
    <2>3. CASE h = team[b] /\ n = 0
      <3>1. Threshold * n = 0
        BY <2>3, OneBee
      <3>2. /\ spawned'[h] = spawned[h] + n
            /\ nursedFuel'[h] = nursedFuel[h] + g - Threshold * n
            /\ totalNursedFuel'[h] = totalNursedFuel[h] + g
        BY <1>2, <2>3 DEF NurseTakes
      <3>3. spawned'[h] = spawned[h] /\ nursedFuel'[h] = nursedFuel[h] + g
        BY <1>4, <2>1, <2>3, <3>1, <3>2
      <3>4. QED
        BY <2>1, <2>d, <3>2, <3>3
    <2>4. CASE h = team[b] /\ n = 1
      <3>1. Threshold * n = Threshold
        BY <2>4, OneBee
      <3>2. /\ spawned'[h] = spawned[h] + n
            /\ nursedFuel'[h] = nursedFuel[h] + g - Threshold * n
            /\ totalNursedFuel'[h] = totalNursedFuel[h] + g
        BY <1>2, <2>4 DEF NurseTakes
      <3>3. /\ spawned'[h] = spawned[h] + 1
            /\ nursedFuel'[h] = nursedFuel[h] + g - Threshold
        BY <2>4, <3>1, <3>2
      <3>4. Threshold * spawned'[h] = Threshold * spawned[h] + Threshold
        BY <2>1, <3>3, OneBee
      <3>5. QED
        BY <2>1, <2>d, <3>2, <3>3, <3>4
    <2>5. QED
      BY <1>4, <2>2, <2>3, <2>4
  <1>9. Ledger'
    <2> SUFFICES ASSUME NEW h \in Hives
                 PROVE  fuel'[h] + totalNursedFuel'[h] <= Start + Rate * deposits'[h]
      BY DEF Ledger
    <2>1. /\ fuel[h] + totalNursedFuel[h] <= Start + Rate * deposits[h]
          /\ totalNursedFuel[h] \in Nat /\ fuel[h] \in Nat /\ h \in Stations
          /\ deposits' = deposits
      BY <1>1 DEF IInv, Ledger, TypeOK, DoNurse, Stations
    <2>2. fuel'[h] + totalNursedFuel'[h] = fuel[h] + totalNursedFuel[h]
      BY <1>2, <1>3, <1>4, <2>1 DEF NurseTakes, NurseSpares
    <2>3. QED
      BY <2>1, <2>2
  <1>10. QED
    BY <1>7, <1>8, <1>9 DEF IInv

LEMMA NextIInv == IInv /\ [Next]_vars => IInv'
  <1> SUFFICES ASSUME IInv, [Next]_vars
               PROVE  IInv'
    OBVIOUS
  <1>1. CASE FuelUpdate
    BY <1>1, FuelUpdateStep
  <1>2. ASSUME NEW b \in Players, Dead(b) \/ DoRefuel(b) \/ DoNurse(b) \/ MoveOn(b)
        PROVE  IInv'
    BY <1>2, DeadStep, DoRefuelStep, DoNurseStep, MoveOnStep
  <1>3. ASSUME NEW b \in Players, RefuelKey(b) \/ RefuelKeyUp(b) \/ NurseKey(b)
        PROVE  IInv'
    BY <1>3, KeyStep
  <1>4. ASSUME NEW h \in Hives, Join(h)
        PROVE  IInv'
    BY <1>4, JoinStep
  <1>5. CASE UNCHANGED vars
    <2>1. NurseBooks' /\ Ledger'
      BY <1>5, BooksKept DEF vars
    <2>2. TypeOK' /\ Populated'
      BY <1>5 DEF IInv, TypeOK, Populated, Players, vars, stationVars,
                  playerVars, historyVars
    <2>3. QED
      BY <2>1, <2>2 DEF IInv
  <1>6. QED
    BY <1>1, <1>2, <1>3, <1>4, <1>5 DEF Next, Tick

LEMMA Invariance == Spec => []IInv
  BY InitIInv, NextIInv, PTL DEF Spec

-----------------------------------------------------------------------------
(* No station and no tank is ever overdrawn or over-full, whatever the     *)
(* amounts: Do_refuel, Do_nurse and Fuel_update all stop at what is there. *)
THEOREM NeverOverdrawn == Spec => []TypeOK
  <1>1. IInv => TypeOK
    BY DEF IInv
  <1>2. QED
    BY <1>1, Invariance, PTL

(* The nurses' books balance in every hive.                                *)
THEOREM BooksBalance == Spec => []NurseBooks
  <1>1. IInv => NurseBooks
    BY DEF IInv
  <1>2. QED
    BY <1>1, Invariance, PTL

(* Every bee a hive has raised was paid for with honey it really had.      *)
THEOREM NoBeeForNothing == Spec => []BeesPaidFor
  <1>1. IInv => BeesPaidFor
    <2> SUFFICES ASSUME IInv, NEW h \in Hives
                 PROVE  Threshold * spawned[h] <= Start + Rate * deposits[h] + nursed0[h]
      BY DEF BeesPaidFor
    <2>1. /\ fuel[h] \in Nat /\ totalNursedFuel[h] \in Nat
          /\ nursedFuel[h] \in Nat /\ nursed0[h] \in Nat
          /\ spawned[h] \in Nat /\ deposits[h] \in Nat
      BY Amounts DEF IInv, TypeOK, Stations
    <2>2. /\ totalNursedFuel[h] + nursed0[h] = nursedFuel[h] + Threshold * spawned[h]
          /\ fuel[h] + totalNursedFuel[h] <= Start + Rate * deposits[h]
      BY DEF IInv, NurseBooks, Ledger
    <2>3. /\ Threshold * spawned[h] \in Nat /\ Rate * deposits[h] \in Nat
          /\ Start \in Nat
      BY <2>1, OneBee, OneDeposit, Amounts
    <2>4. QED
      BY <2>1, <2>2, <2>3
  <1>2. QED
    BY <1>1, Invariance, PTL
(* -------------------------------------------------------------------- *)

-----------------------------------------------------------------------------
(* Every step is a step of each hive's life, or no step of it.             *)
LEMMA StartLives ==
    ASSUME Init, NEW h \in Hives
    PROVE  Life(h)!HiveInit
  <1>1. IInv
    BY InitIInv
  <1>2. /\ fuel[h] = Start /\ spawned[h] = 0 /\ nursedFuel[h] \in Nat
    BY <1>1 DEF Init, IInv, TypeOK, Stations
  <1>3. QED
    BY <1>2, Amounts DEF Life!HiveInit

(* A hive that loses honey, or none, without nursing.                      *)
LEMMA TakeLives ==
    ASSUME NEW h \in Hives, fuel[h] \in Nat,
           fuel'[h] \in Nat, fuel'[h] <= fuel[h],
           nursedFuel'[h] = nursedFuel[h], spawned'[h] = spawned[h]
    PROVE  [Life(h)!HiveNext]_(Life(h)!hiveVars)
  <1>1. CASE fuel'[h] # fuel[h]
    <2>1. fuel[h] - fuel'[h] \in 1..fuel[h] /\ fuel[h] > 0
      BY <1>1
    <2>2. fuel'[h] = fuel[h] - (fuel[h] - fuel'[h])
      OBVIOUS
    <2>3. QED
      BY <2>1, <2>2 DEF Life!HiveNext, Life!BringOrTake, Life!Take
  <1>2. CASE fuel'[h] = fuel[h]
    BY <1>2 DEF Life!hiveVars
  <1>3. QED
    BY <1>1, <1>2

LEMMA FuelUpdateLives ==
    ASSUME IInv, FuelUpdate, NEW h \in Hives
    PROVE  [Life(h)!HiveNext]_(Life(h)!hiveVars)
  <1>1. /\ fuel[h] \in Nat /\ h \in Stations /\ Upkeep \in Nat
        /\ nursedFuel'[h] = nursedFuel[h] /\ spawned'[h] = spawned[h]
    BY UpkeepNat DEF IInv, TypeOK, FuelUpdate, Stations, historyVars
  <1>2. fuel'[h] \in Nat /\ fuel'[h] <= fuel[h]
    BY <1>1 DEF FuelUpdate
  <1>3. QED
    BY <1>1, <1>2, TakeLives

LEMMA DoRefuelLives ==
    ASSUME IInv, NEW b \in Players, DoRefuel(b), NEW h \in Hives
    PROVE  [Life(h)!HiveNext]_(Life(h)!hiveVars)
  <1>1. /\ fuel[h] \in Nat /\ Rate \in Nat \ {0}
        /\ nursedFuel'[h] = nursedFuel[h] /\ spawned'[h] = spawned[h]
    BY Amounts DEF IInv, TypeOK, DoRefuel, Stations
  <1>2. CASE fuel'[h] \in Nat /\ fuel'[h] <= fuel[h]
    BY <1>1, <1>2, TakeLives
  <1>3. CASE fuel[h] > Rate /\ fuel'[h] = fuel[h] + Rate
    <2>1. fuel[h] > 0 /\ \E x \in 1..fuel[h] : fuel'[h] = fuel[h] + x
      BY <1>1, <1>3
    <2>2. QED
      BY <1>1, <2>1 DEF Life!HiveNext, Life!BringOrTake, Life!Bring
  <1>4. QED
    BY <1>2, <1>3, RefuelEffect

LEMMA DoNurseLives ==
    ASSUME IInv, NEW b \in Players, DoNurse(b), NEW h \in Hives
    PROVE  [Life(h)!HiveNext]_(Life(h)!hiveVars)
  <1>1. /\ TypeOK /\ fuel[h] \in Nat /\ nursedFuel[h] \in Nat
        /\ spawned[h] \in Nat /\ Threshold \in Nat /\ h \in Stations
    BY Amounts DEF IInv, TypeOK, Stations
  <1>2. CASE h # team[b]
    <2>1. NurseSpares(h)
      BY <1>1, <1>2, NurseEffect
    <2>2. QED
      BY <2>1 DEF NurseSpares, Life!hiveVars
  <1>3. CASE h = team[b] /\ Nurses(b)
    <2>1. PICK n \in {0, 1} : NurseTakes(h, Given(b), n)
      BY <1>1, <1>3, NurseEffect
    <2>2. Given(b) \in 1..fuel[h] /\ Given(b) \in Nat /\ fuel[h] > 0
      BY <1>1, <1>3, GivenProperties
    <2>3. /\ fuel'[h] = fuel[h] - Given(b)
          /\ spawned'[h] = spawned[h] + n
          /\ nursedFuel'[h] = nursedFuel[h] + Given(b) - Threshold * n
      BY <2>1 DEF NurseTakes
    <2>4. nursedFuel'[h] + n * Threshold = nursedFuel[h] + (fuel[h] - fuel'[h])
      <3>1. CASE n = 0
        BY <1>1, <2>2, <2>3, <3>1
      <3>2. CASE n = 1
        BY <1>1, <2>2, <2>3, <3>2
      <3>3. QED
        BY <3>1, <3>2
    <2>5. QED
      BY <2>2, <2>3, <2>4 DEF Life!HiveNext, Life!Nurse, Life!Take
  <1>4. CASE h = team[b] /\ ~Nurses(b)
    <2>1. NurseTakes(h, 0, 0)
      BY <1>1, <1>4, NurseEffect, GivenProperties
    <2>2. Threshold * 0 = 0
      BY OneBee
    <2>3. QED
      BY <1>1, <2>1, <2>2 DEF NurseTakes, Life!hiveVars
  <1>5. QED
    BY <1>2, <1>3, <1>4

LEMMA NextLives ==
    ASSUME IInv, [Next]_vars, NEW h \in Hives
    PROVE  [Life(h)!HiveNext]_(Life(h)!hiveVars)
  <1>1. ASSUME NEW b \in Players, DoRefuel(b) \/ DoNurse(b)
        PROVE  [Life(h)!HiveNext]_(Life(h)!hiveVars)
    BY <1>1, DoRefuelLives, DoNurseLives
  <1>2. ASSUME UNCHANGED <<stationVars, historyVars>>
        PROVE  [Life(h)!HiveNext]_(Life(h)!hiveVars)
    BY <1>2 DEF stationVars, historyVars, Life!hiveVars
  <1>3. ASSUME NEW b \in Players,
               Dead(b) \/ MoveOn(b) \/ RefuelKey(b) \/ RefuelKeyUp(b) \/ NurseKey(b)
        PROVE  UNCHANGED <<stationVars, historyVars>>
    BY <1>3 DEF Dead, MoveOn, RefuelKey, RefuelKeyUp, NurseKey
  <1>4. ASSUME NEW g \in Hives, Join(g)
        PROVE  UNCHANGED <<stationVars, historyVars>>
    BY <1>4 DEF Join
  <1>5. (UNCHANGED vars) => UNCHANGED <<stationVars, historyVars>>
    BY DEF vars
  <1>6. QED
    BY <1>1, <1>2, <1>3, <1>4, <1>5, FuelUpdateLives DEF Next, Tick

(* Every hive lives as HiveLife says: once it is out of honey nothing and  *)
(* nobody fills it again, and it raises no more bees.                      *)
THEOREM LifeRefined == Spec => HivesLive
  <1>1. Init => \A h \in Hives : Life(h)!HiveInit
    BY StartLives
  <1>2. IInv /\ [Next]_vars
            => [\A h \in Hives : [Life(h)!HiveNext]_(Life(h)!hiveVars)]_vars
    BY NextLives
  <1>3. QED
    BY <1>1, <1>2, Invariance, PTL DEF Spec, HivesLive
=============================================================================
