--------------------------------- MODULE Hive ---------------------------------
(***************************************************************************)
(* The honey economy on the server: hives (bases with fuel of their own),  *)
(* honey sources (fuel cells), the tanks of the bees, and the honey nurses *)
(* put aside to raise new bees (server/update.c: Fuel_update, Do_refuel,   *)
(* Do_nurse; server/event.c: the refuel and nurse keys; ship.c).  The      *)
(* server has one thread: a tick runs Fuel_update and then the players in  *)
(* their order, each through the stages "refuel", "nurse" and "move".      *)
(***************************************************************************)
EXTENDS Integers, Sequences

CONSTANTS
    Hives,          \* one per team, and standing for the team
    Cells,          \* the fuel cells that are nobody's base
    InitTeam,       \* the players at the start: the hive of each
    Start,          \* START_STATION_FUEL = MAX_STATION_FUEL
    Regeneration,   \* STATION_REGENERATION * timeStep
    Rate,           \* REFUEL_RATE * timeStep
    NurseTick,      \* NURSE_TICK
    Threshold,      \* NURSE_THRESHOLD
    MaxTank,        \* a bee's fuel.max
    InitTank,       \* a quarter of it
    Garbage,        \* what World_place_base leaves in nursedFuel
    MaxPlayers,     \* bound: players on the server
    MaxDeposits     \* bound: deposits at a hive after which none is begun

Stations == Hives \cup Cells
Nowhere == "nowhere"            \* more than 90 pixels from every station

ASSUME HiveAssumption ==
    /\ Hives \cap Cells = {} /\ Nowhere \notin Stations
    /\ InitTeam \in Seq(Hives) /\ InitTeam # <<>>
    /\ Start \in Nat \ {0} /\ Rate \in Nat \ {0} /\ NurseTick \in Nat \ {0}
    /\ Threshold \in Nat \ {0} /\ Regeneration \in Nat \ {0}
    /\ MaxTank \in Nat /\ InitTank \in 0..MaxTank
    /\ Garbage \subseteq Nat
    /\ MaxPlayers \in Nat /\ MaxDeposits \in Nat

VARIABLES
    fuel,           \* fs->fuel of every station
    nursedFuel,     \* of every hive: put aside for its next bee
    totalNursedFuel,\* of every hive: put aside at any time
    team,           \* the players, in the order they are updated
    tank,           \* their fuel.sum
    refuelling,     \* their USES_REFUEL bits
    fs,             \* the station each refuels at
    nursing,        \* their nurse keys
    where,          \* the station each is in range of, or Nowhere
    turn,           \* the player being updated, or 0 between ticks
    stage,          \* and how far with it
    births,         \* clients started by SpawnPlayer that have not joined
    nursed0,        \* history: what nursedFuel started from
    deposits,       \* history: deposits made at each hive
    spawned         \* history: SpawnPlayer calls for each hive

stationVars == <<fuel, nursedFuel, totalNursedFuel>>
playerVars == <<team, tank, refuelling, fs, nursing, where>>
historyVars == <<nursed0, deposits, spawned>>
vars == <<stationVars, playerVars, turn, stage, births, historyVars>>

Players == 1..Len(team)

(* The types; no station and no tank is ever overdrawn, and no tank is     *)
(* ever over-full.                                                         *)
TypeOK ==
    /\ fuel \in [Stations -> Nat]
    /\ nursedFuel \in [Hives -> Nat]
    /\ totalNursedFuel \in [Hives -> Nat]
    /\ team \in Seq(Hives)
    /\ tank \in [Players -> 0..MaxTank]
    /\ refuelling \in [Players -> BOOLEAN]
    /\ fs \in [Players -> Stations]
    /\ nursing \in [Players -> BOOLEAN]
    /\ where \in [Players -> Stations \cup {Nowhere}]
    /\ turn \in 0..Len(team)
    /\ stage \in {"refuel", "nurse", "move"}
    /\ births \in [Hives -> Nat]
    /\ nursed0 \in [Hives -> Garbage]
    /\ deposits \in [Hives -> Nat]
    /\ spawned \in [Hives -> Nat]

(* World_place_base, World_place_fuel and Player_init_fuel; a bee starts   *)
(* at its base.  The totals are uninitialised too: nothing but the log     *)
(* reads totalNursedFuel, so its first value is taken to be 0.             *)
Init ==
    /\ fuel = [s \in Stations |-> Start]
    /\ nursedFuel \in [Hives -> Garbage]
    /\ totalNursedFuel = [h \in Hives |-> 0]
    /\ team = InitTeam
    /\ tank = [b \in Players |-> InitTank]
    /\ refuelling = [b \in Players |-> FALSE]
    /\ fs = [b \in Players |-> team[b]]
    /\ nursing = [b \in Players |-> FALSE]
    /\ where = [b \in Players |-> team[b]]
    /\ turn = 0
    /\ stage = "refuel"
    /\ births = [h \in Hives |-> 0]
    /\ nursed0 = nursedFuel
    /\ deposits = [h \in Hives |-> 0]
    /\ spawned = [h \in Hives |-> 0]

-----------------------------------------------------------------------------
(* Between two ticks: keys, and new players.                               *)

(* Player_refuel: the nearest station is chosen, in range or not. *)
RefuelKey(b) ==
    /\ turn = 0
    /\ where[b] = team[b] => deposits[team[b]] < MaxDeposits
    /\ refuelling' = [refuelling EXCEPT ![b] = TRUE]
    /\ \E s \in Stations :
         /\ where[b] \in Stations => s = where[b]
         /\ fs' = [fs EXCEPT ![b] = s]
    /\ UNCHANGED <<stationVars, team, tank, nursing, where, turn, stage,
                   births, historyVars>>

RefuelKeyUp(b) ==
    /\ turn = 0
    /\ refuelling' = [refuelling EXCEPT ![b] = FALSE]
    /\ UNCHANGED <<stationVars, team, tank, fs, nursing, where, turn, stage,
                   births, historyVars>>

NurseKey(b) ==
    /\ turn = 0
    /\ nursing' = [nursing EXCEPT ![b] = ~@]
    /\ UNCHANGED <<stationVars, team, tank, refuelling, fs, where, turn, stage,
                   births, historyVars>>

(* The client SpawnPlayer started logs in: a player at the end of the list *)
(* with the keys up and a tank filled by a quarter, at its base.           *)
Join(h) ==
    /\ turn = 0
    /\ births[h] > 0
    /\ Len(team) < MaxPlayers
    /\ births' = [births EXCEPT ![h] = @ - 1]
    /\ team' = Append(team, h)
    /\ tank' = Append(tank, InitTank)
    /\ refuelling' = Append(refuelling, FALSE)
    /\ fs' = Append(fs, h)
    /\ nursing' = Append(nursing, FALSE)
    /\ where' = Append(where, h)
    /\ UNCHANGED <<stationVars, turn, stage, historyVars>>

-----------------------------------------------------------------------------
(* A tick.                                                                 *)

Upkeep == Len(team) * Regeneration

Least(m, n) == IF m < n THEN m ELSE n

(* Mutant of FuelUpdate: a hive that cannot pay in full pays nothing. *)
FuelUpdateSparing ==
    /\ turn = 0
    /\ fuel' = [s \in Stations |->
                  IF s \in Hives
                  THEN IF fuel[s] > Upkeep THEN fuel[s] - Upkeep ELSE fuel[s]
                  ELSE Least(fuel[s] + Upkeep, Start)]
    /\ turn' = 1
    /\ stage' = "refuel"
    /\ UNCHANGED <<nursedFuel, totalNursedFuel, playerVars, births, historyVars>>

(* Fuel_update: every hive pays for the players, all of them and its own   *)
(* or not, until it is empty; every cell grows by as much until it is full.*)
FuelUpdate ==
    /\ turn = 0
    /\ fuel' = [s \in Stations |->
                  IF s \in Hives
                  THEN IF fuel[s] > Upkeep THEN fuel[s] - Upkeep ELSE 0
                  ELSE Least(fuel[s] + Upkeep, Start)]
    /\ turn' = 1
    /\ stage' = "refuel"
    /\ UNCHANGED <<nursedFuel, totalNursedFuel, playerVars, births, historyVars>>

NextPlayer ==
    /\ turn' = IF turn = Len(team) THEN 0 ELSE turn + 1
    /\ stage' = "refuel"

(* Update_players, of a bee that has died: it is passed by until it has    *)
(* recovered.  Its tank is filled by a quarter again, it refuels no more   *)
(* (Player_death_reset, Go_home), but it goes on nursing if it did.        *)
Dead(b) ==
    /\ turn = b
    /\ stage = "refuel"
    /\ tank' = [tank EXCEPT ![b] = InitTank]
    /\ refuelling' = [refuelling EXCEPT ![b] = FALSE]
    /\ where' = [where EXCEPT ![b] = team[b]]
    /\ \/ NextPlayer                                   \* still dead
       \/ stage' = "nurse" /\ UNCHANGED turn           \* recovered
    /\ UNCHANGED <<stationVars, team, fs, nursing, births, historyVars>>

(* Do_refuel refuses: out of range, or the tank is full. *)
Refused(b) == where[b] # fs[b] \/ tank[b] >= MaxTank

(* Mutant of Flow: it does not stop at what the station holds. *)
FlowUnchecked(b) == Rate

(* What flows between the station and a tank in a tick. *)
Flow(b) == Least(fuel[fs[b]], Rate)

(* Mutant of Filled: an empty hive is filled like any other. *)
FilledAnyway(h) == fuel[h] + Rate

(* A hive after a gift: it gets Rate even of a bee that has less, and one  *)
(* that holds no more than Rate is emptied by it.                          *)
Filled(h) == IF fuel[h] > Rate THEN fuel[h] + Rate ELSE 0

Deposits(b) == refuelling[b] /\ ~Refused(b) /\ fs[b] = team[b]
Gathers(b) == refuelling[b] /\ ~Refused(b) /\ fs[b] # team[b]

(* Do_refuel with one tank (initialtanks is 0): at its own hive the bee    *)
(* gives, elsewhere it takes, and the last of a station stops it.          *)
DoRefuel(b) ==
    /\ turn = b
    /\ stage = "refuel"
    /\ stage' = "nurse"
    /\ LET s == fs[b]
           some == fuel[s] > Rate
       IN  /\ fuel' = IF Deposits(b) THEN [fuel EXCEPT ![s] = Filled(s)]
                      ELSE IF Gathers(b) THEN [fuel EXCEPT ![s] = @ - Flow(b)]
                      ELSE fuel
           /\ tank' = IF Deposits(b)
                      THEN [tank EXCEPT ![b] = @ - Least(@, Flow(b))]
                      ELSE IF Gathers(b)
                      THEN [tank EXCEPT ![b] = Least(@ + Flow(b), MaxTank)]
                      ELSE tank
           /\ refuelling' = [refuelling EXCEPT ![b] = @ /\ ~Refused(b) /\ some]
           /\ deposits' = IF Deposits(b) /\ some
                          THEN [deposits EXCEPT ![s] = @ + 1] ELSE deposits
    /\ UNCHANGED <<nursedFuel, totalNursedFuel, team, fs, nursing, where, turn,
                   births, nursed0, spawned>>

(* Do_nurse finds the base in range, with honey left. *)
Nurses(b) == nursing[b] /\ where[b] = team[b] /\ fuel[team[b]] # 0

(* NurseTick, or what is left. *)
Given(b) == IF Nurses(b) THEN Least(fuel[team[b]], NurseTick) ELSE 0

Enough(b) == Nurses(b) /\ nursedFuel[team[b]] + Given(b) >= Threshold

(* Mutants of LeftAside: the bee costs nothing, or all there is. *)
LeftAsideUnpaid(b) == nursedFuel[team[b]] + Given(b)

LeftAsideReset(b) ==
    IF Enough(b) THEN 0 ELSE nursedFuel[team[b]] + Given(b)

LeftAside(b) ==
    nursedFuel[team[b]] + Given(b) - (IF Enough(b) THEN Threshold ELSE 0)

(* Do_nurse and SpawnPlayer: one bee is started when Threshold is reached. *)
DoNurse(b) ==
    /\ turn = b
    /\ stage = "nurse"
    /\ stage' = "move"
    /\ LET h == team[b]
           one == IF Enough(b) THEN 1 ELSE 0
       IN  /\ fuel' = [fuel EXCEPT ![h] = @ - Given(b)]
           /\ totalNursedFuel' = [totalNursedFuel EXCEPT ![h] = @ + Given(b)]
           /\ nursedFuel' = [nursedFuel EXCEPT ![h] = LeftAside(b)]
           /\ births' = [births EXCEPT ![h] = @ + one]
           /\ spawned' = [spawned EXCEPT ![h] = @ + one]
    /\ UNCHANGED <<playerVars, turn, nursed0, deposits>>

(* The rest of Update_players: a tank with no room for another Rate ends   *)
(* the refuelling, and the bee moves (not to its hive to deposit there,    *)
(* once MaxDeposits is reached).                                           *)
MoveOn(b) ==
    /\ turn = b
    /\ stage = "move"
    /\ NextPlayer
    /\ refuelling' = [refuelling EXCEPT ![b] = @ /\ tank[b] <= MaxTank - Rate]
    /\ \E s \in Stations \cup {Nowhere} :
         /\ s = team[b] /\ refuelling'[b] => deposits[s] < MaxDeposits
         /\ where' = [where EXCEPT ![b] = s]
    /\ UNCHANGED <<stationVars, team, tank, fs, nursing, births, historyVars>>

Tick ==
    \/ FuelUpdate
    \/ \E b \in Players : Dead(b) \/ DoRefuel(b) \/ DoNurse(b) \/ MoveOn(b)

Next ==
    \/ Tick
    \/ \E b \in Players : RefuelKey(b) \/ RefuelKeyUp(b) \/ NurseKey(b)
    \/ \E h \in Hives : Join(h)

Spec == Init /\ [][Next]_vars

(* The server's timer: ticks go on. *)
FairSpec == Spec /\ WF_vars(Tick)

-----------------------------------------------------------------------------
(* The nurses' books balance: what a hive has put aside in all is what it  *)
(* holds aside now and what its bees have cost (Do_nurse, whose last part  *)
(* of a hive is less than NurseTick).                                      *)
NurseBooks ==
    \A h \in Hives :
        totalNursedFuel[h] + nursed0[h] = nursedFuel[h] + Threshold * spawned[h]

(* No bee without honey: the bees a hive has raised were paid for by what  *)
(* it started with, what was deposited at it, and what World_place_base    *)
(* left in nursedFuel, however nurses, robbers, upkeep and foragers take   *)
(* turns (Do_nurse, Do_refuel, Fuel_update).                               *)
BeesPaidFor ==
    \A h \in Hives :
        Threshold * spawned[h] <= Start + Rate * deposits[h] + nursed0[h]

(* A hive lives as HiveLife says: above all, one without honey is never    *)
(* filled again, by no forager (Do_refuel's test on the fuel of the hive), *)
(* and raises no more bees (Do_nurse).                                     *)
Life(h) == INSTANCE HiveLife WITH honey <- fuel[h], aside <- nursedFuel[h],
                                  raised <- spawned[h]
HivesLive ==
    /\ \A h \in Hives : Life(h)!HiveInit
    /\ [][\A h \in Hives : [Life(h)!HiveNext]_(Life(h)!hiveVars)]_vars

(* Once nobody refuels any more every hive starves, whatever it holds and  *)
(* whoever is on the server (Fuel_update).                                 *)
Idle == \A b \in Players : ~refuelling[b]
HivesStarve == <>[]Idle => <>[](\A h \in Hives : fuel[h] = 0)
=============================================================================
