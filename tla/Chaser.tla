------------------------------- MODULE Chaser -------------------------------
(***************************************************************************)
(* A chaser that flies from point to point of its map (chaser.c), and the  *)
(* danger points the players tell it to stay away from.  A frame runs      *)
(* AI_loop: handleMsgBuffer, then what the bot's state asks for, which may *)
(* be a search (WeightedSearch) and the first leg of its path.             *)
(*                                                                         *)
(* Where the bot is, what is within POINT_PRECISION of it, whether a wall  *)
(* is in its way, whether it lives and sees an enemy is the server's       *)
(* business: a free choice in each frame.                                  *)
(***************************************************************************)
EXTENDS WeightedSearch

CONSTANTS
  Danger,        \* points a message can name
  NoPoint,       \* -1, in a free place of avoidPoints
  Radius,
  Crossed,       \* [Danger -> [Radius -> SUBSET Road]]: lineInCircle
  NUM_AVOIDPTS,
  MinEnemySpottedTime

ASSUME ChaserAssumption ==
  /\ NoPoint \notin Danger
  /\ Radius \subseteq Nat \ {0}
  /\ NUM_AVOIDPTS \in Nat /\ MinEnemySpottedTime \in Nat
  /\ \A p \in Danger, r \in Radius : Crossed[p][r] \subseteq Road

VARIABLES
  frame,         \* "message", "control" or "plan": how far AI_loop is
  avoidPoints, safeMap, avoidant, focused,
  target,        \* v of goToRandom
  destId, interPointId, pathIndex,
  enemySpottedRecently

dangerVars == <<avoidPoints, safeMap>>
traitVars  == <<avoidant, focused>>
legVars    == <<destId, interPointId, pathIndex>>
chaserVars == <<frame, dangerVars, traitVars, target, legVars, enemySpottedRecently>>
allVars    == <<vars, chaserVars>>

Nowhere == -1    \* the "null" id
Free    == [point |-> NoPoint, r |-> -1]

FirstOf(S) == CHOOSE i \in S : \A j \in S : i <= j

(* After initialize(); messages of the frame before it find no free place  *)
(* in avoidPoints and are lost.                                            *)
ChaserInit ==
  /\ alg = "dijkstra"
  /\ edges = Clear
  /\ start \in Vertex
  /\ end = start
  /\ pc = "done"
  /\ path = <<>>
  /\ Fresh
  /\ frame = "message"
  /\ avoidPoints = [i \in 1..NUM_AVOIDPTS |-> Free]
  /\ safeMap = Clear
  /\ avoidant = 1 /\ focused = 1
  /\ target = None
  /\ destId = Nowhere /\ interPointId = Nowhere /\ pathIndex = 0
  /\ enemySpottedRecently = 0
-----------------------------------------------------------------------------
(* The messages. *)

SafeRoads(points) ==
  {road \in Clear : \A i \in DOMAIN points :
     points[i] # Free => road \notin Crossed[points[i].point][points[i].r]}

ModMap == safeMap' = SafeRoads(avoidPoints')

InterruptPath == destId' = Nowhere /\ UNCHANGED <<interPointId, pathIndex>>

(* The loop of addDangerPoint stops at the point, or at the first free place. *)
PlacesFor(p) == {i \in DOMAIN avoidPoints : avoidPoints[i].point \in {p, NoPoint}}

HandleAvoidFlyingOn(p, r) ==
  /\ PlacesFor(p) # {}
  /\ avoidPoints[FirstOf(PlacesFor(p))] # [point |-> p, r |-> r]
  /\ avoidPoints' = [avoidPoints EXCEPT ![FirstOf(PlacesFor(p))] = [point |-> p, r |-> r]]
  /\ ModMap
  /\ UNCHANGED <<legVars, traitVars>>

HandleAvoid(p, r) ==
  /\ PlacesFor(p) # {}
  /\ avoidPoints[FirstOf(PlacesFor(p))] # [point |-> p, r |-> r]
  /\ avoidPoints' = [avoidPoints EXCEPT ![FirstOf(PlacesFor(p))] = [point |-> p, r |-> r]]
  /\ ModMap
  /\ InterruptPath
  /\ UNCHANGED traitVars

PlacesOf(p) == {i \in DOMAIN avoidPoints : avoidPoints[i].point = p}

WithoutPlaceHollow(i) == [avoidPoints EXCEPT ![i] = Free]

(* The places behind i move down by one. *)
WithoutPlace(i) ==
  [j \in DOMAIN avoidPoints |->
     IF j < i THEN avoidPoints[j]
     ELSE IF j < NUM_AVOIDPTS THEN avoidPoints[j + 1] ELSE Free]

HandleRemavoid(p) ==
  /\ PlacesOf(p) # {}
  /\ avoidPoints' = WithoutPlace(FirstOf(PlacesOf(p)))
  /\ ModMap
  /\ InterruptPath
  /\ UNCHANGED traitVars

(* Of the traits only avoidant and focused bear on the path. *)
HandleTrait ==
  /\ avoidant' \in {0, 1}
  /\ focused' \in {0, 1}
  /\ UNCHANGED <<dangerVars, legVars>>

(* HandleTrait with both as they were is the frame without a message, or   *)
(* with one that changes nothing.                                          *)
HandleMsgBuffer ==
  /\ frame = "message"
  /\ frame' = "control"
  /\ \/ HandleTrait
     \/ \E p \in Danger : HandleRemavoid(p) \/ \E r \in Radius : HandleAvoid(p, r)
  /\ UNCHANGED <<vars, target, enemySpottedRecently>>
-----------------------------------------------------------------------------
(* The rest of the frame. *)

EndFrame == frame' = "message" /\ UNCHANGED <<dangerVars, traitVars>>

CountDown ==
  enemySpottedRecently' = IF enemySpottedRecently = 0 THEN MinEnemySpottedTime
                          ELSE enemySpottedRecently - 1

EnemySpotted ==
  /\ frame = "control"
  /\ InterruptPath
  /\ CountDown
  /\ EndFrame
  /\ UNCHANGED <<vars, target>>

Dead ==
  /\ frame = "control"
  /\ EndFrame
  /\ UNCHANGED <<vars, target, legVars, enemySpottedRecently>>

NoEnemyInView == frame = "control" /\ UNCHANGED enemySpottedRecently

NoEnemy == frame = "control" /\ enemySpottedRecently = 0 /\ UNCHANGED enemySpottedRecently

FlyAimlessly ==
  /\ NoEnemy
  /\ focused = 0
  /\ EndFrame
  /\ UNCHANGED <<vars, target, legVars>>

(* pathToPointId from the vertex nearest to the bot. *)
PlanPath(here) ==
  /\ target' # destId
  /\ destId' = target'
  /\ frame' = "plan"
  /\ edges' = IF avoidant = 1 THEN safeMap ELSE Clear
  /\ start' = here
  /\ end' = target'
  /\ pc' = "call"
  /\ path' = <<>>
  /\ UNCHANGED <<alg, locals, dangerVars, traitVars, interPointId, pathIndex>>

(* The leg to the next point of the path, unless a wall has come between.  *)
NextLegAnyway(near) ==
  /\ interPointId \in near
  /\ pathIndex' = pathIndex + 1
  /\ interPointId' = IF pathIndex' < Len(path) THEN path[pathIndex' + 1] ELSE None
  /\ UNCHANGED destId

NextLeg(near) ==
  /\ interPointId \in near
  /\ interPointId # destId
  /\ pathIndex' = pathIndex + 1
  /\ interPointId' = IF pathIndex' < Len(path) THEN path[pathIndex' + 1] ELSE None
  /\ UNCHANGED destId

SameLeg(near) == interPointId \in near => interPointId = destId

FlyPath(near) ==
  /\ target' = destId
  /\ \/ InterruptPath
     \/ NextLeg(near)
     \/ SameLeg(near) /\ UNCHANGED legVars
  /\ EndFrame
  /\ UNCHANGED vars

(* goToRandom: a new random point when there is none, or it is near; then  *)
(* goToId.                                                                 *)
GoToRandom ==
  /\ NoEnemy
  /\ focused = 1
  /\ \E here \in Vertex, near \in SUBSET Vertex :
       /\ near = {} \/ here \in near
       /\ target' \in IF target \in near \union {None} THEN Vertex ELSE {target}
       /\ PlanPath(here) \/ FlyPath(near)

SearchStep ==
  /\ frame = "plan"
  /\ StartsAtEnd \/ Dijkstra \/ Retrace
  /\ UNCHANGED chaserVars

(* Back in goToId.  Without a path, pathToPointId has interrupted it, and  *)
(* the zero in path[0] is taken for the next point all the same.           *)
PathPlanned ==
  /\ frame = "plan"
  /\ pc = "done"
  /\ destId' = IF path = <<>> THEN Nowhere ELSE destId
  /\ pathIndex' = 0
  /\ interPointId' = IF path = <<>> THEN None ELSE path[1]
  /\ EndFrame
  /\ UNCHANGED <<vars, target, enemySpottedRecently>>

AI_loop ==
  \/ HandleMsgBuffer
  \/ EnemySpotted
  \/ Dead
  \/ FlyAimlessly
  \/ GoToRandom
  \/ SearchStep
  \/ PathPlanned

ChaserSpec == ChaserInit /\ [][AI_loop]_allVars
-----------------------------------------------------------------------------
Places == [point : Danger, r : Radius] \union {Free}

(* Types; the chaser's own variables. *)
ChaserTypeOK ==
  /\ frame \in {"message", "control", "plan"}
  /\ avoidPoints \in [1..NUM_AVOIDPTS -> Places]
  /\ safeMap \subseteq Clear
  /\ avoidant \in {0, 1} /\ focused \in {0, 1}
  /\ target \in Vertex \union {None}
  /\ destId \in Vertex \union {Nowhere}
  /\ interPointId \in Vertex \union {None, Nowhere}
  /\ pathIndex \in 0..Cardinality(Vertex)
  /\ enemySpottedRecently \in 0..MinEnemySpottedTime

Flying == frame # "plan" /\ destId # Nowhere

(* The reference for what is dangerous: what the list says of the points.  *)
Radii(p) == {avoidPoints[i].r : i \in PlacesOf(p)}

RoadsInDanger ==
  {road \in Clear : \E p \in Danger : \E r \in Radii(p) : road \in Crossed[p][r]}

(* A path in use was planned on the whole map or on the safe map as it is  *)
(* now: no plan outlives the danger points it was made for, and a danger   *)
(* point taken back frees its roads for the next one.                      *)
FliesCurrentMap ==
  Flying =>
    /\ edges \in {Clear, Clear \ RoadsInDanger}
    /\ \A i \in 1..Len(path) - 1 : Joined(edges, path[i], path[i + 1])

(* The chaser never runs out of its path: the point it flies to is where   *)
(* pathIndex says, the last one is the destination, and interPointId is an *)
(* id of the map, through interruptions and searches that found nothing.   *)
WaypointAhead ==
  Flying =>
    /\ pathIndex < Len(path)
    /\ interPointId = path[pathIndex + 1]
    /\ path[Len(path)] = destId

(* With the types. *)
ChaserInv == ChaserTypeOK /\ WaypointAhead

(* While an enemy has been seen lately, no path is in use: the next one is *)
(* planned from where the fight has taken the chaser.                      *)
HaltsForEnemies == enemySpottedRecently > 0 => ~Flying

(* The list is a table of radii: the last message about a point counts,    *)
(* whatever was added and removed before it.                               *)
Zones == INSTANCE DangerZones WITH
  Room <- NUM_AVOIDPTS,
  zone <- [p \in Danger |-> Radii(p)]

RefinesZones == Zones!ZoneSpec
=============================================================================
