---------------------------- MODULE DangerZones ----------------------------
(***************************************************************************)
(* What the messages avoid and remavoid promise (README.CHASER): every     *)
(* point has one radius to stay away from, or none, and a message changes  *)
(* that of the point it names, unless there is no room for another point.  *)
(***************************************************************************)
EXTENDS FiniteSets, Naturals

CONSTANTS Danger, Radius, Room

VARIABLE zone    \* the radii of every point: none, or one

Marked == {p \in Danger : zone[p] # {}}

ZoneInit == zone = [p \in Danger |-> {}]

Mark(p, r) ==
  /\ p \in Marked \/ Cardinality(Marked) < Room
  /\ zone' = [zone EXCEPT ![p] = {r}]

Unmark(p) == zone' = [zone EXCEPT ![p] = {}]

ZoneNext == \E p \in Danger : Unmark(p) \/ \E r \in Radius : Mark(p, r)

ZoneSpec == ZoneInit /\ [][ZoneNext]_zone
=============================================================================
