------------------------------ MODULE RoadMap ------------------------------
(***************************************************************************)
(* The graph a chaser flies by (graph.c): vertices with an id and a place, *)
(* and roads between them that weigh their length, rounded down.           *)
(*                                                                         *)
(* Ids are positive (mapgen.c numbers the points from one), which the code *)
(* relies on: a path is an array of ids that ends at the first zero.  A    *)
(* graph is kept as its set of roads; the order of the edge array shows    *)
(* only in which of several roads a search takes first, a free choice.     *)
(***************************************************************************)
EXTENDS Integers, FiniteSets

CONSTANTS Vertex,  \* the ids in the map file
          Place,   \* [Vertex -> [x, y]]
          Clear    \* the roads in the map file: those without a wall

(* add_edge takes two different vertices, once in either direction. *)
Road == {{u, v} : u, v \in Vertex} \ {{v} : v \in Vertex}

Square(n) == n * n

(* distance_formula: the square root goes into an int. *)
Distance == [u \in Vertex |-> [v \in Vertex |->
  LET squares == Square(Place[u].x - Place[v].x) + Square(Place[u].y - Place[v].y)
  IN  CHOOSE d \in 0..squares : Square(d) <= squares /\ squares < Square(d + 1)]]

Joined(roads, u, v) == u # v /\ {u, v} \in roads

Neighbours(roads, u) == {v \in Vertex : Joined(roads, u, v)}

ASSUME MapAssumption ==
  /\ Vertex \subseteq Nat \ {0}
  /\ IsFiniteSet(Vertex)
  /\ Place \in [Vertex -> [x : Int, y : Int]]
  /\ Clear \subseteq Road
  /\ \A u, v \in Vertex : u # v => Distance[u][v] \in Nat \ {0}
=============================================================================
