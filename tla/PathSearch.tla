----------------------------- MODULE PathSearch -----------------------------
(***************************************************************************)
(* One call of pathToPointId (chaser.c): the switch over the four          *)
(* algorithms, each run turn by turn on any graph over the vertices.       *)
(***************************************************************************)
EXTENDS BreadthFirst, DepthFirst, WeightedSearch

CONSTANT Algorithm

(* A path over all the points is shorter than INT_MAX, which the searches  *)
(* take for infinity.  The points are pixels of one map, whose width and   *)
(* height are shorts (setup.h), so a road has less than 50000 of them.     *)
ASSUME LengthAssumption ==
  \E far \in 0..INT_MAX :
    /\ far * Cardinality(Vertex) < INT_MAX
    /\ \A u, v \in Vertex : Distance[u][v] <= far

(* mapgen.c: the map file has every pair of points without a wall between  *)
(* them; modMap takes some of those roads away again.                      *)
Called ==
  /\ edges \in SUBSET Clear
  /\ start \in Vertex
  /\ end \in Vertex
  /\ pc = "call"
  /\ path = <<>>
  /\ Fresh

Init == alg \in Algorithm /\ Called

PathToPointId ==
  \/ StartsAtEnd
  \/ Bfs
  \/ Dfs
  \/ Dijkstra
  \/ Astar
  \/ Retrace

Spec == Init /\ [][PathToPointId]_vars

FairSpec == Spec /\ WF_vars(PathToPointId)
-----------------------------------------------------------------------------
(* Reference definitions. *)

IsWalk(p) == \A i \in 1..Len(p) - 1 : Joined(edges, p[i], p[i + 1])

(* A part of the map with the start and without the end, that no road leaves. *)
CutOff ==
  \E part \in SUBSET Vertex :
    /\ start \in part
    /\ end \notin part
    /\ \A u \in part : Neighbours(edges, u) \subseteq part

(* The vertices within n roads of the start. *)
Within[n \in Nat] ==
  IF n = 0 THEN {start}
  ELSE Within[n - 1] \union UNION {Neighbours(edges, u) : u \in Within[n - 1]}

(* The length of the shortest walk from the start to v, or INT_MAX. *)
Tour == {p \in UNION {[1..n -> Vertex] : n \in 1..Cardinality(Vertex)} :
           \A i, j \in DOMAIN p : p[i] = p[j] => i = j}

LengthOf[p \in Seq(Vertex)] ==
  IF Len(p) <= 1 THEN 0 ELSE Distance[p[1]][p[2]] + LengthOf[Tail(p)]

Length == [p \in Tour |-> LengthOf[p]]

Nearest(v) ==
  LET lengths == {INT_MAX} \union {Length[p] : p \in {q \in Tour :
                    q[1] = start /\ q[Len(q)] = v /\ IsWalk(q)}}
  IN  CHOOSE l \in lengths : \A k \in lengths : l <= k
-----------------------------------------------------------------------------
(* Types; the costs stay within an int. *)
TypeOK ==
  /\ pc \in {"call", "scan", "trace", "retrace", "done", "stray"}
  /\ path \in Seq(Vertex)
  /\ curr \in Vertex \union {None, Unset}
  /\ seen \subseteq Vertex
  /\ queue \in Seq(Vertex)
  /\ trail \in Seq(Vertex)
  /\ pred \in [Vertex -> Vertex \union {Root, Unset}]
  /\ cost \in [Vertex -> -(INT_MAX + 1)..INT_MAX]
  /\ done \subseteq Vertex

(* A path that is handed back leads from the start to the end by roads of  *)
(* the map, through dead ends, predecessors that change and sums that      *)
(* wrap.  Only astar has no word for an end it did not reach.              *)
PathIsReal ==
  pc = "done" /\ path # <<>> /\ (alg = "astar" => ~CutOff)
    => path[1] = start /\ path[Len(path)] = end /\ IsWalk(path)

(* An empty path is handed back only where there is none. *)
NoPathMeansCutOff == pc = "done" /\ path = <<>> => CutOff

(* What is handed back is a path of the map, or no path and there is none. *)
RightAnswer == PathIsReal /\ NoPathMeansCutOff

(* bfs finds a path with as few roads as there can be. *)
FewestRoads ==
  pc = "done" /\ alg = "bfs" /\ Len(path) > 1 => end \notin Within[Len(path) - 2]

(* dijkstra finds a path as short as there can be, in the rounded lengths. *)
ShortestPath ==
  pc = "done" /\ alg = "dijkstra" /\ path # <<>> => Length[path] = Nearest(end)

(* A vertex dijkstra is done with never gets a better cost, although the   *)
(* code goes on relaxing it.                                               *)
DoneIsFinal ==
  alg = "dijkstra" /\ pc = "scan" /\ ~CutOff => \A v \in done : cost[v] = Nearest(v)

(* astar's estimate is rounded down once, the roads one by one, so it may  *)
(* be too long and the path not the shortest; it is longer by less than    *)
(* one for each road it could have.                                        *)
AlmostShortest ==
  pc = "done" /\ alg = "astar" /\ ~CutOff
    => Length[path] < Nearest(end) + Cardinality(Vertex)

(* What each algorithm promises of the path it hands back. *)
PathIsBest == FewestRoads /\ ShortestPath /\ DoneIsFinal /\ AlmostShortest

(* Where a call is made that dijkstra and astar can answer. *)
Answerable == alg \in {"bfs", "dfs"} \/ ~CutOff

(* Turns that are left at most: vertices to find, to be done with, to move *)
(* on to, to go back from, to copy.  There are none left outside of the    *)
(* arrays.                                                                 *)
TurnsLeft ==
  LET n == Cardinality(Vertex)
  IN  CASE pc = "call" -> 4 * n + 5
        [] pc = "scan" -> n + 3 + (2 * (n - Cardinality(seen)) + (n - Cardinality(done))
                            + Len(queue) + Len(trail) + (IF curr = None THEN 0 ELSE 1))
        [] pc = "trace" -> n + 2
        [] pc = "retrace" -> n + 1 - Len(path)
        [] pc = "stray" -> -1
        [] OTHER -> 0

(* Every turn leaves fewer, so that no call takes more than 4n + 5; and no *)
(* turn follows a predecessor that was not set or writes behind            *)
(* backwards_path, for the way back comes by no vertex twice.              *)
ComesCloser == [][Answerable => TurnsLeft' \in 0..TurnsLeft - 1]_vars

(* Every call comes back, that of dijkstra and astar where there is a path. *)
ComesBack == Answerable => <>(pc = "done")

(* dijkstra.c: "If the end vertex still hasn't been looked at, there must  *)
(* be no path from start to end", which it reports by an empty path.       *)
ReportsNoPath == alg = "dijkstra" /\ CutOff => <>(pc = "done" /\ path = <<>>)
=============================================================================
