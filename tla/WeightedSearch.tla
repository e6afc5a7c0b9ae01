--------------------------- MODULE WeightedSearch ---------------------------
(* dijkstra.c and astar.c: both keep a predecessor, a cost and a done flag *)
(* for every vertex, and scan one vertex after the other; they differ in   *)
(* how the next one is picked and in what they make of an end that was not *)
(* reached.                                                                *)
EXTENDS SearchCall

(* The loop over the edges of curr.  A vertex that is done is relaxed too. *)
Through(v) == Wrap(cost[curr] + Distance[curr][v])

Relaxed == {v \in Neighbours(edges, curr) : cost[v] > Through(v)}

RelaxUndone ==
  /\ cost' = [v \in Vertex |-> IF v \in Relaxed THEN Through(v) ELSE cost[v]]
  /\ pred' = [v \in Vertex |-> IF v \in Relaxed THEN curr ELSE pred[v]]
  /\ UNCHANGED done

Relax ==
  /\ cost' = [v \in Vertex |-> IF v \in Relaxed THEN Through(v) ELSE cost[v]]
  /\ pred' = [v \in Vertex |-> IF v \in Relaxed THEN curr ELSE pred[v]]
  /\ done' = done \union {curr}

Lowest(S) == {v \in S : \A w \in S : v <= w}   \* the first in the array

(* The scan over the array: from first on, the earliest of the vertices    *)
(* that are not done and have the smallest key, if any is below first's.   *)
Pick(first, open, key) ==
  LET below == {v \in open : key[v] < key[first]}
  IN  IF below = {} THEN {first}
      ELSE Lowest({v \in below : \A w \in below : key[v] <= key[w]})

DijkstraStart ==
  /\ alg = "dijkstra"
  /\ pc = "call"
  /\ start # end
  /\ pc' = "scan"
  /\ curr' = start
  /\ pred' = [pred EXCEPT ![start] = Root]
  /\ cost' = [cost EXCEPT ![start] = 0]
  /\ UNCHANGED <<call, path, seen, queue, trail, done>>

(* The skipping loop passes only the vertices that are done and not at     *)
(* INT_MAX, so a vertex that is done can be first, and be picked again.    *)
DijkstraLeft == {v \in Vertex : v \notin done' \/ cost'[v] = INT_MAX}

DijkstraScan ==
  /\ alg = "dijkstra"
  /\ pc = "scan"
  /\ Relax
  /\ IF curr = end \/ DijkstraLeft = {}
     THEN pc' = "trace" /\ curr' = end
     ELSE /\ pc' = pc
          /\ \E first \in Lowest(DijkstraLeft) : curr' \in Pick(first, Vertex \ done', cost')
  /\ UNCHANGED <<call, path, seen, queue, trail>>

DijkstraNoPath ==
  /\ alg = "dijkstra"
  /\ pc = "trace"
  /\ pred[end] = Unset
  /\ Return(<<>>)

DijkstraFound ==
  /\ alg = "dijkstra"
  /\ pc = "trace"
  /\ pred[end] # Unset
  /\ pc' = "retrace"
  /\ UNCHANGED <<call, path, locals>>

Dijkstra == DijkstraStart \/ DijkstraScan \/ DijkstraNoPath \/ DijkstraFound

(* astar: every predecessor is the start vertex until a better one is      *)
(* known, and f, the cost so far plus the straight way left, is the key.   *)
AstarStart ==
  /\ alg = "astar"
  /\ pc = "call"
  /\ start # end
  /\ pc' = "scan"
  /\ curr' = start
  /\ pred' = [v \in Vertex |-> IF v = start THEN Root ELSE start]
  /\ cost' = [cost EXCEPT ![start] = 0]
  /\ UNCHANGED <<call, path, seen, queue, trail, done>>

Estimate(costs) ==
  [v \in Vertex |-> IF costs[v] = INT_MAX THEN INT_MAX
                    ELSE Wrap(costs[v] + Distance[v][end])]

AstarScan ==
  /\ alg = "astar"
  /\ pc = "scan"
  /\ Relax
  /\ IF curr = end \/ done' = Vertex
     THEN pc' = "retrace" /\ curr' = end
     ELSE /\ pc' = pc
          /\ \E first \in Lowest(Vertex \ done') :
               curr' \in Pick(first, Vertex \ done', Estimate(cost'))
  /\ UNCHANGED <<call, path, seen, queue, trail>>

Astar == AstarStart \/ AstarScan
=============================================================================
