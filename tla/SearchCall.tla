----------------------------- MODULE SearchCall -----------------------------
(***************************************************************************)
(* What the four searches of the chaser share: the call (which algorithm,  *)
(* which graph, from where to where), the locals of the function that      *)
(* runs, and the path it hands back.  bfs and dfs return nothing, dijkstra *)
(* and astar a status; all of them write path, whose empty form (path[0] = *)
(* 0) says that there is no path.                                          *)
(***************************************************************************)
EXTENDS RoadMap, Sequences

CONSTANT INT_MAX   \* the largest int; sums beyond it wrap (gcc without -O)

ASSUME SearchAssumption == INT_MAX \in Nat

VARIABLES alg, edges, start, end,   \* the call
          pc,                       \* where the call is
          path,                     \* the array path, or the reversed one on the way to it
          curr,                     \* currptr, or the vertex at curr_vsi
          seen,                     \* vertices on the list of bfs, or in visited_vertices
          queue,                    \* bfs: the list behind currptr
          trail,                    \* dfs: the list from beginptr to currptr
          pred, cost, done          \* dijkstra, astar: the vertex_status array

call   == <<alg, edges, start, end>>
locals == <<curr, seen, queue, trail, pred, cost, done>>
vars   == <<call, pc, path, locals>>

None  == 0    \* NULL
Root  == -1   \* pred_id of the start vertex
Unset == -2   \* pred_id of the others, in dijkstra

AllUnset    == [v \in Vertex |-> Unset]
AllInfinite == [v \in Vertex |-> INT_MAX]

Fresh ==
  /\ curr = None
  /\ seen = {}
  /\ queue = <<>>
  /\ trail = <<>>
  /\ pred = AllUnset
  /\ cost = AllInfinite
  /\ done = {}

(* The locals go with the return. *)
Return(p) ==
  /\ pc' = "done"
  /\ path' = p
  /\ curr' = None
  /\ seen' = {}
  /\ queue' = <<>>
  /\ trail' = <<>>
  /\ pred' = AllUnset
  /\ cost' = AllInfinite
  /\ done' = {}
  /\ UNCHANGED call

StartsAtEnd == pc = "call" /\ start = end /\ Return(<<start>>)

Wrap(n) == ((n + INT_MAX + 1) % (2 * (INT_MAX + 1))) - (INT_MAX + 1)

(* A write or a read outside of backwards_path or vsptr: what happens then *)
(* is not C's business any more, and the model stops there.                *)
Stray == pc' = "stray" /\ UNCHANGED <<call, path, locals>>

RetraceForwards ==
  /\ pc = "retrace"
  /\ IF Len(path) >= Cardinality(Vertex) \/ curr \notin Vertex
     THEN Stray
     ELSE IF pred[curr] = Root
     THEN Return(Append(path, curr))
     ELSE /\ path' = Append(path, curr)
          /\ curr' = pred[curr]
          /\ UNCHANGED <<call, pc, seen, queue, trail, pred, cost, done>>

(* One turn of the loop that follows the predecessors back from the end.   *)
(* backwards_path has one place more than there are vertices, for the zero.*)
Retrace ==
  /\ pc = "retrace"
  /\ IF Len(path) >= Cardinality(Vertex) \/ curr \notin Vertex
     THEN Stray
     ELSE IF pred[curr] = Root
     THEN Return(<<curr>> \o path)
     ELSE /\ path' = <<curr>> \o path
          /\ curr' = pred[curr]
          /\ UNCHANGED <<call, pc, seen, queue, trail, pred, cost, done>>
=============================================================================
