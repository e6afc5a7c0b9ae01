----------------------------- MODULE DepthFirst -----------------------------
(* dfs.c: the list from the start to the current vertex, and the array of  *)
(* the vertices visited so far.  The node behind currptr is freed on the   *)
(* way back, and nextptr keeps pointing at it; it is written anew before   *)
(* the list is read, so the list is the sequence trail.                    *)
EXTENDS SearchCall

DfsStart ==
  /\ alg = "dfs"
  /\ pc = "call"
  /\ start # end
  /\ pc' = "scan"
  /\ seen' = {start}
  /\ trail' = <<start>>
  /\ UNCHANGED <<call, path, curr, queue, pred, cost, done>>

DfsHere == trail[Len(trail)]

(* The loop goes on while the end is not met and vertices are left. *)
DfsGoesOn ==
  /\ alg = "dfs"
  /\ pc = "scan"
  /\ DfsHere # end
  /\ Cardinality(seen) < Cardinality(Vertex)

DfsFresh == Neighbours(edges, DfsHere) \ seen   \* what dfs_helper may return

DfsDown ==
  /\ DfsGoesOn
  /\ \E next_id \in DfsFresh :
       /\ trail' = Append(trail, next_id)
       /\ seen' = seen \union {next_id}
  /\ UNCHANGED <<call, pc, path, curr, queue, pred, cost, done>>

DfsBack ==
  /\ DfsGoesOn
  /\ DfsFresh = {}
  /\ DfsHere # start
  /\ trail' = SubSeq(trail, 1, Len(trail) - 1)
  /\ UNCHANGED <<call, pc, path, curr, seen, queue, pred, cost, done>>

DfsNoPathAnywhere ==
  /\ DfsGoesOn
  /\ DfsFresh = {}
  /\ Return(<<>>)

DfsNoPath ==
  /\ DfsGoesOn
  /\ DfsFresh = {}
  /\ DfsHere = start
  /\ Return(<<>>)

(* Behind the loop the list is copied, whatever ended the loop. *)
DfsCopy ==
  /\ alg = "dfs"
  /\ pc = "scan"
  /\ DfsHere = end \/ Cardinality(seen) >= Cardinality(Vertex)
  /\ Return(trail)

Dfs == DfsStart \/ DfsDown \/ DfsBack \/ DfsNoPath \/ DfsCopy
=============================================================================
