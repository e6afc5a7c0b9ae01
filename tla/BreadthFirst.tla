---------------------------- MODULE BreadthFirst ----------------------------
(* bfs.c: the list of vertices in the order they are found, walked by      *)
(* currptr; each remembers from which vertex it was found (prevptr).       *)
EXTENDS SearchCall

(* Mutant of BfsStart: the first vertex gets no end of the way back. *)
BfsStartRootless ==
  /\ alg = "bfs"
  /\ pc = "call"
  /\ start # end
  /\ pc' = "scan"
  /\ curr' = start
  /\ seen' = {start}
  /\ UNCHANGED <<call, path, queue, trail, pred, cost, done>>

BfsStart ==
  /\ alg = "bfs"
  /\ pc = "call"
  /\ start # end
  /\ pc' = "scan"
  /\ curr' = start
  /\ seen' = {start}
  /\ pred' = [pred EXCEPT ![start] = Root]
  /\ UNCHANGED <<call, path, queue, trail, cost, done>>

BfsFresh == Neighbours(edges, curr) \ seen

BfsFindStacked ==
  /\ alg = "bfs"
  /\ pc = "scan"
  /\ curr \notin {None, end}
  /\ \E other_id \in BfsFresh :
       /\ seen' = seen \union {other_id}
       /\ queue' = <<other_id>> \o queue
       /\ pred' = [pred EXCEPT ![other_id] = curr]
  /\ UNCHANGED <<call, pc, path, curr, trail, cost, done>>

(* The loop over the edges: an unseen neighbour goes to the end of the list. *)
BfsFind ==
  /\ alg = "bfs"
  /\ pc = "scan"
  /\ curr \notin {None, end}
  /\ \E other_id \in BfsFresh :
       /\ seen' = seen \union {other_id}
       /\ queue' = Append(queue, other_id)
       /\ pred' = [pred EXCEPT ![other_id] = curr]
  /\ UNCHANGED <<call, pc, path, curr, trail, cost, done>>

(* currptr = currptr->nextptr *)
BfsMoveOn ==
  /\ alg = "bfs"
  /\ pc = "scan"
  /\ curr \notin {None, end}
  /\ BfsFresh = {}
  /\ IF queue = <<>>
     THEN curr' = None /\ UNCHANGED queue
     ELSE curr' = Head(queue) /\ queue' = Tail(queue)
  /\ UNCHANGED <<call, pc, path, seen, trail, pred, cost, done>>

BfsFound ==
  /\ alg = "bfs"
  /\ pc = "scan"
  /\ curr = end
  /\ pc' = "retrace"
  /\ UNCHANGED <<call, path, locals>>

(* The end of the list: "Error: no path". *)
BfsNoPath ==
  /\ alg = "bfs"
  /\ pc = "scan"
  /\ curr = None
  /\ Return(<<>>)

Bfs == BfsStart \/ BfsFind \/ BfsMoveOn \/ BfsFound \/ BfsNoPath
=============================================================================
