---------------------------- MODULE Chaser_proofs ----------------------------
(***************************************************************************)
(* Proofs about the searches of a chaser (PathSearch) and about the chaser *)
(* that flies by them (Chaser), on every map.                              *)
(*                                                                         *)
(* Of the searches: types; that the path handed back is a path, and an     *)
(* empty one true (SearchInv); that it is the best one, by the costs of    *)
(* dijkstra and astar (WeightedIInv) and the rings of bfs (RingIInv).      *)
(*                                                                         *)
(* Of the chaser, for every list of danger points: its list is a table of  *)
(* radii, the path it flies is one of the map as it is now, and it stays   *)
(* on it.  A turn of its search is a turn of a call of pathToPointId, so   *)
(* that what a search hands back is SearchInv.                             *)
(***************************************************************************)
EXTENDS Chaser, PathSearch, FiniteSetTheorems, FunctionTheorems, NaturalsInduction,
        WellFoundedInduction, TLAPS

USE DEF None, Root, Unset

-----------------------------------------------------------------------------
(* Numbers and recursion.                                                  *)

Less == {p \in Nat \X Nat : p[1] < p[2]}

LEMMA LessWF == IsWellFoundedOn(Less, Nat)
  BY NatLessThanWellFounded DEF OpToRel, IsWellFoundedOn, Less

LEMMA Least ==
  ASSUME NEW S, S \subseteq Nat, S # {}
  PROVE  \E n \in S : \A m \in S : n <= m
<1>1. PICK n \in S : \A m \in S : ~(<<m, n>> \in Less)
  BY LessWF, WFMin
<1>2. \A m \in S : ~(m < n)
  BY <1>1 DEF Less
<1>. QED  BY <1>2

(* Induction on a rank: a set that has every x whose predecessors it has   *)
(* has all of S.                                                           *)
LEMMA Descent ==
  ASSUME NEW S, NEW rank \in [S -> Nat], NEW P,
         \A x \in S : (\A y \in S : rank[y] < rank[x] => y \in P) => x \in P
  PROVE  S \subseteq P
<1>. SUFFICES ASSUME NEW z \in S, z \notin P PROVE FALSE
  OBVIOUS
<1>. DEFINE R == {rank[x] : x \in S \ P}
<1>1. R \subseteq Nat /\ R # {}
  OBVIOUS
<1>2. PICK n \in R : \A m \in R : n <= m
  BY <1>1, Least
<1>3. PICK x \in S \ P : rank[x] = n
  BY <1>2
<1>4. ASSUME NEW y \in S, rank[y] < rank[x], y \notin P PROVE FALSE
  <2>1. rank[y] \in R /\ rank[y] \in Nat /\ n \in Nat
    BY <1>1, <1>4
  <2>. HIDE DEF R
  <2>. QED  BY <1>2, <1>3, <1>4, <2>1
<1>. QED  BY <1>3, <1>4

(* A function that is defined by recursion on a rank exists.               *)
Recursive(S, T, rank, prev, base, step) ==
  /\ rank \in [S -> Nat]
  /\ prev \in [S -> S]
  /\ base \in [S -> T]
  /\ step \in [S -> [T -> T]]
  /\ \A x \in S : rank[x] # 0 => rank[prev[x]] < rank[x]

Solves(f, S, T, rank, prev, base, step) ==
  /\ f \in [S -> T]
  /\ \A x \in S : f[x] = IF rank[x] = 0 THEN base[x] ELSE step[x][f[prev[x]]]

LEMMA Recursion ==
  ASSUME NEW S, NEW T, NEW rank, NEW prev, NEW base, NEW step,
         Recursive(S, T, rank, prev, base, step)
  PROVE  \E f : Solves(f, S, T, rank, prev, base, step)
<1>. USE DEF Recursive
<1>. DEFINE Eq(f, x) == f[x] = IF rank[x] = 0 THEN base[x] ELSE step[x][f[prev[x]]]
            UpTo(n) == {f \in [S -> T] : \A x \in S : rank[x] <= n => Eq(f, x)}
            Reached == {n \in Nat : UpTo(n) # {}}
<1>1. 0 \in Reached
  <2>1. base \in UpTo(0)
    OBVIOUS
  <2>. QED  BY <2>1
<1>2. ASSUME NEW n \in Nat, n \in Reached PROVE n + 1 \in Reached
  <2>1. PICK f \in [S -> T] : \A x \in S : rank[x] <= n => Eq(f, x)
    BY <1>2
  <2>. DEFINE g == [x \in S |-> IF rank[x] <= n THEN f[x] ELSE step[x][f[prev[x]]]]
  <2>2. g \in [S -> T]
    OBVIOUS
  <2>3. ASSUME NEW x \in S, rank[x] <= n + 1 PROVE Eq(g, x)
    <3>1. CASE rank[x] = 0
      BY <2>1, <3>1
    <3>2. CASE rank[x] # 0
      <4>1. prev[x] \in S /\ rank[prev[x]] <= n
        BY <2>3, <3>2
      <4>2. g[prev[x]] = f[prev[x]]
        BY <4>1
      <4>3. g[x] = step[x][f[prev[x]]]
        BY <2>1, <3>2
      <4>. HIDE DEF g
      <4>. QED  BY <3>2, <4>2, <4>3
    <3>. QED  BY <3>1, <3>2
  <2>. HIDE DEF g
  <2>4. g \in UpTo(n + 1)
    BY <2>2, <2>3
  <2>. QED  BY <2>4
<1>3. Nat \subseteq Reached
  <2>1. [n \in Nat |-> n] \in [Nat -> Nat]
    OBVIOUS
  <2>2. ASSUME NEW n \in Nat,
               \A m \in Nat : [k \in Nat |-> k][m] < [k \in Nat |-> k][n] => m \in Reached
        PROVE  n \in Reached
    <3>. HIDE DEF Reached
    <3>1. CASE n = 0
      BY <1>1, <3>1
    <3>2. CASE n # 0
      <4>1. n - 1 \in Nat /\ n - 1 < n /\ (n - 1) + 1 = n
        BY <3>2
      <4>2. n - 1 \in Reached
        BY <2>2, <4>1
      <4>. QED  BY <1>2, <4>1, <4>2
    <3>. QED  BY <3>1, <3>2
  <2>. HIDE DEF Reached
  <2>. QED  BY <2>1, <2>2, Descent
<1>4. ASSUME NEW n \in Nat, NEW m \in Nat, NEW f \in UpTo(n), NEW g \in UpTo(m)
      PROVE  \A x \in S : rank[x] <= n /\ rank[x] <= m => f[x] = g[x]
  <2>. DEFINE P == {x \in S : rank[x] <= n /\ rank[x] <= m => f[x] = g[x]}
  <2>1. ASSUME NEW x \in S, \A y \in S : rank[y] < rank[x] => y \in P
        PROVE  x \in P
    <3>. SUFFICES ASSUME rank[x] <= n, rank[x] <= m PROVE f[x] = g[x]
      OBVIOUS
    <3>1. Eq(f, x) /\ Eq(g, x)
      OBVIOUS
    <3>2. CASE rank[x] # 0
      <4>1. prev[x] \in S /\ rank[prev[x]] < rank[x] /\ rank[prev[x]] <= n /\ rank[prev[x]] <= m
        BY <3>2
      <4>2. f[prev[x]] = g[prev[x]]
        BY <2>1, <4>1
      <4>. QED  BY <3>1, <3>2, <4>2
    <3>. QED  BY <3>1, <3>2
  <2>2. S \subseteq P
    <3>. HIDE DEF P
    <3>. QED BY <2>1, Descent
  <2>. QED  BY <2>2
<1>. DEFINE Some(n) == CHOOSE f : f \in UpTo(n)
            h == [x \in S |-> Some(rank[x])[x]]
<1>5. ASSUME NEW n \in Nat PROVE Some(n) \in UpTo(n)
  <2>1. \E f : f \in UpTo(n)
    BY <1>3
  <2>. HIDE DEF UpTo
  <2>. QED  BY <2>1
<1>6. h \in [S -> T]
  <2>1. ASSUME NEW x \in S PROVE Some(rank[x])[x] \in T
    <3>1. Some(rank[x]) \in [S -> T]
      BY <1>5
    <3>. HIDE DEF Some
    <3>. QED  BY <3>1
  <2>. HIDE DEF Some
  <2>. QED  BY <2>1
<1>7. ASSUME NEW x \in S PROVE Eq(h, x)
  <2>. DEFINE f == Some(rank[x])
  <2>1. f \in UpTo(rank[x])
    BY <1>5
  <2>. HIDE DEF Some
  <2>2. Eq(f, x) /\ h[x] = f[x]
    BY <2>1
  <2>3. CASE rank[x] # 0
    <3>1. prev[x] \in S /\ rank[prev[x]] < rank[x] /\ rank[prev[x]] \in Nat /\ rank[x] \in Nat
      BY <2>3
    <3>2. Some(rank[prev[x]]) \in UpTo(rank[prev[x]])
      BY <1>5, <3>1
    <3>3. Some(rank[prev[x]])[prev[x]] = f[prev[x]]
      <4>. HIDE DEF f, UpTo
      <4>. QED  BY <1>4, <2>1, <3>1, <3>2
    <3>4. h[prev[x]] = f[prev[x]]
      BY <3>1, <3>3
    <3>. QED  BY <2>2, <2>3, <3>4
  <2>. QED  BY <2>2, <2>3
<1>. QED  BY <1>6, <1>7 DEF Solves
-----------------------------------------------------------------------------
(* The calls of pathToPointId.                                             *)

LEMMA Vertices == /\ Vertex \subseteq Nat \ {0}
                  /\ IsFiniteSet(Vertex)
                  /\ None \notin Vertex /\ Root \notin Vertex /\ Unset \notin Vertex
                  /\ \A u, v \in Vertex : u # v => Distance[u][v] \in Int
  BY MapAssumption

LEMMA RoadsGoBothWays ==
  ASSUME NEW roads, NEW u, NEW v, Joined(roads, u, v)
  PROVE  Joined(roads, v, u)
<1>1. {u, v} = {v, u}
  OBVIOUS
<1>. QED  BY <1>1 DEF Joined

LEMMA WrapStaysInInt == \A n \in Int : Wrap(n) \in -(INT_MAX + 1)..INT_MAX
<1>. SUFFICES ASSUME NEW n \in Int PROVE Wrap(n) \in -(INT_MAX + 1)..INT_MAX
  OBVIOUS
<1>. DEFINE w == 2 * (INT_MAX + 1)
            m == (n + INT_MAX + 1) % w
<1>1. INT_MAX \in Nat
  BY SearchAssumption
<1>2. w \in Nat /\ w > 0
  BY <1>1
<1>3. m \in 0..w - 1
  <2>. HIDE DEF w
  <2>. QED BY <1>1, <1>2
<1>4. Wrap(n) = m - (INT_MAX + 1)
  BY DEF Wrap
<1>. HIDE DEF m
<1>. QED  BY <1>1, <1>3, <1>4
-----------------------------------------------------------------------------
(* Types. *)

Types ==
  /\ TypeOK
  /\ start \in Vertex
  /\ end \in Vertex
  /\ alg \in {"dijkstra", "astar"} /\ pc = "scan" => curr \in Vertex

LEMMA TypesCalled == Called => Types
  BY SearchAssumption DEF Called, Fresh, AllUnset, AllInfinite, Types, TypeOK

LEMMA ReturnKeepsTypes ==
  ASSUME Types, NEW p \in Seq(Vertex), Return(p)
  PROVE  Types'
  BY SearchAssumption DEF Return, AllUnset, AllInfinite, call, Types, TypeOK

LEMMA ReturnNothing ==
  ASSUME Types, Return(<<>>)
  PROVE  Types'
<1>1. <<>> \in Seq(Vertex)
  OBVIOUS
<1>. QED  BY <1>1, ReturnKeepsTypes

LEMMA RelaxKeepsTypes ==
  ASSUME Types, curr \in Vertex, Relax
  PROVE  /\ pred' \in [Vertex -> Vertex \union {Root, Unset}]
         /\ cost' \in [Vertex -> -(INT_MAX + 1)..INT_MAX]
         /\ done' \subseteq Vertex
<1>1. ASSUME NEW v \in Relaxed PROVE v \in Vertex /\ Through(v) \in -(INT_MAX + 1)..INT_MAX
  <2>1. v \in Vertex /\ v # curr
    BY <1>1 DEF Relaxed, Neighbours, Joined
  <2>2. cost[curr] + Distance[curr][v] \in Int
    <3>1. cost[curr] \in Int
      BY SearchAssumption DEF Types, TypeOK
    <3>2. Distance[curr][v] \in Int
      BY <2>1, Vertices
    <3>. QED  BY <3>1, <3>2
  <2>. QED  BY <2>1, <2>2, WrapStaysInInt DEF Through
<1>. QED  BY <1>1 DEF Relax, Types, TypeOK

LEMMA PickIsOpen ==
  ASSUME NEW S \in SUBSET Vertex, NEW first \in Lowest(S), NEW open \in SUBSET Vertex,
         NEW key, NEW v \in Pick(first, open, key)
  PROVE  v \in Vertex
  BY DEF Pick, Lowest

LEMMA TypesStep == Types /\ [PathToPointId]_vars => Types'
<1>. SUFFICES ASSUME Types, [PathToPointId]_vars PROVE Types'
  OBVIOUS
<1>. USE Vertices
<1>1. CASE StartsAtEnd
  <2>1. <<start>> \in Seq(Vertex) /\ Return(<<start>>)
    BY <1>1 DEF StartsAtEnd, Types
  <2>. QED  BY <2>1, ReturnKeepsTypes
<1>2. CASE Bfs
  <2>1. CASE BfsStart
    BY <2>1 DEF BfsStart, call, Types, TypeOK
  <2>2. CASE BfsFind
    <3>1. PICK v \in BfsFresh : /\ seen' = seen \union {v}
                                /\ queue' = Append(queue, v)
                                /\ pred' = [pred EXCEPT ![v] = curr]
      BY <2>2 DEF BfsFind
    <3>2. v \in Vertex /\ curr \in Vertex \union {Unset}
      BY <2>2 DEF BfsFind, BfsFresh, Neighbours, Types, TypeOK
    <3>3. seen' \subseteq Vertex
      BY <3>1, <3>2 DEF Types, TypeOK
    <3>4. queue' \in Seq(Vertex)
      <4>1. queue \in Seq(Vertex)
        BY DEF Types, TypeOK
      <4>2. Append(queue, v) \in Seq(Vertex)
        BY <3>2, <4>1
      <4>. QED  BY <3>1, <4>2
    <3>5. pred' \in [Vertex -> Vertex \union {Root, Unset}]
      <4>1. pred \in [Vertex -> Vertex \union {Root, Unset}]
        BY DEF Types, TypeOK
      <4>2. curr \in Vertex \union {Root, Unset}
        BY <3>2
      <4>. QED  BY <3>1, <4>1, <4>2
    <3>. QED  BY <2>2, <3>3, <3>4, <3>5 DEF BfsFind, call, Types, TypeOK
  <2>3. CASE BfsMoveOn
    <3>1. curr' \in Vertex \union {None, Unset} /\ queue' \in Seq(Vertex)
      <4>1. CASE queue = <<>>
        BY <2>3, <4>1 DEF BfsMoveOn, Types, TypeOK
      <4>2. CASE queue # <<>>
        <5>1. queue \in Seq(Vertex)
          BY DEF Types, TypeOK
        <5>2. Head(queue) \in Vertex /\ Tail(queue) \in Seq(Vertex)
          BY <4>2, <5>1
        <5>. QED  BY <2>3, <4>2, <5>2 DEF BfsMoveOn
      <4>. QED  BY <4>1, <4>2
    <3>. QED  BY <2>3, <3>1 DEF BfsMoveOn, call, Types, TypeOK
  <2>4. CASE BfsFound
    BY <2>4 DEF BfsFound, call, locals, Types, TypeOK
  <2>5. CASE BfsNoPath
    BY <2>5, ReturnNothing DEF BfsNoPath
  <2>. QED  BY <1>2, <2>1, <2>2, <2>3, <2>4, <2>5 DEF Bfs
<1>3. CASE Dfs
  <2>1. CASE DfsStart
    BY <2>1 DEF DfsStart, call, Types, TypeOK
  <2>2. CASE DfsDown
    BY <2>2 DEF DfsDown, DfsFresh, Neighbours, call, Types, TypeOK
  <2>3. CASE DfsBack
    <3>1. trail' \in Seq(Vertex)
      <4>1. CASE trail = <<>>
        BY <2>3, <4>1 DEF DfsBack, Types, TypeOK
      <4>2. CASE trail # <<>>
        BY <2>3, <4>2 DEF DfsBack, Types, TypeOK
      <4>. QED  BY <4>1, <4>2
    <3>. QED  BY <2>3, <3>1 DEF DfsBack, call, Types, TypeOK
  <2>4. CASE DfsNoPath
    BY <2>4, ReturnNothing DEF DfsNoPath
  <2>5. CASE DfsCopy
    <3>1. trail \in Seq(Vertex) /\ Return(trail)
      BY <2>5 DEF DfsCopy, Types, TypeOK
    <3>. QED  BY <3>1, ReturnKeepsTypes
  <2>. QED  BY <1>3, <2>1, <2>2, <2>3, <2>4, <2>5 DEF Dfs
<1>4. CASE Dijkstra
  <2>1. CASE DijkstraStart
    BY <2>1, SearchAssumption DEF DijkstraStart, call, Types, TypeOK
  <2>2. CASE DijkstraScan
    <3>1. curr \in Vertex /\ curr' \in Vertex
      <4>1. DijkstraLeft \subseteq Vertex /\ Vertex \ done' \subseteq Vertex
        BY DEF DijkstraLeft
      <4>. QED  BY <2>2, <4>1, PickIsOpen DEF DijkstraScan, Types, TypeOK
    <3>. QED  BY <2>2, <3>1, RelaxKeepsTypes DEF DijkstraScan, call, Types, TypeOK
  <2>3. CASE DijkstraNoPath
    BY <2>3, ReturnNothing DEF DijkstraNoPath
  <2>4. CASE DijkstraFound
    BY <2>4 DEF DijkstraFound, call, locals, Types, TypeOK
  <2>. QED  BY <1>4, <2>1, <2>2, <2>3, <2>4 DEF Dijkstra
<1>5. CASE Astar
  <2>1. CASE AstarStart
    BY <2>1, SearchAssumption DEF AstarStart, call, Types, TypeOK
  <2>2. CASE AstarScan
    <3>1. curr \in Vertex /\ curr' \in Vertex
      <4>1. Vertex \ done' \subseteq Vertex
        OBVIOUS
      <4>. QED  BY <2>2, <4>1, PickIsOpen DEF AstarScan, Types, TypeOK
    <3>. QED  BY <2>2, <3>1, RelaxKeepsTypes DEF AstarScan, call, Types, TypeOK
  <2>. QED  BY <1>5, <2>1, <2>2 DEF Astar
<1>6. CASE Retrace
  <2>1. CASE Len(path) >= Cardinality(Vertex) \/ curr \notin Vertex
    BY <1>6, <2>1 DEF Retrace, Stray, call, locals, Types, TypeOK
  <2>2. CASE ~(Len(path) >= Cardinality(Vertex) \/ curr \notin Vertex) /\ pred[curr] = Root
    <3>1. <<curr>> \o path \in Seq(Vertex) /\ Return(<<curr>> \o path)
      BY <1>6, <2>2 DEF Retrace, Types, TypeOK
    <3>. QED  BY <3>1, ReturnKeepsTypes
  <2>3. CASE ~(Len(path) >= Cardinality(Vertex) \/ curr \notin Vertex) /\ pred[curr] # Root
    <3>1. /\ path' = <<curr>> \o path
          /\ curr' = pred[curr]
          /\ UNCHANGED <<call, pc, seen, queue, trail, pred, cost, done>>
      BY <1>6, <2>3 DEF Retrace
    <3>2. pc = "retrace"
      BY <1>6 DEF Retrace
    <3>. QED  BY <2>3, <3>1, <3>2 DEF call, Types, TypeOK
  <2>. QED  BY <2>1, <2>2, <2>3
<1>7. CASE UNCHANGED vars
  BY <1>7 DEF vars, call, locals, Types, TypeOK
<1>. QED  BY <1>1, <1>2, <1>3, <1>4, <1>5, <1>6, <1>7 DEF PathToPointId

(* The locals of a search keep their types, and every cost stays an int.   *)
THEOREM SearchTypeCorrect == Spec => []TypeOK
<1>1. Spec => []Types
  BY TypesCalled, TypesStep, PTL DEF Spec, Init
<1>2. Types => TypeOK
  BY DEF Types
<1>. QED  BY <1>1, <1>2, PTL
-----------------------------------------------------------------------------
(* The predecessors: only the start has none, and between a vertex and its *)
(* predecessor there is a road.                                            *)

Preds ==
  alg # "astar" =>
    \A v \in Vertex : /\ pred[v] = Root => v = start
                      /\ pred[v] \in Vertex => Joined(edges, pred[v], v)

LEMMA PredsCalled == Called => Preds
  BY Vertices DEF Called, Fresh, AllUnset, Preds

LEMMA PredsStep == Types /\ Preds /\ [PathToPointId]_vars => Preds'
<1>. SUFFICES ASSUME Types, Preds, [PathToPointId]_vars PROVE Preds'
  OBVIOUS
<1>. USE Vertices
<1>1. CASE UNCHANGED <<call, pred>>
  BY <1>1 DEF call, Preds, Joined
<1>2. CASE \E p : Return(p)
  BY <1>2 DEF Return, AllUnset, call, Preds
<1>3. CASE BfsStart \/ DijkstraStart
  BY <1>3 DEF BfsStart, DijkstraStart, call, Preds, Joined, Types, TypeOK
<1>4. CASE BfsFind
  <2>1. PICK other_id \in BfsFresh : pred' = [pred EXCEPT ![other_id] = curr]
    BY <1>4 DEF BfsFind
  <2>2. other_id \in Vertex /\ Joined(edges, curr, other_id)
    BY <2>1 DEF BfsFresh, Neighbours
  <2>3. edges' = edges /\ start' = start /\ alg' = "bfs"
    BY <1>4 DEF BfsFind, call
  <2>4. alg = "bfs" /\ curr # Root
    BY <1>4 DEF BfsFind, Types, TypeOK
  <2>. SUFFICES ASSUME NEW v \in Vertex
                PROVE  /\ pred'[v] = Root => v = start
                       /\ pred'[v] \in Vertex => Joined(edges, pred'[v], v)
    BY <2>3 DEF Preds, Joined
  <2>5. CASE v = other_id
    BY <2>1, <2>2, <2>4, <2>5 DEF Types, TypeOK
  <2>6. CASE v # other_id
    BY <2>1, <2>4, <2>6 DEF Preds, Types, TypeOK
  <2>. QED  BY <2>5, <2>6
<1>5. CASE DijkstraScan
  BY <1>5 DEF DijkstraScan, Relax, Relaxed, Neighbours, call, Preds, Joined, Types, TypeOK
<1>6. CASE AstarStart \/ AstarScan
  BY <1>6 DEF AstarStart, AstarScan, call, Preds
<1>7. UNCHANGED <<call, pred>> \/ (\E p : Return(p)) \/ BfsStart \/ DijkstraStart
        \/ BfsFind \/ DijkstraScan \/ AstarStart \/ AstarScan
  <2>1. CASE StartsAtEnd \/ Retrace
    BY <2>1 DEF StartsAtEnd, Retrace, Stray, locals
  <2>2. CASE Bfs
    BY <2>2 DEF Bfs, BfsMoveOn, BfsFound, BfsNoPath, locals
  <2>3. CASE Dfs
    BY <2>3 DEF Dfs, DfsStart, DfsDown, DfsBack, DfsNoPath, DfsCopy
  <2>4. CASE Dijkstra \/ Astar
    BY <2>4 DEF Dijkstra, DijkstraNoPath, DijkstraFound, Astar, locals
  <2>5. CASE UNCHANGED vars
    BY <2>5 DEF vars, locals
  <2>. QED  BY <2>1, <2>2, <2>3, <2>4, <2>5 DEF PathToPointId
<1>. QED  BY <1>1, <1>2, <1>3, <1>4, <1>5, <1>6, <1>7
-----------------------------------------------------------------------------
(* The walk back: path leads from behind curr to the end.                  *)

Leads(p) == p = <<>> \/ (p[Len(p)] = end /\ IsWalk(p))

Tracing ==
  /\ pc \in {"call", "scan", "trace"} => path = <<>>
  /\ pc = "trace" => curr = end
  /\ pc = "retrace" =>
       /\ alg \in {"bfs", "dijkstra", "astar"}
       /\ alg # "astar" =>
            /\ Leads(path)
            /\ path = <<>> => curr = end
            /\ path # <<>> /\ curr \in Vertex => Joined(edges, curr, path[1])

LEMMA TracingCalled == Called => Tracing
  BY DEF Called, Tracing

LEMMA WalkGrows ==
  ASSUME NEW p \in Seq(Vertex), NEW u \in Vertex, Leads(p),
         p = <<>> => u = end,
         p # <<>> => Joined(edges, u, p[1])
  PROVE  /\ Leads(<<u>> \o p)
         /\ <<u>> \o p # <<>>
         /\ (<<u>> \o p)[1] = u
<1>. DEFINE q == <<u>> \o p
<1>1. /\ q \in Seq(Vertex)
      /\ Len(q) = Len(p) + 1
      /\ q[1] = u
      /\ \A i \in 1..Len(p) : q[i + 1] = p[i]
  OBVIOUS
<1>2. CASE p = <<>>
  BY <1>1, <1>2 DEF Leads, IsWalk
<1>3. CASE p # <<>>
  <2>1. q[Len(q)] = end
    <3>1. Len(p) \in 1..Len(p) /\ p[Len(p)] = end
      BY <1>3 DEF Leads
    <3>. QED  BY <1>1, <3>1
  <2>2. ASSUME NEW i \in 1..Len(q) - 1 PROVE Joined(edges, q[i], q[i + 1])
    <3>1. CASE i = 1
      <4>1. 1 \in 1..Len(p)
        BY <1>3
      <4>. QED  BY <1>1, <1>3, <3>1, <4>1
    <3>2. CASE i # 1
      <4>1. i - 1 \in 1..Len(p) - 1 /\ i \in 1..Len(p) /\ i - 1 \in 1..Len(p)
        BY <1>1, <3>2
      <4>2. Joined(edges, p[i - 1], p[(i - 1) + 1])
        BY <1>3, <4>1 DEF Leads, IsWalk
      <4>3. q[i] = p[i - 1] /\ q[i + 1] = p[i]
        <5>1. q[(i - 1) + 1] = p[i - 1]
          BY <1>1, <4>1
        <5>. QED  BY <1>1, <4>1, <5>1
      <4>. QED  BY <4>2, <4>3
    <3>. QED  BY <3>1, <3>2
  <2>3. q # <<>>
    BY <1>1
  <2>. QED  BY <1>1, <2>1, <2>2, <2>3 DEF Leads, IsWalk
<1>. QED  BY <1>2, <1>3

LEMMA TracingStep == Types /\ Preds /\ Tracing /\ [PathToPointId]_vars => Tracing'
<1>. SUFFICES ASSUME Types, Preds, Tracing, [PathToPointId]_vars PROVE Tracing'
  OBVIOUS
<1>1. CASE \E p : Return(p)
  BY <1>1 DEF Return, Tracing
<1>2. CASE UNCHANGED vars
  BY <1>2 DEF vars, call, locals, Tracing, Leads, IsWalk, Joined
<1>3. CASE /\ pc \in {"call", "scan"}
           /\ pc' = "scan" \/ (pc' = "trace" /\ curr' = end)
           /\ UNCHANGED <<call, path>>
  BY <1>3 DEF Tracing, call
<1>4. CASE /\ pc \in {"scan", "trace"} /\ pc' = "retrace"
           /\ alg \in {"bfs", "dijkstra", "astar"}
           /\ alg # "astar" => curr' = end
           /\ UNCHANGED <<call, path>>
  BY <1>4 DEF Tracing, Leads, call
<1>5. CASE Retrace
  <2>1. pc = "retrace" /\ alg \in {"bfs", "dijkstra", "astar"}
    BY <1>5 DEF Retrace, Tracing
  <2>2. CASE Stray
    BY <2>2 DEF Stray, Tracing
  <2>3. CASE ~Stray /\ ~\E p : Return(p)
    <3>1. /\ curr \in Vertex
          /\ path' = <<curr>> \o path
          /\ curr' = pred[curr]
          /\ UNCHANGED <<call, pc>>
      BY <1>5, <2>3 DEF Retrace
    <3>2. CASE alg = "astar"
      BY <2>1, <3>1, <3>2 DEF Tracing, call
    <3>3. CASE alg # "astar"
      <4>1. /\ Leads(path)
            /\ path = <<>> => curr = end
            /\ path # <<>> => Joined(edges, curr, path[1])
        BY <2>1, <3>1, <3>3 DEF Tracing
      <4>2. path \in Seq(Vertex)
        BY DEF Types, TypeOK
      <4>3. Leads(path') /\ path' # <<>> /\ path'[1] = curr
        BY <3>1, <4>1, <4>2, WalkGrows
      <4>4. curr' \in Vertex => Joined(edges, curr', path'[1])
        BY <3>1, <3>3, <4>3 DEF Preds
      <4>5. UNCHANGED <<edges, end, alg, pc>>
        BY <3>1 DEF call
      <4>6. Leads(path)'
        BY <4>3, <4>5 DEF Leads, IsWalk, Joined
      <4>7. path' # <<>> /\ curr' \in Vertex => Joined(edges, curr, path[1])'
        BY <4>4, <4>5 DEF Joined
      <4>. QED  BY <2>1, <4>3, <4>5, <4>6, <4>7 DEF Tracing
    <3>. QED  BY <3>2, <3>3
  <2>. QED  BY <1>1, <2>2, <2>3
<1>6. CASE StartsAtEnd \/ Bfs \/ Dfs \/ Dijkstra \/ Astar
  <2>1. CASE StartsAtEnd \/ BfsNoPath \/ DfsNoPath \/ DfsCopy \/ DijkstraNoPath
    BY <1>1, <2>1 DEF StartsAtEnd, BfsNoPath, DfsNoPath, DfsCopy, DijkstraNoPath
  <2>2. CASE BfsStart \/ BfsFind \/ BfsMoveOn \/ DfsStart \/ DfsDown \/ DfsBack
    BY <1>3, <2>2
    DEF BfsStart, BfsFind, BfsMoveOn, DfsStart, DfsDown, DfsBack, DfsGoesOn, call
  <2>3. CASE DijkstraStart \/ AstarStart \/ DijkstraScan
    BY <1>3, <2>3 DEF DijkstraStart, AstarStart, DijkstraScan, call
  <2>4. CASE AstarScan
    BY <1>3, <1>4, <2>4 DEF AstarScan, call
  <2>5. CASE BfsFound
    BY <1>4, <2>5 DEF BfsFound, call, locals
  <2>6. CASE DijkstraFound
    BY <1>4, <2>6 DEF DijkstraFound, Tracing, call, locals
  <2>. QED  BY <1>6, <2>1, <2>2, <2>3, <2>4, <2>5, <2>6 DEF Bfs, Dfs, Dijkstra, Astar
<1>. QED  BY <1>2, <1>5, <1>6 DEF PathToPointId
-----------------------------------------------------------------------------
(* bfs and dfs: a vertex that is seen and not waiting any more is not the  *)
(* end, and all its neighbours are seen.                                   *)

In(v, s) == \E i \in 1..Len(s) : s[i] = v

Passed(v) == v # end /\ Neighbours(edges, v) \subseteq seen

Listed ==
  /\ pc = "call" => queue = <<>>
  /\ alg = "bfs" /\ pc = "scan" =>
       /\ start \in seen
       /\ curr \in seen \union {None}
       /\ \A v \in seen : v = curr \/ In(v, queue) \/ Passed(v)
       /\ \A i \in 1..Len(queue) : queue[i] \in seen
       /\ curr = None => queue = <<>>

LEMMA ListedCalled == Called => Listed
  BY DEF Called, Fresh, Listed

LEMMA AppendIn ==
  ASSUME NEW S, NEW s \in Seq(S), NEW x \in S
  PROVE  \A v : In(v, Append(s, x)) <=> In(v, s) \/ v = x
<1>1. /\ Len(Append(s, x)) = Len(s) + 1
      /\ \A i \in 1..Len(s) : Append(s, x)[i] = s[i]
      /\ Append(s, x)[Len(s) + 1] = x
  OBVIOUS
<1>2. ASSUME NEW v, In(v, Append(s, x)) PROVE In(v, s) \/ v = x
  <2>1. PICK i \in 1..Len(s) + 1 : Append(s, x)[i] = v
    BY <1>1, <1>2 DEF In
  <2>. QED  BY <1>1, <2>1 DEF In
<1>3. ASSUME NEW v, In(v, s) \/ v = x PROVE In(v, Append(s, x))
  <2>1. CASE v = x
    <3>1. Len(s) + 1 \in 1..Len(Append(s, x))
      BY <1>1
    <3>. QED  BY <1>1, <2>1, <3>1 DEF In
  <2>2. CASE In(v, s)
    <3>1. PICK i \in 1..Len(s) : s[i] = v
      BY <2>2 DEF In
    <3>2. i \in 1..Len(Append(s, x))
      BY <1>1, <3>1
    <3>. QED  BY <1>1, <3>1, <3>2 DEF In
  <2>. QED  BY <1>3, <2>1, <2>2
<1>. QED  BY <1>2, <1>3

LEMMA HeadOrTail ==
  ASSUME NEW S, NEW s \in Seq(S), s # <<>>
  PROVE  /\ \A v : In(v, s) => v = Head(s) \/ In(v, Tail(s))
         /\ \A i \in 1..Len(Tail(s)) : In(Tail(s)[i], s)
         /\ In(Head(s), s)
<1>1. /\ Len(s) \in Nat \ {0}
      /\ Len(Tail(s)) = Len(s) - 1
      /\ \A i \in 1..Len(s) - 1 : Tail(s)[i] = s[i + 1]
      /\ Head(s) = s[1]
  OBVIOUS
<1>2. ASSUME NEW v, In(v, s) PROVE v = Head(s) \/ In(v, Tail(s))
  <2>1. PICK i \in 1..Len(s) : s[i] = v
    BY <1>2 DEF In
  <2>2. CASE i = 1
    BY <1>1, <2>1, <2>2
  <2>3. CASE i # 1
    <3>1. i - 1 \in 1..Len(Tail(s)) /\ Tail(s)[i - 1] = s[(i - 1) + 1]
      BY <1>1, <2>1, <2>3
    <3>2. Tail(s)[i - 1] = v
      BY <2>1, <3>1
    <3>. QED  BY <3>1, <3>2 DEF In
  <2>. QED  BY <2>2, <2>3
<1>3. ASSUME NEW i \in 1..Len(Tail(s)) PROVE In(Tail(s)[i], s)
  BY <1>1 DEF In
<1>4. In(Head(s), s)
  BY <1>1 DEF In
<1>. QED  BY <1>2, <1>3, <1>4

LEMMA ListedStep == Types /\ Listed /\ [PathToPointId]_vars => Listed'
<1>. SUFFICES ASSUME Types, Listed, [PathToPointId]_vars PROVE Listed'
  OBVIOUS
<1>. USE Vertices
<1>1. CASE UNCHANGED vars
  BY <1>1 DEF vars, call, locals, Listed, In, Passed, Neighbours, Joined
<1>2. CASE BfsStart
  <2>1. /\ queue = <<>> /\ UNCHANGED <<call, queue>>
        /\ pc' = "scan" /\ seen' = {start} /\ curr' = start
    BY <1>2 DEF BfsStart, Listed
  <2>. QED  BY <2>1 DEF Listed, call, Types
<1>3. CASE BfsFind
  <2>1. PICK other_id \in BfsFresh :
          /\ seen' = seen \union {other_id}
          /\ queue' = Append(queue, other_id)
    BY <1>3 DEF BfsFind
  <2>2. other_id \in Vertex /\ queue \in Seq(Vertex)
    BY <2>1 DEF BfsFresh, Neighbours, Types, TypeOK
  <2>3. \A v : In(v, queue') <=> In(v, queue) \/ v = other_id
    BY <2>1, <2>2, AppendIn
  <2>4. UNCHANGED <<call, curr>> /\ curr # None /\ alg = "bfs" /\ pc = "scan"
    BY <1>3 DEF BfsFind
  <2>5. \A v \in seen' : v = curr' \/ In(v, queue') \/ Passed(v)'
    BY <2>1, <2>3, <2>4 DEF Listed, Passed, Neighbours, Joined, call
  <2>6. \A i \in 1..Len(queue') : queue'[i] \in seen'
    <3>1. \A v : In(v, queue) => v \in seen
      BY <2>4 DEF Listed, In
    <3>2. \A i \in 1..Len(queue') : In(queue'[i], queue')
      BY DEF In
    <3>. QED  BY <2>1, <2>3, <3>1, <3>2
  <2>7. pc' = "scan"
    BY <1>3 DEF BfsFind
  <2>. QED  BY <2>1, <2>4, <2>5, <2>6, <2>7 DEF Listed, In, call
<1>4. CASE BfsMoveOn
  <2>1. /\ UNCHANGED <<call, seen, pc>> /\ alg = "bfs" /\ pc = "scan"
        /\ curr # end /\ BfsFresh = {}
    BY <1>4 DEF BfsMoveOn
  <2>2. Passed(curr)
    BY <2>1 DEF Passed, BfsFresh
  <2>3. \A v : Passed(v) => Passed(v)'
    BY <2>1 DEF Passed, Neighbours, Joined, call
  <2>4. CASE queue = <<>>
    <3>1. curr' = None /\ queue' = <<>>
      BY <1>4, <2>4 DEF BfsMoveOn
    <3>2. \A v \in seen : Passed(v)
      BY <2>1, <2>2, <2>4 DEF Listed, In
    <3>. QED  BY <2>1, <2>3, <3>1, <3>2 DEF Listed, call
  <2>5. CASE queue # <<>>
    <3>1. curr' = Head(queue) /\ queue' = Tail(queue)
      BY <1>4, <2>5 DEF BfsMoveOn
    <3>2. queue \in Seq(Vertex)
      BY DEF Types, TypeOK
    <3>3. /\ \A v : In(v, queue) => v = curr' \/ In(v, queue')
          /\ \A i \in 1..Len(queue') : In(queue'[i], queue)
          /\ In(curr', queue)
      BY <2>5, <3>1, <3>2, HeadOrTail
    <3>4. \A v : In(v, queue) => v \in seen
      BY <2>1 DEF Listed, In
    <3>5. \A v \in seen' : v = curr' \/ In(v, queue') \/ Passed(v)'
      BY <2>1, <2>2, <2>3, <3>3 DEF Listed
    <3>6. curr' # None
      BY <3>1, <3>2, <2>5
    <3>. QED  BY <2>1, <3>3, <3>4, <3>5, <3>6 DEF Listed, In, call
  <2>. QED  BY <2>4, <2>5
<1>5. CASE StartsAtEnd \/ BfsNoPath \/ BfsFound \/ Dfs \/ Dijkstra \/ Astar \/ Retrace
  <2>1. pc' # "call" /\ (alg' # "bfs" \/ pc' # "scan")
    BY <1>5 DEF StartsAtEnd, BfsNoPath, BfsFound, Dfs, DfsStart, DfsDown, DfsBack, DfsGoesOn,
         DfsNoPath, DfsCopy, Dijkstra, DijkstraStart, DijkstraScan, DijkstraNoPath,
         DijkstraFound, Astar, AstarStart, AstarScan, Retrace, Stray, Return, call
  <2>. QED  BY <2>1 DEF Listed
<1>. QED  BY <1>1, <1>2, <1>3, <1>4, <1>5 DEF PathToPointId, Bfs
-----------------------------------------------------------------------------
(* dfs: the list is a walk that left the start and did not meet the end    *)
(* before its last vertex.                                                 *)

Chained ==
  alg = "dfs" /\ pc = "scan" =>
    /\ start # end
    /\ trail # <<>>
    /\ trail[1] = start
    /\ IsWalk(trail)
    /\ \A i \in 1..Len(trail) : trail[i] \in seen /\ (i # 1 => trail[i] # start)
    /\ \A i \in 1..Len(trail) - 1 : trail[i] # end
    /\ \A v \in seen : In(v, trail) \/ Passed(v)

LEMMA ChainedCalled == Called => Chained
  BY DEF Called, Chained

LEMMA ChainedDown ==
  ASSUME Types, Chained, DfsDown
  PROVE  Chained'
<1>. USE Vertices
<1>1. PICK next_id \in DfsFresh : trail' = Append(trail, next_id) /\ seen' = seen \union {next_id}
  BY DEF DfsDown
<1>2. /\ alg = "dfs" /\ pc = "scan" /\ DfsHere # end
      /\ UNCHANGED <<call, pc>>
  BY DEF DfsDown, DfsGoesOn
<1>3. /\ trail \in Seq(Vertex)
      /\ next_id \in Vertex /\ next_id \notin seen
      /\ Joined(edges, trail[Len(trail)], next_id)
  BY <1>1 DEF DfsFresh, DfsHere, Neighbours, Types, TypeOK
<1>. DEFINE n == Len(trail)
<1>4. n \in Nat \ {0}
  BY <1>2, <1>3 DEF Chained
<1>5. /\ Len(trail') = n + 1
      /\ \A i \in 1..n : trail'[i] = trail[i]
      /\ trail'[n + 1] = next_id
  BY <1>1, <1>3
<1>6. trail' # <<>> /\ trail'[1] = start /\ start # end /\ start \in seen
  <2>1. 1 \in 1..n
    BY <1>4
  <2>. QED  BY <1>2, <1>4, <1>5, <2>1 DEF Chained
<1>7. ASSUME NEW i \in 1..n PROVE Joined(edges, trail'[i], trail'[i + 1])
  <2>1. CASE i = n
    BY <1>3, <1>4, <1>5, <2>1
  <2>2. CASE i # n
    <3>1. i \in 1..n - 1 /\ i + 1 \in 1..n
      BY <1>4, <2>2
    <3>2. Joined(edges, trail[i], trail[i + 1])
      BY <1>2, <3>1 DEF Chained, IsWalk
    <3>. QED  BY <1>5, <3>1, <3>2
  <2>. QED  BY <2>1, <2>2
<1>8. ASSUME NEW i \in 1..n + 1 PROVE trail'[i] \in seen' /\ (i # 1 => trail'[i] # start)
  <2>1. CASE i = n + 1
    BY <1>1, <1>3, <1>5, <1>6, <2>1
  <2>2. CASE i # n + 1
    <3>1. i \in 1..n
      BY <1>4, <2>2
    <3>. QED  BY <1>1, <1>2, <1>5, <3>1 DEF Chained
  <2>. QED  BY <2>1, <2>2
<1>9. ASSUME NEW i \in 1..n PROVE trail'[i] # end
  <2>1. CASE i = n
    BY <1>2, <1>4, <1>5, <2>1 DEF DfsHere
  <2>2. CASE i # n
    <3>1. i \in 1..n - 1
      BY <1>4, <2>2
    <3>. QED  BY <1>2, <1>5, <3>1 DEF Chained
  <2>. QED  BY <2>1, <2>2
<1>10. ASSUME NEW v \in seen' PROVE In(v, trail') \/ Passed(v)'
  <2>1. In(v, trail') <=> In(v, trail) \/ v = next_id
    BY <1>1, <1>3, AppendIn
  <2>2. Passed(v) => Passed(v)'
    BY <1>1, <1>2 DEF Passed, Neighbours, Joined, call
  <2>. QED  BY <1>1, <1>2, <2>1, <2>2 DEF Chained
<1>. HIDE DEF n
<1>11. Len(trail') - 1 = n
  BY <1>4, <1>5
<1>12. UNCHANGED <<edges, start, end>>
  BY <1>2 DEF call
<1>13. IsWalk(trail)'
  BY <1>7, <1>11, <1>12 DEF IsWalk, Joined
<1>. QED  BY <1>2, <1>5, <1>6, <1>8, <1>9, <1>10, <1>11, <1>12, <1>13 DEF Chained, call

LEMMA ChainedBack ==
  ASSUME Types, Chained, DfsBack
  PROVE  Chained'
<1>. USE Vertices
<1>. DEFINE n == Len(trail)
<1>1. /\ alg = "dfs" /\ pc = "scan" /\ trail[n] # end /\ trail[n] # start
      /\ Neighbours(edges, trail[n]) \subseteq seen
      /\ trail' = SubSeq(trail, 1, n - 1)
      /\ UNCHANGED <<call, pc, seen>>
  BY DEF DfsBack, DfsGoesOn, DfsFresh, DfsHere
<1>2. trail \in Seq(Vertex) /\ n \in Nat
  BY DEF Types, TypeOK
<1>3. n >= 2
  <2>1. n # 0
    BY <1>1, <1>2 DEF Chained
  <2>2. n # 1
    BY <1>1 DEF Chained
  <2>. HIDE DEF n
  <2>. QED  BY <1>2, <2>1, <2>2
<1>4. /\ trail' \in Seq(Vertex)
      /\ Len(trail') = n - 1
      /\ \A i \in 1..n - 1 : trail'[i] = trail[i]
  BY <1>1, <1>2, <1>3
<1>5. UNCHANGED <<edges, start, end, alg, pc, seen>>
  BY <1>1 DEF call
<1>. HIDE DEF n
<1>6. trail' # <<>> /\ trail'[1] = start /\ start # end
  <2>1. 1 \in 1..n - 1
    BY <1>2, <1>3
  <2>. QED  BY <1>1, <1>2, <1>3, <1>4, <2>1 DEF Chained
<1>7. IsWalk(trail)'
  <2>1. ASSUME NEW i \in 1..Len(trail') - 1 PROVE Joined(edges, trail'[i], trail'[i + 1])
    <3>1. i \in 1..n - 1 /\ i + 1 \in 1..n - 1
      BY <1>2, <1>4
    <3>. QED  BY <1>1, <1>4, <3>1 DEF Chained, IsWalk, n
  <2>. QED  BY <1>5, <2>1 DEF IsWalk, Joined
<1>8. \A i \in 1..Len(trail') : trail'[i] \in seen /\ (i # 1 => trail'[i] # start)
  <2>1. \A i \in 1..n - 1 : i \in 1..n
    BY <1>2
  <2>. QED  BY <1>1, <1>4, <2>1 DEF Chained, n
<1>9. \A i \in 1..Len(trail') - 1 : trail'[i] # end
  <2>1. \A i \in 1..(n - 1) - 1 : i \in 1..n - 1
    BY <1>2
  <2>. QED  BY <1>1, <1>4, <2>1 DEF Chained, n
<1>10. ASSUME NEW v \in seen PROVE In(v, trail') \/ Passed(v)
  <2>1. CASE Passed(v)
    BY <2>1
  <2>2. CASE In(v, trail)
    <3>1. PICK i \in 1..n : trail[i] = v
      BY <2>2 DEF In, n
    <3>2. CASE i = n
      BY <1>1, <3>1, <3>2 DEF Passed
    <3>3. CASE i # n
      <4>1. i \in 1..Len(trail') /\ trail'[i] = v
        BY <1>2, <1>4, <3>1, <3>3
      <4>. QED  BY <4>1 DEF In
    <3>. QED  BY <3>2, <3>3
  <2>. QED  BY <1>1, <2>1, <2>2 DEF Chained
<1>11. \A v : Passed(v) => Passed(v)'
  BY <1>5 DEF Passed, Neighbours, Joined
<1>. QED  BY <1>5, <1>6, <1>7, <1>8, <1>9, <1>10, <1>11 DEF Chained

LEMMA ChainedStep == Types /\ Chained /\ [PathToPointId]_vars => Chained'
<1>. SUFFICES ASSUME Types, Chained, [PathToPointId]_vars PROVE Chained'
  OBVIOUS
<1>1. CASE UNCHANGED vars
  BY <1>1 DEF vars, call, locals, Chained, IsWalk, In, Passed, Neighbours, Joined
<1>2. CASE DfsStart
  <2>1. /\ trail' = <<start>> /\ seen' = {start} /\ start # end /\ UNCHANGED call
    BY <1>2 DEF DfsStart
  <2>2. trail'[1] = start /\ Len(trail') = 1 /\ trail' # <<>>
    BY <2>1
  <2>3. In(start, trail')
    BY <2>2 DEF In
  <2>. QED  BY <2>1, <2>2, <2>3 DEF Chained, IsWalk, call
<1>3. CASE DfsDown
  BY <1>3, ChainedDown
<1>4. CASE DfsBack
  BY <1>4, ChainedBack
<1>5. CASE StartsAtEnd \/ Bfs \/ DfsNoPath \/ DfsCopy \/ Dijkstra \/ Astar \/ Retrace
  <2>1. alg' # "dfs" \/ pc' # "scan"
    BY <1>5 DEF StartsAtEnd, Bfs, BfsStart, BfsFind, BfsMoveOn, BfsFound, BfsNoPath, DfsNoPath,
         DfsCopy, Dijkstra, DijkstraStart, DijkstraScan, DijkstraNoPath,
         DijkstraFound, Astar, AstarStart, AstarScan, Retrace, Stray, Return, call
  <2>. QED  BY <2>1 DEF Chained
<1>. QED  BY <1>1, <1>2, <1>3, <1>4, <1>5 DEF PathToPointId, Dfs
-----------------------------------------------------------------------------
(* What is handed back.                                                    *)

Real(p) == p[1] = start /\ p[Len(p)] = end /\ IsWalk(p)

Answered ==
  pc = "done" =>
    /\ path # <<>> /\ alg # "astar" => Real(path)
    /\ path = <<>> /\ alg # "dijkstra" => CutOff

SearchInv == Types /\ Preds /\ Tracing /\ Listed /\ Chained /\ Answered

LEMMA SearchInvCalled == Called => SearchInv
<1>1. Called => Answered
  BY DEF Called, Answered
<1>. QED  BY <1>1, TypesCalled, PredsCalled, TracingCalled, ListedCalled, ChainedCalled DEF SearchInv

LEMMA AnswerIsTaken ==
  ASSUME NEW p, Return(p), p # <<>> /\ alg # "astar" => Real(p),
         p = <<>> /\ alg # "dijkstra" => CutOff
  PROVE  Answered'
<1>1. path' = p /\ UNCHANGED <<alg, edges, start, end>>
  BY DEF Return, call
<1>2. Real(p) => Real(path)'
  BY <1>1 DEF Real, IsWalk, Joined
<1>3. CutOff => CutOff'
  BY <1>1 DEF CutOff, Neighbours, Joined
<1>. QED  BY <1>1, <1>2, <1>3 DEF Answered

LEMMA ClosedMeansCutOff ==
  ASSUME Types, start \in seen, \A v \in seen : Passed(v)
  PROVE  CutOff
<1>1. seen \in SUBSET Vertex
  BY DEF Types, TypeOK
<1>2. end \notin seen /\ \A u \in seen : Neighbours(edges, u) \subseteq seen
  BY DEF Passed
<1>. QED  BY <1>1, <1>2 DEF CutOff

LEMMA DfsAnswers ==
  ASSUME Types, Chained, DfsNoPath \/ DfsCopy
  PROVE  Answered'
<1>. USE Vertices
<1>0. alg = "dfs" /\ pc = "scan"
  BY DEF DfsNoPath, DfsCopy, DfsGoesOn
<1>. DEFINE n == Len(trail)
<1>1. trail \in Seq(Vertex) /\ n \in Nat \ {0} /\ trail # <<>> /\ trail[1] = start
  BY <1>0 DEF Chained, Types, TypeOK
<1>2. CASE DfsNoPath
  <2>1. /\ trail[n] = start /\ Neighbours(edges, trail[n]) \subseteq seen
        /\ start # end /\ Return(<<>>)
    BY <1>0, <1>2 DEF DfsNoPath, DfsGoesOn, DfsFresh, DfsHere, Chained
  <2>2. n = 1
    <3>1. \A i \in 1..n : i # 1 => trail[i] # start
      BY <1>0 DEF Chained
    <3>. HIDE DEF n
    <3>2. n \in 1..n
      BY <1>1
    <3>. QED  BY <2>1, <3>1, <3>2
  <2>3. \A v : In(v, trail) => v = start
    BY <1>1, <2>2 DEF In
  <2>4. \A v \in seen : Passed(v)
    BY <1>0, <2>1, <2>3, <1>1 DEF Chained, Passed
  <2>5. start \in seen
    BY <1>0, <1>1, <2>2 DEF Chained
  <2>. QED  BY <1>0, <2>1, <2>4, <2>5, ClosedMeansCutOff, AnswerIsTaken
<1>3. CASE DfsCopy
  <2>1. trail[n] = end
    <3>1. CASE DfsHere = end
      BY <3>1 DEF DfsHere
    <3>2. CASE Cardinality(seen) >= Cardinality(Vertex)
      <4>1. seen \subseteq Vertex
        BY DEF Types, TypeOK
      <4>2. seen = Vertex
        <5>1. Cardinality(seen) <= Cardinality(Vertex)
          BY <4>1, Vertices, FS_Subset
        <5>2. Cardinality(seen) \in Nat /\ Cardinality(Vertex) \in Nat
          BY <4>1, Vertices, FS_Subset, FS_CardinalityType
        <5>3. Cardinality(seen) = Cardinality(Vertex)
          BY <3>2, <5>1, <5>2
        <5>. QED  BY <4>1, <5>3, Vertices, FS_Subset
      <4>3. end \in seen
        BY <4>2 DEF Types
      <4>4. PICK i \in 1..n : trail[i] = end
        BY <1>0, <4>3 DEF Chained, Passed, In
      <4>5. i \notin 1..n - 1
        BY <1>0, <4>4 DEF Chained
      <4>6. i = n
        BY <1>1, <4>4, <4>5
      <4>. QED  BY <4>4, <4>6
    <3>. QED  BY <1>3, <3>1, <3>2 DEF DfsCopy
  <2>2. Real(trail) /\ Return(trail)
    BY <1>0, <1>1, <1>3, <2>1 DEF Real, Chained, DfsCopy
  <2>. QED  BY <1>1, <2>2, AnswerIsTaken
<1>. QED  BY <1>2, <1>3

LEMMA RetraceAnswers ==
  ASSUME Types, Preds, Tracing, Retrace, pc' = "done"
  PROVE  Answered'
<1>1. /\ pc = "retrace" /\ curr \in Vertex /\ pred[curr] = Root
      /\ Return(<<curr>> \o path)
  BY DEF Retrace, Stray
<1>2. path \in Seq(Vertex)
  BY DEF Types, TypeOK
<1>3. <<curr>> \o path # <<>>
  BY <1>1, <1>2
<1>4. CASE alg # "astar"
  <2>1. curr = start
    BY <1>1, <1>4 DEF Preds
  <2>2. /\ Leads(path)
        /\ path = <<>> => curr = end
        /\ path # <<>> => Joined(edges, curr, path[1])
    BY <1>1, <1>4 DEF Tracing
  <2>3. Leads(<<curr>> \o path) /\ (<<curr>> \o path)[1] = curr
    BY <1>1, <1>2, <2>2, WalkGrows
  <2>4. Real(<<curr>> \o path)
    BY <1>3, <2>1, <2>3 DEF Leads, Real
  <2>. QED  BY <1>1, <1>3, <2>4, AnswerIsTaken
<1>5. CASE alg = "astar"
  BY <1>1, <1>3, <1>5, AnswerIsTaken
<1>. QED  BY <1>4, <1>5

LEMMA AnsweredStep == SearchInv /\ [PathToPointId]_vars => Answered'
<1>. SUFFICES ASSUME SearchInv, [PathToPointId]_vars PROVE Answered'
  OBVIOUS
<1>. USE DEF SearchInv
<1>1. CASE UNCHANGED vars
  BY <1>1 DEF vars, call, locals, Answered, Real, IsWalk, CutOff, Neighbours, Joined
<1>2. CASE pc' # "done"
  BY <1>2 DEF Answered
<1>3. CASE StartsAtEnd
  <2>1. Return(<<start>>) /\ <<start>> # <<>> /\ Real(<<start>>)
    BY <1>3 DEF StartsAtEnd, Real, IsWalk
  <2>. QED  BY <2>1, AnswerIsTaken
<1>4. CASE BfsNoPath
  <2>1. alg = "bfs" /\ pc = "scan" /\ curr = None /\ Return(<<>>)
    BY <1>4 DEF BfsNoPath
  <2>2. start \in seen /\ \A v \in seen : Passed(v)
    <3>1. \A v \in seen : v # None
      BY Vertices DEF Types, TypeOK
    <3>. QED  BY <2>1, <3>1 DEF Listed, In
  <2>. QED  BY <2>1, <2>2, ClosedMeansCutOff, AnswerIsTaken
<1>5. CASE DfsNoPath \/ DfsCopy
  BY <1>5, DfsAnswers
<1>6. CASE DijkstraNoPath
  BY <1>6, AnswerIsTaken DEF DijkstraNoPath
<1>7. CASE Retrace
  BY <1>2, <1>7, RetraceAnswers
<1>8. CASE BfsStart \/ BfsFind \/ BfsMoveOn \/ BfsFound \/ DfsStart \/ DfsDown \/ DfsBack
  <2>1. pc' # "done"
    BY <1>8 DEF BfsStart, BfsFind, BfsMoveOn, BfsFound, DfsStart, DfsDown, DfsBack, DfsGoesOn
  <2>. QED  BY <1>2, <2>1
<1>9. CASE DijkstraStart \/ DijkstraScan \/ DijkstraFound \/ Astar
  <2>1. pc' # "done"
    BY <1>9 DEF DijkstraStart, DijkstraScan, DijkstraFound, Astar, AstarStart, AstarScan
  <2>. QED  BY <1>2, <2>1
<1>. QED  BY <1>1, <1>3, <1>4, <1>5, <1>6, <1>7, <1>8, <1>9 DEF PathToPointId, Bfs, Dfs, Dijkstra

LEMMA SearchInvariant == Spec => []SearchInv
<1>1. SearchInv /\ [PathToPointId]_vars => SearchInv'
  BY TypesStep, PredsStep, TracingStep, ListedStep, ChainedStep, AnsweredStep DEF SearchInv
<1>. QED  BY <1>1, SearchInvCalled, PTL DEF Spec, Init

LEMMA RealOnAnyMap == SearchInv => (alg # "astar" => PathIsReal)
  BY DEF SearchInv, Answered, Real, PathIsReal

LEMMA NoPathOnAnyMap == SearchInv => (alg # "dijkstra" => NoPathMeansCutOff)
  BY DEF SearchInv, Answered, NoPathMeansCutOff
-----------------------------------------------------------------------------
(* Lengths of roads and paths.                                             *)

USE DEF None, Root, Unset

(* A road is as long as the integer part of the root says.                 *)
LEMMA IntegerRoot ==
  ASSUME NEW n \in Nat
  PROVE  \E d \in 0..n : Square(d) <= n /\ n < Square(d + 1)
<1>. DEFINE S == {d \in Nat : n < (d + 1) * (d + 1)}
<1>1. n < (n + 1) * (n + 1)
  <2>1. (n + 1) * (n + 1) = n * n + 2 * n + 1 /\ n * n >= 0
    OBVIOUS
  <2>. QED  BY <2>1
<1>2. S \subseteq Nat /\ n \in S
  BY <1>1
<1>3. PICK d \in S : \A m \in S : d <= m
  <2>. HIDE DEF S
  <2>. QED  BY <1>2, Least
<1>4. d \in Nat /\ d <= n /\ n < (d + 1) * (d + 1)
  <2>. HIDE DEF S
  <2>1. d <= n /\ d \in Nat
    BY <1>2, <1>3
  <2>. QED  BY <1>3, <2>1 DEF S
<1>5. d * d <= n
  <2>1. CASE d = 0
    BY <2>1
  <2>2. CASE d # 0
    <3>1. d - 1 \in Nat /\ d - 1 < d /\ (d - 1) + 1 = d
      BY <1>4, <2>2
    <3>2. d - 1 \notin S
      <4>. HIDE DEF S
      <4>. QED  BY <1>3, <1>4, <3>1
    <3>3. ~(n < ((d - 1) + 1) * ((d - 1) + 1))
      BY <3>1, <3>2
    <3>4. ~(n < d * d) /\ d * d \in Int
      BY <3>1, <3>3, <1>4
    <3>. HIDE DEF S
    <3>. QED  BY <3>4
  <2>. QED  BY <2>1, <2>2
<1>. HIDE DEF S
<1>. QED  BY <1>4, <1>5 DEF Square

Squares(u, v) == Square(Place[u].x - Place[v].x) + Square(Place[u].y - Place[v].y)

LEMMA SquareIsNat == \A n \in Int : Square(n) \in Nat
<1>1. \A n \in Int : n * n \in Int /\ n * n >= 0
  OBVIOUS
<1>. QED  BY <1>1 DEF Square

LEMMA DistanceIsRoot ==
  ASSUME NEW u \in Vertex, NEW v \in Vertex
  PROVE  /\ Distance[u][v] \in Nat
         /\ Squares(u, v) \in Nat
         /\ Square(Distance[u][v]) <= Squares(u, v)
         /\ Squares(u, v) < Square(Distance[u][v] + 1)
<1>1. /\ Place[u].x - Place[v].x \in Int
      /\ Place[u].y - Place[v].y \in Int
  BY MapAssumption
<1>2. Squares(u, v) \in Nat
  BY <1>1, SquareIsNat DEF Squares
<1>3. Distance[u][v] = CHOOSE d \in 0..Squares(u, v) :
                         Square(d) <= Squares(u, v) /\ Squares(u, v) < Square(d + 1)
  BY DEF Distance, Squares
<1>4. \E d \in 0..Squares(u, v) : Square(d) <= Squares(u, v) /\ Squares(u, v) < Square(d + 1)
  BY <1>2, IntegerRoot
<1>5. /\ Distance[u][v] \in 0..Squares(u, v)
      /\ Square(Distance[u][v]) <= Squares(u, v)
      /\ Squares(u, v) < Square(Distance[u][v] + 1)
  BY <1>3, <1>4
<1>. QED  BY <1>2, <1>5

(* Of three points: the way by the second, in rounded lengths, is at most  *)
(* one shorter than the straight one.                                      *)
LEMMA Triangle ==
  ASSUME NEW u \in Vertex, NEW v \in Vertex, NEW w \in Vertex
  PROVE  Distance[u][w] <= Distance[u][v] + Distance[v][w] + 1
<1>. DEFINE a == Distance[u][w]
            b == Distance[u][v] + 1
            c == Distance[v][w] + 1
            x1 == Place[u].x - Place[v].x
            y1 == Place[u].y - Place[v].y
            x2 == Place[v].x - Place[w].x
            y2 == Place[v].y - Place[w].y
            B == x1 * x1 + y1 * y1
            C == x2 * x2 + y2 * y2
            m == x1 * x2 + y1 * y2
<1>1. x1 \in Int /\ y1 \in Int /\ x2 \in Int /\ y2 \in Int
  BY MapAssumption
<1>2. /\ Place[u].x - Place[w].x = x1 + x2
      /\ Place[u].y - Place[w].y = y1 + y2
  BY MapAssumption
<1>3. /\ Squares(u, w) = (x1 + x2) * (x1 + x2) + (y1 + y2) * (y1 + y2)
      /\ Squares(u, v) = B
      /\ Squares(v, w) = C
  BY <1>2 DEF Squares, Square
<1>4. /\ a \in Nat /\ b \in Nat /\ c \in Nat
      /\ a * a <= (x1 + x2) * (x1 + x2) + (y1 + y2) * (y1 + y2)
      /\ B < b * b
      /\ C < c * c
  BY <1>3, DistanceIsRoot DEF Square
<1>5. /\ Distance[u][v] \in Nat /\ Distance[v][w] \in Nat /\ Distance[u][w] \in Nat
      /\ a = Distance[u][w] /\ b = Distance[u][v] + 1 /\ c = Distance[v][w] + 1
  BY DistanceIsRoot
<1>6. SUFFICES ASSUME a >= b + c PROVE FALSE
  <2>. HIDE DEF a, b, c
  <2>. QED  BY <1>4, <1>5
<1>. HIDE DEF a, b, c, x1, y1, x2, y2
<1>7. (x1 + x2) * (x1 + x2) + (y1 + y2) * (y1 + y2) = B + C + 2 * m
  BY <1>1
<1>8. B \in Int /\ C \in Int /\ m \in Int /\ B >= 0 /\ C >= 0
  BY <1>1
<1>9. m * m <= B * C
  <2>1. B * C - m * m = (x1 * y2 - x2 * y1) * (x1 * y2 - x2 * y1)
    BY <1>1
  <2>2. (x1 * y2 - x2 * y1) * (x1 * y2 - x2 * y1) >= 0
    <3>1. x1 * y2 - x2 * y1 \in Int
      BY <1>1
    <3>2. \A n \in Int : n * n >= 0
      OBVIOUS
    <3>. QED  BY <3>1, <3>2
  <2>. HIDE DEF B, C, m
  <2>. QED  BY <1>8, <2>1, <2>2
<1>. HIDE DEF B, C, m
<1>10. (b + c) * (b + c) <= a * a
  BY <1>4, <1>6
<1>11. (b + c) * (b + c) = b * b + c * c + 2 * (b * c)
  BY <1>4
<1>12. b * c < m
  <2>1. b * b \in Int /\ c * c \in Int /\ b * c \in Int /\ a * a \in Int
    BY <1>4
  <2>. QED  BY <1>4, <1>7, <1>8, <1>10, <1>11, <2>1
<1>13. (b * c) * (b * c) < m * m
  BY <1>4, <1>8, <1>12
<1>14. B * C <= (b * b) * (c * c)
  BY <1>4, <1>8
<1>15. (b * b) * (c * c) = (b * c) * (b * c)
  BY <1>4
<1>16. /\ m * m \in Int /\ B * C \in Int /\ (b * b) * (c * c) \in Int
       /\ (b * c) * (b * c) \in Int
  BY <1>4, <1>8
<1>. QED  BY <1>9, <1>13, <1>14, <1>15, <1>16

(* The length of a path, unfolded at either end.                           *)
LEMMA TailOfPath ==
  ASSUME NEW p \in Seq(Vertex), ~(Len(p) <= 1)
  PROVE  /\ Tail(p) \in Seq(Vertex) /\ Len(Tail(p)) = Len(p) - 1 /\ Len(p) \in Nat
         /\ p[1] \in Vertex /\ p[2] \in Vertex
         /\ \A i \in 1..Len(p) - 1 : Tail(p)[i] = p[i + 1]
<1>1. Len(p) \in Nat /\ p # <<>>
  OBVIOUS
<1>2. Tail(p) \in Seq(Vertex) /\ Len(Tail(p)) = Len(p) - 1
  BY <1>1
<1>3. 1 \in 1..Len(p) /\ 2 \in 1..Len(p)
  BY <1>1
<1>4. p[1] \in Vertex /\ p[2] \in Vertex
  BY <1>3
<1>5. \A i \in 1..Len(p) - 1 : Tail(p)[i] = p[i + 1]
  BY <1>1
<1>. QED  BY <1>1, <1>2, <1>4, <1>5

LEMMA LengthUnfold ==
  /\ LengthOf \in [Seq(Vertex) -> Nat]
  /\ \A p \in Seq(Vertex) :
       LengthOf[p] = IF Len(p) <= 1 THEN 0 ELSE Distance[p[1]][p[2]] + LengthOf[Tail(p)]
<1>. DEFINE S == Seq(Vertex)
            rank == [p \in S |-> IF Len(p) <= 1 THEN 0 ELSE Len(p)]
            prev == [p \in S |-> IF Len(p) <= 1 THEN p ELSE Tail(p)]
            base == [p \in S |-> 0]
            step == [p \in S |-> [t \in Nat |->
                       IF Len(p) <= 1 THEN 0 ELSE Distance[p[1]][p[2]] + t]]
<1>1. \A p \in S : /\ Len(p) \in Nat
                   /\ ~(Len(p) <= 1) => /\ Tail(p) \in S /\ Len(Tail(p)) = Len(p) - 1
                                        /\ Distance[p[1]][p[2]] \in Nat
  BY TailOfPath, DistanceIsRoot
<1>2. rank \in [S -> Nat] /\ prev \in [S -> S] /\ base \in [S -> Nat]
  <2>. HIDE DEF S
  <2>. QED  BY <1>1
<1>3. step \in [S -> [Nat -> Nat]]
  <2>1. \A p \in S, t \in Nat : (IF Len(p) <= 1 THEN 0 ELSE Distance[p[1]][p[2]] + t) \in Nat
    BY <1>1
  <2>. HIDE DEF S
  <2>. QED  BY <2>1
<1>4. \A p \in S : rank[p] # 0 => rank[prev[p]] < rank[p]
  <2>. HIDE DEF S
  <2>. QED  BY <1>1
<1>5. PICK f : Solves(f, S, Nat, rank, prev, base, step)
  <2>. HIDE DEF rank, prev, base, step, S
  <2>1. Recursive(S, Nat, rank, prev, base, step)
    BY <1>2, <1>3, <1>4 DEF Recursive
  <2>. QED  BY <2>1, Recursion
<1>6. f \in [S -> Nat]
  BY <1>5 DEF Solves
<1>7. ASSUME NEW p \in S
      PROVE  f[p] = IF Len(p) <= 1 THEN 0 ELSE Distance[p[1]][p[2]] + f[Tail(p)]
  <2>1. f[p] = IF rank[p] = 0 THEN base[p] ELSE step[p][f[prev[p]]]
    BY <1>5 DEF Solves
  <2>. HIDE DEF S
  <2>2. CASE Len(p) <= 1
    BY <2>1, <2>2
  <2>3. CASE ~(Len(p) <= 1)
    <3>1. f[Tail(p)] \in Nat /\ Len(p) # 0
      BY <1>1, <1>6, <2>3
    <3>. QED  BY <2>1, <2>3, <3>1
  <2>. QED  BY <2>2, <2>3
<1>8. f = [p \in S |-> IF Len(p) <= 1 THEN 0 ELSE Distance[p[1]][p[2]] + f[Tail(p)]]
  <2>. HIDE DEF S
  <2>. QED  BY <1>6, <1>7
<1>9. LengthOf = [p \in S |-> IF Len(p) <= 1 THEN 0 ELSE Distance[p[1]][p[2]] + LengthOf[Tail(p)]]
  BY <1>8 DEF LengthOf
<1>. DEFINE P == {p \in S : LengthOf[p] \in Nat}
<1>10. ASSUME NEW p \in S, \A q \in S : rank[q] < rank[p] => q \in P
       PROVE  p \in P
  <2>. HIDE DEF S
  <2>1. CASE Len(p) <= 1
    <3>1. LengthOf[p] = 0
      BY <1>9, <2>1
    <3>. QED  BY <3>1
  <2>2. CASE ~(Len(p) <= 1)
    <3>1. Tail(p) \in S /\ rank[Tail(p)] < rank[p] /\ Distance[p[1]][p[2]] \in Nat
      BY <1>1, <2>2
    <3>2. LengthOf[Tail(p)] \in Nat
      BY <1>10, <3>1
    <3>3. LengthOf[p] = Distance[p[1]][p[2]] + LengthOf[Tail(p)]
      BY <1>9, <2>2
    <3>. QED  BY <3>1, <3>2, <3>3
  <2>. QED  BY <2>1, <2>2
<1>11. S \subseteq P
  <2>. HIDE DEF rank, P, S
  <2>. QED  BY <1>2, <1>10, Descent
<1>12. LengthOf \in [S -> Nat]
  <2>. HIDE DEF S
  <2>. QED  BY <1>9, <1>11
<1>. QED  BY <1>9, <1>12

LEMMA LengthIsNat ==
  ASSUME NEW p \in Seq(Vertex)
  PROVE  LengthOf[p] \in Nat
<1>. DEFINE S == Seq(Vertex)
<1>1. LengthOf \in [S -> Nat] /\ p \in S
  BY LengthUnfold
<1>. HIDE DEF S
<1>. QED  BY <1>1

LEMMA LengthOfOne ==
  ASSUME NEW v \in Vertex
  PROVE  LengthOf[<<v>>] = 0
<1>1. <<v>> \in Seq(Vertex) /\ Len(<<v>>) <= 1
  OBVIOUS
<1>. QED  BY <1>1, LengthUnfold

LEMMA LengthFromFront ==
  ASSUME NEW u \in Vertex, NEW p \in Seq(Vertex), p # <<>>
  PROVE  LengthOf[<<u>> \o p] = Distance[u][p[1]] + LengthOf[p]
<1>. DEFINE q == <<u>> \o p
<1>1. /\ q \in Seq(Vertex) /\ Len(q) = Len(p) + 1 /\ Len(p) > 0 /\ Len(p) \in Nat
      /\ Tail(q) = p
  OBVIOUS
<1>2. q[1] = u /\ q[2] = p[1]
  <2>1. 1 \in 1..Len(p)
    BY <1>1
  <2>. QED  BY <2>1
<1>. HIDE DEF q
<1>3. ~(Len(q) <= 1)
  BY <1>1
<1>4. LengthOf[q] = Distance[q[1]][q[2]] + LengthOf[Tail(q)]
  BY <1>1, <1>3, LengthUnfold
<1>. QED  BY <1>1, <1>2, <1>4 DEF q

LEMMA MoreThanOne == \A n \in Nat : n > 0 /\ n # 1 => ~(n <= 1) /\ n - 1 > 0
OBVIOUS

LEMMA LengthFromBackStep ==
  ASSUME NEW q \in Seq(Vertex), q # <<>>, NEW v \in Vertex,
         Len(q) # 1 => LengthOf[Append(Tail(q), v)]
                         = LengthOf[Tail(q)] + Distance[Tail(q)[Len(Tail(q))]][v]
  PROVE  LengthOf[Append(q, v)] = LengthOf[q] + Distance[q[Len(q)]][v]
<1>1. /\ Append(q, v) \in Seq(Vertex) /\ Len(Append(q, v)) = Len(q) + 1
      /\ Len(q) \in Nat /\ Len(q) > 0
  OBVIOUS
<1>2. \A i \in 1..Len(q) : Append(q, v)[i] = q[i] /\ q[i] \in Vertex
  OBVIOUS
<1>3. Append(q, v)[Len(q) + 1] = v
  OBVIOUS
<1>4. LengthOf[Append(q, v)]
        = Distance[Append(q, v)[1]][Append(q, v)[2]] + LengthOf[Tail(Append(q, v))]
  <2>1. ~(Len(Append(q, v)) <= 1)
    BY <1>1
  <2>. QED  BY <1>1, <2>1, LengthUnfold
<1>5. 1 \in 1..Len(q) /\ Len(q) \in 1..Len(q)
  BY <1>1
<1>6. Distance[q[Len(q)]][v] \in Nat
  BY <1>2, <1>5, DistanceIsRoot
<1>7. CASE Len(q) = 1
  <2>1. LengthOf[Tail(Append(q, v))] = 0
    <3>1. ~(Len(Append(q, v)) <= 1)
      BY <1>1
    <3>2. Tail(Append(q, v)) \in Seq(Vertex) /\ Len(Tail(Append(q, v))) = Len(Append(q, v)) - 1
      BY <1>1, <3>1, TailOfPath
    <3>3. Len(Tail(Append(q, v))) <= 1
      BY <1>1, <1>7, <3>2
    <3>. QED  BY <3>2, <3>3, LengthUnfold
  <2>2. LengthOf[q] = 0
    BY <1>7, LengthUnfold
  <2>3. Append(q, v)[1] = q[Len(q)] /\ Append(q, v)[2] = v
    BY <1>2, <1>3, <1>5, <1>7
  <2>4. LengthOf[Append(q, v)] = Distance[q[Len(q)]][v] + 0
    BY <1>4, <2>1, <2>3
  <2>5. \A d \in Nat : d + 0 = 0 + d
    OBVIOUS
  <2>. QED  BY <1>6, <2>2, <2>4, <2>5
<1>8. CASE Len(q) # 1
  <2>1. ~(Len(q) <= 1)
    BY <1>1, <1>8, MoreThanOne
  <2>2. /\ Tail(q) \in Seq(Vertex) /\ Len(Tail(q)) = Len(q) - 1
        /\ \A i \in 1..Len(q) - 1 : Tail(q)[i] = q[i + 1]
    BY <2>1, TailOfPath
  <2>3. Tail(Append(q, v)) = Append(Tail(q), v)
    BY <2>1
  <2>4. Tail(q)[Len(Tail(q))] = q[Len(q)]
    <3>1. Len(q) - 1 \in 1..Len(q) - 1 /\ (Len(q) - 1) + 1 = Len(q)
      BY <1>1, <2>1
    <3>. QED  BY <2>2, <3>1
  <2>5. LengthOf[q] = Distance[q[1]][q[2]] + LengthOf[Tail(q)]
    BY <2>1, LengthUnfold
  <2>6. Append(q, v)[1] = q[1] /\ Append(q, v)[2] = q[2]
    <3>1. 2 \in 1..Len(q)
      BY <1>1, <2>1
    <3>. QED  BY <1>2, <1>5, <3>1
  <2>7. LengthOf[Tail(q)] \in Nat /\ Distance[q[1]][q[2]] \in Nat
    <3>1. q[1] \in Vertex /\ q[2] \in Vertex
      BY <2>1, TailOfPath
    <3>. QED  BY <2>2, <3>1, LengthIsNat, DistanceIsRoot
  <2>8. LengthOf[Append(Tail(q), v)] = LengthOf[Tail(q)] + Distance[q[Len(q)]][v]
    BY <1>8, <2>4
  <2>9. LengthOf[Append(q, v)]
          = Distance[q[1]][q[2]] + (LengthOf[Tail(q)] + Distance[q[Len(q)]][v])
    BY <1>4, <2>3, <2>6, <2>8
  <2>10. \A a, b, c \in Nat : a + (b + c) = (a + b) + c
    OBVIOUS
  <2>. QED  BY <1>6, <2>5, <2>7, <2>9, <2>10
<1>. QED  BY <1>7, <1>8

LEMMA LengthFromBack ==
  ASSUME NEW p \in Seq(Vertex), p # <<>>, NEW v \in Vertex
  PROVE  LengthOf[Append(p, v)] = LengthOf[p] + Distance[p[Len(p)]][v]
<1>. DEFINE S == Seq(Vertex)
            rank == [q \in S |-> Len(q)]
            Holds(q) == LengthOf[Append(q, v)] = LengthOf[q] + Distance[q[Len(q)]][v]
            P == {q \in S : q # <<>> => Holds(q)}
<1>1. rank \in [S -> Nat]
  <2>1. \A q \in S : Len(q) \in Nat
    OBVIOUS
  <2>. HIDE DEF S
  <2>. QED  BY <2>1
<1>2. ASSUME NEW q \in S, \A r \in S : rank[r] < rank[q] => r \in P, q # <<>>
      PROVE  Holds(q)
  <2>1. Len(q) \in Nat /\ Len(q) > 0
    BY <1>2
  <2>2. ASSUME Len(q) # 1
        PROVE  Holds(Tail(q))
    <3>1. ~(Len(q) <= 1)
      BY <2>1, <2>2, MoreThanOne
    <3>2. Tail(q) \in S /\ Len(Tail(q)) = Len(q) - 1 /\ Tail(q) # <<>>
      BY <3>1, TailOfPath
    <3>3. rank[Tail(q)] < rank[q]
      <4>. HIDE DEF S
      <4>. QED  BY <2>1, <3>2
    <3>4. Tail(q) \in P
      <4>. HIDE DEF S, P, rank
      <4>. QED  BY <1>2, <3>2, <3>3
    <3>. HIDE DEF Holds, S
    <3>. QED  BY <3>2, <3>4
  <2>. QED  BY <1>2, <2>2, LengthFromBackStep
<1>3. S \subseteq P
  <2>1. \A q \in S : (\A r \in S : rank[r] < rank[q] => r \in P) => q \in P
    <3>. HIDE DEF S, rank, Holds
    <3>. QED  BY <1>2
  <2>. HIDE DEF S, rank, P
  <2>. QED  BY <1>1, <2>1, Descent
<1>4. p \in S /\ Holds(p)
  <2>. HIDE DEF Holds, S
  <2>1. p \in S
    BY DEF S
  <2>. QED  BY <1>3, <2>1
<1>. QED  BY <1>4
-----------------------------------------------------------------------------
(* Walks from the start, and their beginnings.                             *)
End(p) == p[Len(p)]

WalkFrom(p) == p \in Seq(Vertex) /\ p # <<>> /\ p[1] = start /\ IsWalk(p)

UpTo(p, j) == SubSeq(p, 1, j)

LEMMA Ends ==
  ASSUME NEW p \in Seq(Vertex), p # <<>>
  PROVE  /\ Len(p) \in Nat /\ Len(p) > 0
         /\ 1 \in 1..Len(p) /\ Len(p) \in 1..Len(p)
         /\ p[1] \in Vertex /\ End(p) \in Vertex
         /\ \A i \in 1..Len(p) : p[i] \in Vertex
<1>1. Len(p) \in Nat /\ Len(p) > 0
  OBVIOUS
<1>2. 1 \in 1..Len(p) /\ Len(p) \in 1..Len(p)
  BY <1>1
<1>3. \A i \in 1..Len(p) : p[i] \in Vertex
  OBVIOUS
<1>. QED  BY <1>1, <1>2, <1>3 DEF End

LEMMA WalkOfOne ==
  ASSUME Types
  PROVE  WalkFrom(<<start>>) /\ End(<<start>>) = start /\ Len(<<start>>) = 1
<1>1. start \in Vertex
  BY DEF Types
<1>2. <<start>> \in Seq(Vertex) /\ <<start>> # <<>> /\ Len(<<start>>) = 1 /\ <<start>>[1] = start
  BY <1>1
<1>3. IsWalk(<<start>>)
  BY <1>2 DEF IsWalk
<1>. QED  BY <1>2, <1>3 DEF WalkFrom, End

LEMMA Appended ==
  ASSUME NEW p \in Seq(Vertex), p # <<>>, NEW w \in Vertex
  PROVE  /\ Append(p, w) \in Seq(Vertex) /\ Append(p, w) # <<>>
         /\ Len(Append(p, w)) = Len(p) + 1
         /\ End(Append(p, w)) = w
         /\ \A i \in 1..Len(p) : Append(p, w)[i] = p[i]
         /\ Append(p, w)[1] = p[1]
<1>1. /\ Append(p, w) \in Seq(Vertex) /\ Len(Append(p, w)) = Len(p) + 1
      /\ \A i \in 1..Len(p) : Append(p, w)[i] = p[i]
      /\ Append(p, w)[Len(p) + 1] = w
  OBVIOUS
<1>2. 1 \in 1..Len(p) /\ Append(p, w) # <<>>
  BY <1>1, Ends
<1>. QED  BY <1>1, <1>2 DEF End

LEMMA WalkOn ==
  ASSUME NEW p, WalkFrom(p), NEW w \in Neighbours(edges, End(p))
  PROVE  WalkFrom(Append(p, w))
<1>1. p \in Seq(Vertex) /\ p # <<>> /\ p[1] = start /\ IsWalk(p)
  BY DEF WalkFrom
<1>2. w \in Vertex /\ Joined(edges, End(p), w)
  BY DEF Neighbours
<1>3. /\ Append(p, w) \in Seq(Vertex) /\ Append(p, w) # <<>>
      /\ Len(Append(p, w)) = Len(p) + 1
      /\ End(Append(p, w)) = w
      /\ \A i \in 1..Len(p) : Append(p, w)[i] = p[i]
      /\ Append(p, w)[1] = p[1]
  BY <1>1, <1>2, Appended
<1>4. Len(p) \in Nat /\ Len(p) > 0
  BY <1>1, Ends
<1>5. ASSUME NEW i \in 1..Len(Append(p, w)) - 1
      PROVE  Joined(edges, Append(p, w)[i], Append(p, w)[i + 1])
  <2>1. i \in 1..Len(p)
    BY <1>3, <1>4, <1>5
  <2>2. CASE i = Len(p)
    <3>1. Append(p, w)[i] = End(p) /\ Append(p, w)[i + 1] = w
      BY <1>3, <2>1, <2>2 DEF End
    <3>. QED  BY <1>2, <3>1
  <2>3. CASE i # Len(p)
    <3>1. i \in 1..Len(p) - 1 /\ i + 1 \in 1..Len(p)
      BY <1>4, <2>1, <2>3
    <3>2. Joined(edges, p[i], p[i + 1])
      BY <1>1, <3>1 DEF IsWalk
    <3>. QED  BY <1>3, <2>1, <3>1, <3>2
  <2>. QED  BY <2>2, <2>3
<1>6. IsWalk(Append(p, w))
  BY <1>5 DEF IsWalk
<1>. QED  BY <1>1, <1>3, <1>6 DEF WalkFrom

LEMMA WalkUpTo ==
  ASSUME NEW p, WalkFrom(p), NEW j \in 1..Len(p)
  PROVE  /\ WalkFrom(UpTo(p, j))
         /\ Len(UpTo(p, j)) = j
         /\ End(UpTo(p, j)) = p[j]
         /\ \A i \in 1..j : UpTo(p, j)[i] = p[i]
<1>1. p \in Seq(Vertex) /\ p # <<>> /\ p[1] = start /\ IsWalk(p)
  BY DEF WalkFrom
<1>2. Len(p) \in Nat /\ j \in Nat /\ j > 0 /\ j <= Len(p)
  BY <1>1, Ends
<1>3. /\ UpTo(p, j) \in Seq(Vertex)
      /\ Len(UpTo(p, j)) = j
      /\ \A i \in 1..j : UpTo(p, j)[i] = p[i]
  BY <1>1, <1>2 DEF UpTo
<1>4. 1 \in 1..j /\ j \in 1..j
  BY <1>2
<1>5. UpTo(p, j) # <<>>
  BY <1>2, <1>3
<1>6. ASSUME NEW i \in 1..Len(UpTo(p, j)) - 1
      PROVE  Joined(edges, UpTo(p, j)[i], UpTo(p, j)[i + 1])
  <2>1. i \in 1..j /\ i + 1 \in 1..j /\ i \in 1..Len(p) - 1
    BY <1>2, <1>3
  <2>2. Joined(edges, p[i], p[i + 1])
    BY <1>1, <2>1 DEF IsWalk
  <2>. QED  BY <1>3, <2>1, <2>2
<1>7. IsWalk(UpTo(p, j))
  BY <1>6 DEF IsWalk
<1>. QED  BY <1>1, <1>3, <1>4, <1>5, <1>7 DEF WalkFrom, End

LEMMA WalkStep ==
  ASSUME NEW p, WalkFrom(p), NEW j \in 1..Len(p) - 1
  PROVE  /\ j \in 1..Len(p) /\ j + 1 \in 1..Len(p)
         /\ p[j + 1] \in Neighbours(edges, p[j])
         /\ UpTo(p, j + 1) = Append(UpTo(p, j), p[j + 1])
<1>1. p \in Seq(Vertex) /\ p # <<>> /\ IsWalk(p)
  BY DEF WalkFrom
<1>2. Len(p) \in Nat /\ \A i \in 1..Len(p) : p[i] \in Vertex
  BY <1>1, Ends
<1>3. j \in 1..Len(p) /\ j + 1 \in 1..Len(p) /\ j \in Nat
  BY <1>2
<1>4. Joined(edges, p[j], p[j + 1]) /\ p[j + 1] \in Vertex
  BY <1>1, <1>2, <1>3 DEF IsWalk
<1>5. UpTo(p, j + 1) = Append(UpTo(p, j), p[j + 1])
  BY <1>1, <1>3 DEF UpTo
<1>. QED  BY <1>3, <1>4, <1>5 DEF Neighbours

LEMMA WholeWalk ==
  ASSUME NEW p \in Seq(Vertex)
  PROVE  UpTo(p, Len(p)) = p
  BY DEF UpTo

(* What no road lessens is no more at the beginning of a walk.             *)
LEMMA GrowsAlong ==
  ASSUME NEW g \in [Seq(Vertex) -> Int], NEW p, WalkFrom(p),
         \A q : WalkFrom(q) =>
           \A w \in Neighbours(edges, End(q)) : g[q] <= g[Append(q, w)],
         NEW i \in 1..Len(p)
  PROVE  g[UpTo(p, i)] <= g[p]
<1>1. p \in Seq(Vertex) /\ p # <<>>
  BY DEF WalkFrom
<1>2. Len(p) \in Nat /\ i \in Nat /\ i > 0 /\ i <= Len(p) /\ Len(p) \in 1..Len(p)
  BY <1>1, Ends
<1>. DEFINE G(j) == g[UpTo(p, j)]
            S == {j \in i..Len(p) : G(j) < G(i)}
<1>3. ASSUME NEW j \in 1..Len(p) PROVE G(j) \in Int
  <2>1. UpTo(p, j) \in Seq(Vertex)
    BY WalkUpTo DEF WalkFrom
  <2>. DEFINE D == Seq(Vertex)
  <2>2. g \in [D -> Int] /\ UpTo(p, j) \in D
    BY <2>1
  <2>. HIDE DEF D
  <2>. QED  BY <2>2
<1>4. ASSUME NEW j \in 1..Len(p) - 1 PROVE G(j) <= G(j + 1)
  <2>1. /\ j \in 1..Len(p)
        /\ p[j + 1] \in Neighbours(edges, p[j])
        /\ UpTo(p, j + 1) = Append(UpTo(p, j), p[j + 1])
    BY WalkStep
  <2>2. WalkFrom(UpTo(p, j)) /\ End(UpTo(p, j)) = p[j]
    BY <2>1, WalkUpTo
  <2>. QED  BY <2>1, <2>2
<1>. HIDE DEF G
<1>5. SUFFICES S = {}
  <2>1. Len(p) \in i..Len(p)
    BY <1>2
  <2>2. ~(G(Len(p)) < G(i))
    BY <2>1, <1>5
  <2>3. G(Len(p)) \in Int /\ G(i) \in Int
    BY <1>2, <1>3
  <2>4. G(Len(p)) = g[p]
    BY <1>1, WholeWalk DEF G
  <2>5. G(i) <= g[p]
    BY <2>2, <2>3, <2>4
  <2>. QED  BY <2>5 DEF G
<1>6. SUFFICES ASSUME S # {} PROVE FALSE
  OBVIOUS
<1>7. S \subseteq Nat
  BY <1>2
<1>8. PICK m \in S : \A n \in S : m <= n
  <2>. HIDE DEF S
  <2>. QED  BY <1>6, <1>7, Least
<1>9. m \in i..Len(p) /\ G(m) < G(i) /\ m # i
  <2>1. m \in i..Len(p) /\ G(m) < G(i)
    BY <1>8
  <2>2. G(i) \in Int
    BY <1>2, <1>3
  <2>3. ~(G(i) < G(i))
    BY <2>2
  <2>. QED  BY <2>1, <2>3
<1>10. m - 1 \in i..Len(p) /\ m - 1 \in 1..Len(p) - 1 /\ (m - 1) + 1 = m /\ m \in 1..Len(p) /\ ~(m <= m - 1)
  BY <1>2, <1>9
<1>11. ~(G(m - 1) < G(i))
  <2>1. m - 1 \notin S
    <3>. HIDE DEF S
    <3>. QED  BY <1>8, <1>10
  <2>. QED  BY <1>10, <2>1
<1>12. G(m - 1) <= G(m)
  BY <1>4, <1>10
<1>13. G(m - 1) \in Int /\ G(m) \in Int /\ G(i) \in Int
  <2>1. m - 1 \in 1..Len(p)
    BY <1>2, <1>10
  <2>. QED  BY <1>2, <1>3, <1>10, <2>1
<1>. HIDE DEF S
<1>. QED  BY <1>9, <1>11, <1>12, <1>13

(* A walk out of a part of the map takes a road out of it.                 *)
LEMMA WalkLeaves ==
  ASSUME NEW p, WalkFrom(p), NEW part, start \in part, End(p) \notin part
  PROVE  \E i \in 1..Len(p) - 1 : p[i] \in part /\ p[i + 1] \notin part
<1>1. p \in Seq(Vertex) /\ p # <<>> /\ p[1] = start
  BY DEF WalkFrom
<1>2. Len(p) \in Nat /\ Len(p) \in 1..Len(p)
  BY <1>1, Ends
<1>. DEFINE S == {j \in 1..Len(p) : p[j] \notin part}
<1>3. Len(p) \in S /\ S \subseteq Nat
  BY <1>2 DEF End
<1>4. PICK m \in S : \A n \in S : m <= n
  <2>. HIDE DEF S
  <2>. QED  BY <1>3, Least
<1>5. m \in 1..Len(p) /\ p[m] \notin part /\ m # 1
  BY <1>1, <1>4
<1>6. m - 1 \in 1..Len(p) /\ m - 1 \in 1..Len(p) - 1 /\ (m - 1) + 1 = m /\ ~(m <= m - 1)
  BY <1>2, <1>5
<1>7. p[m - 1] \in part
  <2>1. m - 1 \notin S
    <3>. HIDE DEF S
    <3>. QED  BY <1>4, <1>6
  <2>. QED  BY <1>6, <2>1
<1>. QED  BY <1>5, <1>6, <1>7
-----------------------------------------------------------------------------
(* Tours, and the shortest of them.                                        *)
TourTo(p, v) == p \in Tour /\ p[1] = start /\ End(p) = v /\ IsWalk(p)

LEMMA TourIsPath ==
  ASSUME NEW p \in Tour
  PROVE  /\ p \in Seq(Vertex) /\ p # <<>>
         /\ Len(p) <= Cardinality(Vertex)
         /\ Length[p] = LengthOf[p]
         /\ \A i, j \in 1..Len(p) : p[i] = p[j] => i = j
<1>1. Cardinality(Vertex) \in Nat
  BY Vertices, FS_CardinalityType
<1>2. PICK n \in 1..Cardinality(Vertex) : p \in [1..n -> Vertex]
  BY DEF Tour
<1>3. n \in Nat /\ n > 0 /\ n <= Cardinality(Vertex)
  BY <1>1, <1>2
<1>4. p \in Seq(Vertex) /\ Len(p) = n
  BY <1>2, <1>3
<1>5. p # <<>>
  BY <1>3, <1>4
<1>6. DOMAIN p = 1..Len(p)
  BY <1>2, <1>4
<1>7. \A i, j \in 1..Len(p) : p[i] = p[j] => i = j
  BY <1>6 DEF Tour
<1>. QED  BY <1>3, <1>4, <1>5, <1>7 DEF Length

LEMMA NoTurnIsTour ==
  ASSUME NEW p \in Seq(Vertex), p # <<>>,
         \A i, j \in 1..Len(p) : p[i] = p[j] => i = j
  PROVE  p \in Tour
<1>1. Cardinality(Vertex) \in Nat /\ IsFiniteSet(Vertex)
  BY Vertices, FS_CardinalityType
<1>2. Len(p) \in Nat /\ Len(p) > 0
  BY Ends
<1>3. p \in [1..Len(p) -> Vertex] /\ DOMAIN p = 1..Len(p)
  OBVIOUS
<1>4. p \in Injection(1..Len(p), Vertex)
  BY <1>3 DEF Injection, IsInjective
<1>5. Cardinality(1..Len(p)) <= Cardinality(Vertex)
  BY <1>1, <1>4, FS_Injection
<1>6. Cardinality(1..Len(p)) = Len(p)
  BY <1>2, FS_Interval
<1>7. Len(p) \in 1..Cardinality(Vertex)
  BY <1>1, <1>2, <1>5, <1>6
<1>. QED  BY <1>3, <1>7 DEF Tour

LEMMA TourIsWalk ==
  ASSUME NEW p, NEW v, TourTo(p, v)
  PROVE  WalkFrom(p) /\ End(p) = v
  BY TourIsPath DEF TourTo, WalkFrom

LEMMA NearestIsLeast ==
  ASSUME NEW v
  PROVE  /\ Nearest(v) \in Nat
         /\ Nearest(v) <= INT_MAX
         /\ \A p : TourTo(p, v) => Nearest(v) <= LengthOf[p]
         /\ Nearest(v) = INT_MAX \/ \E p : TourTo(p, v) /\ Nearest(v) = LengthOf[p]
<1>. DEFINE lengths == {INT_MAX} \union {Length[p] : p \in {q \in Tour :
                         q[1] = start /\ q[Len(q)] = v /\ IsWalk(q)}}
<1>1. lengths = {INT_MAX} \union {LengthOf[p] : p \in {q \in Tour : TourTo(q, v)}}
  BY TourIsPath DEF TourTo, End
<1>2. lengths \subseteq Nat /\ INT_MAX \in lengths
  BY <1>1, TourIsPath, LengthIsNat, SearchAssumption
<1>3. Nearest(v) = CHOOSE l \in lengths : \A k \in lengths : l <= k
  BY DEF Nearest
<1>4. \E l \in lengths : \A k \in lengths : l <= k
  <2>. HIDE DEF lengths
  <2>. QED  BY <1>2, Least
<1>5. Nearest(v) \in lengths /\ \A k \in lengths : Nearest(v) <= k
  <2>. HIDE DEF lengths
  <2>. QED  BY <1>3, <1>4
<1>6. \A p : TourTo(p, v) => LengthOf[p] \in lengths
  BY <1>1 DEF TourTo
<1>7. Nearest(v) = INT_MAX \/ \E p : TourTo(p, v) /\ Nearest(v) = LengthOf[p]
  BY <1>1, <1>5
<1>. HIDE DEF lengths
<1>. QED  BY <1>2, <1>5, <1>6, <1>7
-----------------------------------------------------------------------------
(* Costs stay below INT_MAX, so no sum wraps.                              *)
LEMMA SmallModulo ==
  ASSUME NEW a \in Nat, NEW b \in Nat, a < b
  PROVE  a % b = a
OBVIOUS

LEMMA WrapsNothing ==
  ASSUME NEW n \in 0..INT_MAX
  PROVE  Wrap(n) = n
<1>. DEFINE M == INT_MAX + 1
<1>1. M \in Nat /\ n \in Nat /\ n < M
  BY SearchAssumption
<1>2. Wrap(n) = ((n + M) % (2 * M)) - M
  <2>1. n + INT_MAX + 1 = n + M
    BY SearchAssumption
  <2>. QED  BY <2>1 DEF Wrap
<1>. HIDE DEF M
<1>3. n + M \in Nat /\ 2 * M \in Nat /\ n + M < 2 * M
  BY <1>1
<1>4. (n + M) % (2 * M) = n + M
  BY <1>3, SmallModulo
<1>. QED  BY <1>1, <1>2, <1>4

Far == CHOOSE far \in 0..INT_MAX :
         /\ far * Cardinality(Vertex) < INT_MAX
         /\ \A u, v \in Vertex : Distance[u][v] <= far

Bound(n) == n * Far   \* of a path with n roads

LEMMA Bounds ==
  /\ Far \in Nat
  /\ \A u, v \in Vertex : Distance[u][v] <= Far
  /\ \A n \in Nat : Bound(n) \in Nat /\ Bound(n) + Far = Bound(n + 1)
  /\ \A m, n \in Nat : m <= n => Bound(m) <= Bound(n)
  /\ \A n \in Nat : n <= Cardinality(Vertex) => Bound(n) < INT_MAX
<1>1. /\ Far \in 0..INT_MAX
      /\ Far * Cardinality(Vertex) < INT_MAX
      /\ \A u, v \in Vertex : Distance[u][v] <= Far
  BY LengthAssumption DEF Far
<1>2. Far \in Nat /\ INT_MAX \in Nat
  BY <1>1, SearchAssumption
<1>. HIDE DEF Far
<1>3. Cardinality(Vertex) \in Nat
  BY Vertices, FS_CardinalityType
<1>4. \A f, n \in Nat : n * f \in Nat /\ n * f + f = (n + 1) * f
  OBVIOUS
<1>5. \A f, m, n \in Nat : m <= n => m * f <= n * f
  <2>. SUFFICES ASSUME NEW f \in Nat, NEW m \in Nat, NEW n \in Nat, m <= n
                PROVE  m * f <= n * f
    OBVIOUS
  <2>1. PICK k \in Nat : n = m + k
    <3>1. n - m \in Nat /\ n = m + (n - m)
      OBVIOUS
    <3>. QED  BY <3>1
  <2>2. n * f = m * f + k * f /\ k * f \in Nat /\ m * f \in Nat
    BY <2>1
  <2>. QED  BY <2>2
<1>6. \A n \in Nat : n <= Cardinality(Vertex) => Bound(n) < INT_MAX
  <2>. SUFFICES ASSUME NEW n \in Nat, n <= Cardinality(Vertex) PROVE n * Far < INT_MAX
    BY DEF Bound
  <2>1. n * Far <= Cardinality(Vertex) * Far
    BY <1>2, <1>3, <1>5
  <2>2. Cardinality(Vertex) * Far = Far * Cardinality(Vertex)
    BY <1>2, <1>3
  <2>3. n * Far \in Int /\ Cardinality(Vertex) * Far \in Int
    BY <1>2, <1>3
  <2>. QED  BY <1>1, <1>2, <2>1, <2>2, <2>3
<1>. QED  BY <1>1, <1>2, <1>4, <1>5, <1>6 DEF Bound
-----------------------------------------------------------------------------
(* dijkstra and astar, where there is a way: what the costs say.           *)

Known(v) == cost[v] # INT_MAX

Weighted == alg \in {"dijkstra", "astar"} /\ ~CutOff

(* A cost is that of a path by the predecessors, and of some tour at least.*)
Reached(v) == \E p : TourTo(p, v) /\ LengthOf[p] <= cost[v]

Costs ==
  /\ cost[start] = 0
  /\ pred[start] = Root
  /\ \A v \in Vertex : Known(v) => 0 <= cost[v] /\ cost[v] <= Bound(Cardinality(done))
  /\ \A v \in Vertex : Known(v) /\ v # start =>
       /\ pred[v] \in Vertex
       /\ Known(pred[v])
       /\ Joined(edges, pred[v], v)
       /\ cost[pred[v]] + Distance[pred[v]][v] <= cost[v]
  /\ \A v \in Vertex : Known(v) => Reached(v)

(* The estimate of what is left, and by how much it can be too long behind *)
(* a path of n vertices.                                                   *)
Ahead(v) == IF alg = "dijkstra" THEN 0 ELSE Distance[v][end]

Slack(n) == IF alg = "dijkstra" THEN 0 ELSE n - 1

Near(p) == cost[End(p)] <= LengthOf[p] + Slack(Len(p))

(* Of the vertices that are done.                                          *)
Settled ==
  /\ \A v \in done : Known(v)
  /\ \A v \in done : \A w \in Neighbours(edges, v) : Known(w)
  /\ \A p : WalkFrom(p) /\ End(p) \in done =>
       /\ Near(p)
       /\ \A w \in Neighbours(edges, End(p)) : Near(Append(p, w))

ToScan ==
  /\ Settled
  /\ end \notin done
  /\ curr \in Vertex \ done
  /\ Known(curr)
  /\ start \in done \union {curr}
  /\ \A p : WalkFrom(p) /\ End(p) = curr => Near(p)

LEMMA CostTypes ==
  ASSUME Types
  PROVE  /\ start \in Vertex /\ end \in Vertex /\ done \subseteq Vertex
         /\ IsFiniteSet(done) /\ Cardinality(done) \in Nat
         /\ Cardinality(done) <= Cardinality(Vertex)
         /\ Cardinality(Vertex) \in Nat
         /\ \A v \in Vertex : cost[v] \in Int /\ cost[v] <= INT_MAX
         /\ INT_MAX \in Nat
<1>1. done \in SUBSET Vertex
  BY DEF Types, TypeOK
<1>2. /\ IsFiniteSet(done) /\ Cardinality(done) \in Nat
      /\ Cardinality(done) <= Cardinality(Vertex)
      /\ Cardinality(Vertex) \in Nat
  BY <1>1, Vertices, FS_Subset, FS_CardinalityType
<1>3. \A v \in Vertex : cost[v] \in Int /\ cost[v] <= INT_MAX
  <2>1. \A n : n \in -(INT_MAX + 1)..INT_MAX => n \in Int /\ n <= INT_MAX
    BY SearchAssumption
  <2>. QED  BY <2>1 DEF Types, TypeOK
<1>. QED  BY <1>1, <1>2, <1>3, SearchAssumption DEF Types

(* Through the vertex that is scanned, sums are sums.                      *)
LEMMA ThroughCurr ==
  ASSUME Types, Costs, curr \in Vertex \ done, Known(curr)
  PROVE  /\ Cardinality(done \union {curr}) = Cardinality(done) + 1
         /\ Bound(Cardinality(done) + 1) < INT_MAX
         /\ Bound(Cardinality(done) + 1) \in Nat
         /\ Bound(Cardinality(done)) <= Bound(Cardinality(done) + 1)
         /\ Bound(Cardinality(done)) \in Nat
         /\ cost[curr] \in Nat
         /\ \A v \in Neighbours(edges, curr) :
              /\ v \in Vertex /\ v # curr
              /\ Through(v) = cost[curr] + Distance[curr][v]
              /\ Through(v) \in Nat
              /\ Through(v) > cost[curr]
              /\ Through(v) <= Bound(Cardinality(done) + 1)
<1>1. /\ IsFiniteSet(done) /\ Cardinality(done) \in Nat /\ done \subseteq Vertex
      /\ Cardinality(Vertex) \in Nat /\ INT_MAX \in Nat /\ cost[curr] \in Int
  BY CostTypes
<1>2. Cardinality(done \union {curr}) = Cardinality(done) + 1
  BY <1>1, FS_AddElement
<1>3. Cardinality(done) + 1 <= Cardinality(Vertex)
  <2>1. done \union {curr} \in SUBSET Vertex
    BY <1>1
  <2>. QED  BY <1>2, <2>1, Vertices, FS_Subset
<1>4. /\ Bound(Cardinality(done)) \in Nat
      /\ Bound(Cardinality(done)) + Far = Bound(Cardinality(done) + 1)
      /\ Bound(Cardinality(done) + 1) < INT_MAX
      /\ Far \in Nat
  <2>1. Cardinality(done) + 1 \in Nat
    BY <1>1
  <2>. QED  BY <1>1, <1>3, <2>1, Bounds
<1>5. Bound(Cardinality(done) + 1) \in Nat /\ Bound(Cardinality(done)) <= Bound(Cardinality(done) + 1)
  BY <1>4
<1>6. cost[curr] \in Nat /\ cost[curr] <= Bound(Cardinality(done))
  BY <1>1 DEF Costs
<1>7. ASSUME NEW v \in Neighbours(edges, curr)
      PROVE  /\ v \in Vertex /\ v # curr
             /\ Through(v) = cost[curr] + Distance[curr][v]
             /\ Through(v) \in Nat
             /\ Through(v) > cost[curr]
             /\ Through(v) <= Bound(Cardinality(done) + 1)
  <2>1. v \in Vertex /\ v # curr
    BY DEF Neighbours, Joined
  <2>2. Distance[curr][v] \in Nat /\ Distance[curr][v] > 0 /\ Distance[curr][v] <= Far
    <3>1. Distance[curr][v] \in Nat \ {0}
      BY <2>1, MapAssumption
    <3>2. \A d \in Nat \ {0} : d > 0
      OBVIOUS
    <3>. QED  BY <2>1, <3>1, <3>2, Bounds
  <2>. DEFINE t == cost[curr] + Distance[curr][v]
  <2>3. t \in Nat /\ t > cost[curr] /\ t <= Bound(Cardinality(done) + 1)
    BY <1>4, <1>6, <2>2
  <2>4. t \in 0..INT_MAX
    <3>. HIDE DEF t
    <3>. QED  BY <1>1, <1>4, <1>5, <2>3
  <2>5. Through(v) = t
    <3>1. Through(v) = Wrap(t)
      BY DEF Through
    <3>. HIDE DEF t
    <3>. QED  BY <2>4, <3>1, WrapsNothing
  <2>. QED  BY <2>1, <2>3, <2>5
<1>. QED  BY <1>2, <1>4, <1>5, <1>6, <1>7

(* A tour goes on by a road, or came by the other end of it before.        *)
LEMMA TourOn ==
  ASSUME Types, NEW p, NEW u, NEW v, TourTo(p, u), v \in Neighbours(edges, u)
  PROVE  \E q : TourTo(q, v) /\ LengthOf[q] <= LengthOf[p] + Distance[u][v]
<1>1. /\ p \in Seq(Vertex) /\ p # <<>> /\ WalkFrom(p) /\ End(p) = u
      /\ \A i, j \in 1..Len(p) : p[i] = p[j] => i = j
  BY TourIsPath, TourIsWalk DEF TourTo
<1>2. u \in Vertex /\ v \in Vertex /\ Len(p) \in Nat
  BY <1>1, Ends DEF Neighbours
<1>3. LengthOf[p] \in Nat /\ Distance[u][v] \in Nat
  BY <1>1, <1>2, LengthIsNat, DistanceIsRoot
<1>4. CASE \E i \in 1..Len(p) : p[i] = v
  <2>1. PICK i \in 1..Len(p) : p[i] = v
    BY <1>4
  <2>. DEFINE q == UpTo(p, i)
  <2>2. WalkFrom(q) /\ Len(q) = i /\ End(q) = v /\ \A k \in 1..i : q[k] = p[k]
    BY <1>1, <2>1, WalkUpTo
  <2>3. \A k \in 1..i : k \in 1..Len(p)
    BY <1>2, <2>1
  <2>4. \A k, l \in 1..Len(q) : q[k] = q[l] => k = l
    BY <1>1, <2>2, <2>3
  <2>5. LengthOf[q] <= LengthOf[p]
    <3>1. LengthOf \in [Seq(Vertex) -> Int]
      <4>. DEFINE S == Seq(Vertex)
      <4>1. LengthOf \in [S -> Nat]
        BY LengthUnfold
      <4>. HIDE DEF S
      <4>2. LengthOf \in [S -> Int]
        BY <4>1
      <4>. QED  BY <4>2 DEF S
    <3>2. ASSUME NEW r, WalkFrom(r), NEW w \in Neighbours(edges, End(r))
          PROVE  LengthOf[r] <= LengthOf[Append(r, w)]
      <4>1. r \in Seq(Vertex) /\ r # <<>> /\ w \in Vertex
        BY <3>2 DEF WalkFrom, Neighbours
      <4>2. End(r) \in Vertex /\ LengthOf[r] \in Nat
        BY <4>1, Ends, LengthIsNat
      <4>3. Distance[End(r)][w] \in Nat
        BY <4>1, <4>2, DistanceIsRoot
      <4>4. LengthOf[Append(r, w)] = LengthOf[r] + Distance[End(r)][w]
        BY <4>1, LengthFromBack DEF End
      <4>. QED  BY <4>2, <4>3, <4>4
    <3>. QED  BY <1>1, <2>1, <3>1, <3>2, GrowsAlong
  <2>6. q \in Tour
    BY <2>2, <2>4, NoTurnIsTour DEF WalkFrom
  <2>7. TourTo(q, v)
    BY <2>2, <2>6 DEF TourTo, WalkFrom
  <2>8. LengthOf[q] \in Nat
    BY <2>2, LengthIsNat DEF WalkFrom
  <2>. HIDE DEF q
  <2>9. LengthOf[q] <= LengthOf[p] + Distance[u][v]
    BY <1>3, <2>5, <2>8
  <2>. QED  BY <2>7, <2>9
<1>5. CASE ~\E i \in 1..Len(p) : p[i] = v
  <2>. DEFINE q == Append(p, v)
  <2>1. /\ q \in Seq(Vertex) /\ q # <<>> /\ Len(q) = Len(p) + 1 /\ End(q) = v
        /\ \A i \in 1..Len(p) : q[i] = p[i]
    BY <1>1, <1>2, Appended
  <2>2. WalkFrom(q)
    BY <1>1, WalkOn
  <2>. HIDE DEF q
  <2>3. ASSUME NEW k \in 1..Len(q), NEW l \in 1..Len(q), q[k] = q[l]
        PROVE  k = l
    <3>1. k \in 1..Len(p) \/ k = Len(p) + 1
      BY <1>2, <2>1
    <3>2. l \in 1..Len(p) \/ l = Len(p) + 1
      BY <1>2, <2>1
    <3>3. q[Len(p) + 1] = v
      BY <2>1 DEF End
    <3>. QED  BY <1>1, <1>5, <2>1, <2>3, <3>1, <3>2, <3>3
  <2>4. q \in Tour
    BY <2>1, <2>3, NoTurnIsTour
  <2>5. TourTo(q, v)
    BY <2>1, <2>2, <2>4 DEF TourTo, WalkFrom
  <2>6. LengthOf[q] = LengthOf[p] + Distance[u][v]
    BY <1>1, <1>2, LengthFromBack DEF q, End
  <2>7. LengthOf[q] <= LengthOf[p] + Distance[u][v]
    BY <1>3, <2>6
  <2>. QED  BY <2>5, <2>7
<1>. QED  BY <1>4, <1>5

(* A turn of the loop over the roads lowers costs and loses none.          *)
LEMMA RelaxLowers ==
  ASSUME Types, Costs, curr \in Vertex \ done, Known(curr), Relax
  PROVE  /\ start \notin Relaxed /\ curr \notin Relaxed
         /\ \A v \in Relaxed : /\ v \in Neighbours(edges, curr)
                               /\ cost'[v] = Through(v) /\ pred'[v] = curr
                               /\ cost'[v] # INT_MAX
         /\ \A v \in Vertex \ Relaxed : cost'[v] = cost[v] /\ pred'[v] = pred[v]
         /\ \A v \in Vertex : /\ cost'[v] <= cost[v]
                              /\ Known(v) => cost'[v] # INT_MAX
         /\ \A v \in Neighbours(edges, curr) : cost'[v] <= Through(v) /\ cost'[v] # INT_MAX
<1>1. \A v \in Relaxed : v \in Neighbours(edges, curr) /\ v \in Vertex /\ cost[v] > Through(v)
  BY DEF Relaxed, Neighbours
<1>2. /\ \A v \in Neighbours(edges, curr) : /\ v \in Vertex /\ v # curr
                                            /\ Through(v) \in Nat /\ Through(v) < INT_MAX
      /\ cost[start] = 0
  <2>1. INT_MAX \in Nat
    BY CostTypes
  <2>2. \A v \in Neighbours(edges, curr) :
          /\ v \in Vertex /\ v # curr /\ Through(v) \in Nat
          /\ Through(v) <= Bound(Cardinality(done) + 1)
    BY ThroughCurr
  <2>3. Bound(Cardinality(done) + 1) < INT_MAX /\ Bound(Cardinality(done) + 1) \in Nat
    BY ThroughCurr
  <2>. QED  BY <2>1, <2>2, <2>3 DEF Costs
<1>3. start \notin Relaxed
  <2>1. \A n \in Nat : ~(0 > n)
    OBVIOUS
  <2>. QED  BY <1>1, <1>2, <2>1
<1>4. curr \notin Relaxed
  BY <1>1, <1>2
<1>5. \A v \in Relaxed : cost'[v] = Through(v) /\ pred'[v] = curr
  BY <1>1 DEF Relax
<1>6. \A v \in Vertex \ Relaxed : cost'[v] = cost[v] /\ pred'[v] = pred[v]
  BY DEF Relax
<1>7. \A v \in Vertex : cost[v] \in Int /\ INT_MAX \in Nat
  BY CostTypes
<1>8. \A n \in Nat : n < INT_MAX => n # INT_MAX
  BY <1>7
<1>9. \A v \in Relaxed : cost'[v] # INT_MAX
  BY <1>1, <1>2, <1>5, <1>8
<1>10. ASSUME NEW v \in Vertex
       PROVE  cost'[v] <= cost[v] /\ (Known(v) => cost'[v] # INT_MAX)
  <2>1. CASE v \in Relaxed
    <3>1. cost'[v] = Through(v) /\ Through(v) \in Nat /\ cost[v] > Through(v)
      BY <1>1, <1>2, <1>5, <2>1
    <3>. QED  BY <1>7, <1>9, <2>1, <3>1
  <2>2. CASE v \notin Relaxed
    BY <1>6, <1>7, <2>2 DEF Known
  <2>. QED  BY <2>1, <2>2
<1>11. ASSUME NEW v \in Neighbours(edges, curr)
       PROVE  cost'[v] <= Through(v) /\ cost'[v] # INT_MAX
  <2>1. v \in Vertex /\ Through(v) \in Nat /\ Through(v) < INT_MAX
    BY <1>2
  <2>2. CASE v \in Relaxed
    BY <1>5, <1>9, <2>1, <2>2
  <2>3. CASE v \notin Relaxed
    <3>1. ~(cost[v] > Through(v)) /\ cost'[v] = cost[v]
      BY <1>6, <2>1, <2>3 DEF Relaxed
    <3>2. cost[v] <= Through(v)
      BY <1>7, <2>1, <3>1
    <3>. QED  BY <1>7, <2>1, <3>1, <3>2
  <2>. QED  BY <2>2, <2>3
<1>. QED  BY <1>1, <1>3, <1>4, <1>5, <1>6, <1>9, <1>10, <1>11

LEMMA RelaxKeepsCosts ==
  ASSUME Types, Costs, curr \in Vertex \ done, Known(curr), Relax, UNCHANGED call
  PROVE  Costs'
<1>1. start' = start /\ edges' = edges /\ start \in Vertex
  BY DEF call, Types
<1>2. /\ start \notin Relaxed /\ curr \notin Relaxed
      /\ \A v \in Relaxed : /\ v \in Neighbours(edges, curr)
                            /\ cost'[v] = Through(v) /\ pred'[v] = curr
                            /\ cost'[v] # INT_MAX
      /\ \A v \in Vertex \ Relaxed : cost'[v] = cost[v] /\ pred'[v] = pred[v]
      /\ \A v \in Vertex : /\ cost'[v] <= cost[v]
                           /\ Known(v) => cost'[v] # INT_MAX
  BY RelaxLowers
<1>3. /\ Cardinality(done') = Cardinality(done) + 1
      /\ Bound(Cardinality(done) + 1) \in Nat
      /\ Bound(Cardinality(done)) <= Bound(Cardinality(done) + 1)
      /\ Bound(Cardinality(done)) \in Nat
      /\ cost[curr] \in Nat
      /\ \A v \in Neighbours(edges, curr) :
           /\ v \in Vertex /\ v # curr
           /\ Through(v) = cost[curr] + Distance[curr][v]
           /\ Through(v) \in Nat
           /\ Through(v) > cost[curr]
           /\ Through(v) <= Bound(Cardinality(done) + 1)
  BY ThroughCurr DEF Relax
<1>4. cost'[start] = 0 /\ pred'[start] = Root
  BY <1>1, <1>2 DEF Costs
<1>5. \A v \in Vertex : cost[v] \in Int
  BY CostTypes
<1>6. ASSUME NEW v \in Vertex, cost'[v] # INT_MAX
      PROVE  0 <= cost'[v] /\ cost'[v] <= Bound(Cardinality(done'))
  <2>1. CASE v \in Relaxed
    <3>1. cost'[v] = Through(v) /\ Through(v) \in Nat /\ Through(v) <= Bound(Cardinality(done) + 1)
      BY <1>2, <1>3, <2>1
    <3>. QED  BY <1>3, <3>1
  <2>2. CASE v \notin Relaxed
    <3>1. cost'[v] = cost[v] /\ 0 <= cost[v] /\ cost[v] <= Bound(Cardinality(done))
      BY <1>2, <1>6, <2>2 DEF Costs, Known
    <3>2. cost[v] <= Bound(Cardinality(done) + 1)
      BY <1>3, <1>5, <3>1
    <3>. QED  BY <1>3, <3>1, <3>2
  <2>. QED  BY <2>1, <2>2
<1>7. ASSUME NEW v \in Vertex, cost'[v] # INT_MAX, v # start
      PROVE  /\ pred'[v] \in Vertex
             /\ cost'[pred'[v]] # INT_MAX
             /\ Joined(edges, pred'[v], v)
             /\ cost'[pred'[v]] + Distance[pred'[v]][v] <= cost'[v]
  <2>1. CASE v \in Relaxed
    <3>1. /\ pred'[v] = curr /\ cost'[curr] = cost[curr]
          /\ cost'[v] = cost[curr] + Distance[curr][v]
          /\ cost'[v] \in Nat
          /\ v \in Neighbours(edges, curr)
      BY <1>2, <1>3, <2>1
    <3>2. cost'[pred'[v]] # INT_MAX /\ pred'[v] \in Vertex
      BY <3>1 DEF Known
    <3>3. Joined(edges, pred'[v], v)
      BY <3>1 DEF Neighbours
    <3>4. cost'[pred'[v]] + Distance[pred'[v]][v] = cost'[v]
      BY <3>1
    <3>. QED  BY <3>1, <3>2, <3>3, <3>4
  <2>2. CASE v \notin Relaxed
    <3>1. /\ pred'[v] = pred[v] /\ cost'[v] = cost[v] /\ Known(v)
      BY <1>2, <1>7, <2>2 DEF Known
    <3>2. /\ pred[v] \in Vertex /\ Known(pred[v]) /\ Joined(edges, pred[v], v)
          /\ cost[pred[v]] + Distance[pred[v]][v] <= cost[v]
      BY <1>7, <3>1 DEF Costs
    <3>3. cost'[pred[v]] <= cost[pred[v]] /\ cost'[pred[v]] # INT_MAX
      BY <1>2, <3>2
    <3>4. cost[pred[v]] \in Int /\ cost[v] \in Int /\ Distance[pred[v]][v] \in Int
      BY <1>5, <3>2, DistanceIsRoot
    <3>5. cost'[pred[v]] \in Int
      <4>1. cost'[pred[v]] = cost[pred[v]] \/ cost'[pred[v]] = Through(pred[v])
        BY <1>2, <3>2
      <4>2. pred[v] \in Relaxed => cost'[pred[v]] \in Nat
        BY <1>2, <1>3
      <4>3. pred[v] \notin Relaxed => cost'[pred[v]] = cost[pred[v]]
        BY <1>2, <3>2
      <4>. QED  BY <3>4, <4>2, <4>3
    <3>6. cost'[pred[v]] + Distance[pred[v]][v] <= cost[v]
      BY <3>2, <3>3, <3>4, <3>5
    <3>. QED  BY <3>1, <3>2, <3>3, <3>6
  <2>. QED  BY <2>1, <2>2
<1>8. ASSUME NEW v \in Vertex, cost'[v] # INT_MAX
      PROVE  Reached(v)'
  <2>1. \A p : TourTo(p, v)' <=> TourTo(p, v)
    BY <1>1 DEF TourTo, IsWalk, Joined
  <2>. SUFFICES \E p : TourTo(p, v) /\ LengthOf[p] <= cost'[v]
    BY <2>1 DEF Reached
  <2>2. CASE v \in Relaxed
    <3>1. /\ v \in Neighbours(edges, curr) /\ cost'[v] = cost[curr] + Distance[curr][v]
          /\ v \in Vertex
      BY <1>2, <1>3, <2>2
    <3>2. PICK p : TourTo(p, curr) /\ LengthOf[p] <= cost[curr]
      BY DEF Costs, Reached
    <3>3. PICK q : TourTo(q, v) /\ LengthOf[q] <= LengthOf[p] + Distance[curr][v]
      BY <3>1, <3>2, TourOn
    <3>4. LengthOf[p] \in Nat /\ LengthOf[q] \in Nat /\ Distance[curr][v] \in Nat
      <4>1. p \in Seq(Vertex) /\ q \in Seq(Vertex)
        BY <3>2, <3>3, TourIsPath DEF TourTo
      <4>. QED  BY <3>1, <4>1, LengthIsNat, DistanceIsRoot
    <3>5. LengthOf[q] <= cost'[v]
      BY <1>3, <3>1, <3>2, <3>3, <3>4
    <3>. QED  BY <3>3, <3>5
  <2>3. CASE v \notin Relaxed
    <3>1. cost'[v] = cost[v] /\ Known(v)
      BY <1>2, <1>8, <2>3 DEF Known
    <3>. QED  BY <3>1 DEF Costs, Reached
  <2>. QED  BY <2>2, <2>3
<1>. QED  BY <1>1, <1>4, <1>6, <1>7, <1>8 DEF Costs, Known

LEMMA SlackGrows ==
  \A n \in Nat : n > 0 => /\ Slack(n) \in Nat /\ Slack(n + 1) \in Nat
                          /\ Slack(n) <= Slack(n + 1)
                          /\ alg # "dijkstra" => Slack(n + 1) = Slack(n) + 1
  BY DEF Slack

LEMMA RelaxSettles ==
  ASSUME Types, Costs, ToScan, Relax, UNCHANGED call
  PROVE  Settled' /\ start \in done'
<1>0. curr \in Vertex \ done /\ Known(curr) /\ start \in done'
  BY DEF ToScan, Relax
<1>1. start' = start /\ edges' = edges /\ alg' = alg /\ done' = done \union {curr}
  BY DEF call, Relax
<1>2. /\ curr \notin Relaxed
      /\ \A v \in Vertex \ Relaxed : cost'[v] = cost[v]
      /\ \A v \in Vertex : /\ cost'[v] <= cost[v]
                           /\ Known(v) => cost'[v] # INT_MAX
      /\ \A v \in Neighbours(edges, curr) : cost'[v] <= Through(v) /\ cost'[v] # INT_MAX
  BY <1>0, RelaxLowers
<1>3. /\ cost[curr] \in Nat
      /\ \A v \in Neighbours(edges, curr) :
           /\ v \in Vertex
           /\ Through(v) = cost[curr] + Distance[curr][v]
  BY <1>0, ThroughCurr
<1>4. \A v \in Vertex : cost[v] \in Int /\ cost'[v] \in Int
  <2>1. \A v \in Relaxed : v \in Neighbours(edges, curr) /\ cost'[v] = Through(v) /\ Through(v) \in Nat
    BY <1>0, RelaxLowers, ThroughCurr
  <2>. QED  BY <1>2, <2>1, CostTypes
<1>5. /\ \A v \in done : Known(v)
      /\ \A v \in done : \A w \in Neighbours(edges, v) : Known(w)
      /\ done \subseteq Vertex
  BY CostTypes DEF ToScan, Settled
<1>6. \A v : Neighbours(edges', v) = Neighbours(edges, v)
  BY <1>1
<1>7. \A v : Neighbours(edges, v) \subseteq Vertex
  BY DEF Neighbours
<1>8. ASSUME NEW v \in done' PROVE Known(v)'
  <2>1. v \in Vertex /\ Known(v)
    BY <1>0, <1>1, <1>5
  <2>. QED  BY <1>2, <2>1 DEF Known
<1>9. ASSUME NEW v \in done', NEW w \in Neighbours(edges, v) PROVE Known(w)'
  <2>1. CASE v = curr
    BY <1>2, <2>1 DEF Known
  <2>2. CASE v # curr
    <3>1. Known(w) /\ w \in Vertex
      BY <1>1, <1>5, <1>7, <2>2
    <3>. QED  BY <1>2, <3>1 DEF Known
  <2>. QED  BY <2>1, <2>2
<1>10. \A p : WalkFrom(p)' <=> WalkFrom(p)
  BY <1>1 DEF WalkFrom, IsWalk, Joined
<1>11. ASSUME NEW p, WalkFrom(p), Near(p) PROVE Near(p)'
  <2>1. p \in Seq(Vertex) /\ p # <<>>
    BY <1>11 DEF WalkFrom
  <2>2. End(p) \in Vertex /\ Len(p) \in Nat /\ Len(p) > 0 /\ LengthOf[p] \in Nat
    BY <2>1, Ends, LengthIsNat
  <2>3. Slack(Len(p)) \in Nat /\ Slack(Len(p))' = Slack(Len(p))
    BY <1>1, <2>2, SlackGrows DEF Slack
  <2>4. cost'[End(p)] <= cost[End(p)] /\ cost[End(p)] \in Int /\ cost'[End(p)] \in Int
    BY <1>2, <1>4, <2>2
  <2>5. cost[End(p)] <= LengthOf[p] + Slack(Len(p))
    BY <1>11 DEF Near
  <2>6. cost'[End(p)] <= LengthOf[p] + Slack(Len(p))
    BY <2>2, <2>3, <2>4, <2>5
  <2>. QED  BY <2>3, <2>6 DEF Near
<1>12. ASSUME NEW p, WalkFrom(p), End(p) = curr, NEW w \in Neighbours(edges, curr)
       PROVE  Near(Append(p, w))'
  <2>1. p \in Seq(Vertex) /\ p # <<>> /\ w \in Vertex
    BY <1>7, <1>12 DEF WalkFrom
  <2>2. Len(p) \in Nat /\ Len(p) > 0 /\ LengthOf[p] \in Nat
    BY <2>1, Ends, LengthIsNat
  <2>3. Near(p)
    BY <1>12 DEF ToScan
  <2>4. /\ End(Append(p, w)) = w /\ Len(Append(p, w)) = Len(p) + 1
        /\ LengthOf[Append(p, w)] = LengthOf[p] + Distance[curr][w]
    BY <1>12, <2>1, Appended, LengthFromBack DEF End
  <2>5. Distance[curr][w] \in Nat
    BY <1>0, <2>1, DistanceIsRoot
  <2>6. cost[curr] <= LengthOf[p] + Slack(Len(p))
    BY <1>12, <2>3 DEF Near
  <2>7. Slack(Len(p)) \in Nat /\ Slack(Len(p) + 1) \in Nat /\ Slack(Len(p)) <= Slack(Len(p) + 1)
    BY <2>2, SlackGrows
  <2>8. cost'[w] <= cost[curr] + Distance[curr][w]
    BY <1>2, <1>3, <1>12
  <2>9. cost'[w] \in Int
    BY <1>4, <2>1
  <2>10. cost'[w] <= (LengthOf[p] + Distance[curr][w]) + Slack(Len(p) + 1)
    BY <1>3, <2>2, <2>5, <2>6, <2>7, <2>8, <2>9
  <2>11. Slack(Len(p) + 1)' = Slack(Len(p) + 1)
    BY <1>1 DEF Slack
  <2>. QED  BY <2>4, <2>10, <2>11 DEF Near
<1>13. ASSUME NEW p, WalkFrom(p), End(p) \in done'
       PROVE  /\ Near(p)'
              /\ \A w \in Neighbours(edges, End(p)) : Near(Append(p, w))'
  <2>1. CASE End(p) = curr
    <3>1. Near(p)
      BY <1>13, <2>1 DEF ToScan
    <3>. QED  BY <1>11, <1>12, <1>13, <2>1, <3>1
  <2>2. CASE End(p) # curr
    <3>1. End(p) \in done
      BY <1>1, <1>13, <2>2
    <3>2. /\ Near(p)
          /\ \A w \in Neighbours(edges, End(p)) : Near(Append(p, w))
      BY <1>13, <3>1 DEF ToScan, Settled
    <3>3. \A w \in Neighbours(edges, End(p)) : WalkFrom(Append(p, w))
      BY <1>13, WalkOn
    <3>. QED  BY <1>11, <1>13, <3>2, <3>3
  <2>. QED  BY <2>1, <2>2
<1>14. Settled'
  BY <1>6, <1>8, <1>9, <1>10, <1>13 DEF Settled
<1>. QED  BY <1>0, <1>14
-----------------------------------------------------------------------------
(* The next vertex: where there is a way, one that is known and not done.  *)

Key(v) == IF Known(v) THEN cost[v] + Ahead(v) ELSE INT_MAX

Cheapest(v) == v \in Vertex \ done /\ \A w \in Vertex \ done : Key(v) <= Key(w)

LEMMA OneIsKnown ==
  ASSUME Types, Weighted, Settled, start \in done, end \notin done
  PROVE  \E v \in Vertex \ done : Known(v)
<1>. SUFFICES ASSUME \A v \in Vertex \ done : ~Known(v) PROVE FALSE
  OBVIOUS
<1>1. done \in SUBSET Vertex
  BY CostTypes
<1>2. \A u \in done : Neighbours(edges, u) \subseteq done
  BY DEF Settled, Neighbours
<1>3. CutOff
  BY <1>1, <1>2 DEF CutOff
<1>. QED  BY <1>3 DEF Weighted

LEMMA AheadIsBounded ==
  ASSUME Types, NEW v \in Vertex
  PROVE  Ahead(v) \in Nat /\ Ahead(v) <= Far
<1>1. Distance[v][end] \in Nat /\ Distance[v][end] <= Far /\ Far \in Nat
  BY DistanceIsRoot, Bounds DEF Types
<1>. QED  BY <1>1 DEF Ahead

(* An open vertex has a cost below infinity, with the estimate too.        *)
LEMMA KeyOfKnown ==
  ASSUME Types, Costs, NEW v \in Vertex \ done, Known(v)
  PROVE  Key(v) = cost[v] + Ahead(v) /\ Key(v) \in Nat /\ Key(v) < INT_MAX
<1>1. /\ IsFiniteSet(done) /\ Cardinality(done) \in Nat /\ done \subseteq Vertex
      /\ Cardinality(Vertex) \in Nat /\ INT_MAX \in Nat /\ cost[v] \in Int
  BY CostTypes
<1>2. Cardinality(done) + 1 <= Cardinality(Vertex)
  <2>1. done \union {v} \in SUBSET Vertex
    BY <1>1
  <2>2. Cardinality(done \union {v}) = Cardinality(done) + 1
    BY <1>1, FS_AddElement
  <2>. QED  BY <2>1, <2>2, Vertices, FS_Subset
<1>3. /\ Bound(Cardinality(done)) \in Nat
      /\ Bound(Cardinality(done)) + Far = Bound(Cardinality(done) + 1)
      /\ Bound(Cardinality(done) + 1) < INT_MAX
      /\ Far \in Nat
  <2>1. Cardinality(done) + 1 \in Nat
    BY <1>1
  <2>. QED  BY <1>1, <1>2, <2>1, Bounds
<1>4. 0 <= cost[v] /\ cost[v] <= Bound(Cardinality(done))
  BY DEF Costs
<1>5. Ahead(v) \in Nat /\ Ahead(v) <= Far
  BY AheadIsBounded
<1>6. cost[v] + Ahead(v) \in Nat /\ cost[v] + Ahead(v) <= Bound(Cardinality(done)) + Far
  BY <1>1, <1>3, <1>4, <1>5
<1>7. cost[v] + Ahead(v) < INT_MAX
  <2>. DEFINE k == cost[v] + Ahead(v)
              b == Bound(Cardinality(done) + 1)
  <2>1. k \in Nat /\ k <= b /\ b < INT_MAX /\ b \in Nat
    BY <1>3, <1>6
  <2>. HIDE DEF k, b
  <2>2. k < INT_MAX
    BY <1>1, <2>1
  <2>. QED  BY <2>2 DEF k
<1>. QED  BY <1>6, <1>7 DEF Key

LEMMA CheapestIsKnown ==
  ASSUME Types, Weighted, Costs, Settled, start \in done, end \notin done,
         NEW v, Cheapest(v)
  PROVE  Known(v)
<1>1. PICK w \in Vertex \ done : Known(w)
  BY OneIsKnown
<1>2. Key(w) \in Nat /\ Key(w) < INT_MAX /\ Key(v) <= Key(w)
  BY <1>1, KeyOfKnown DEF Cheapest
<1>3. INT_MAX \in Nat
  BY CostTypes
<1>4. ~Known(v) => Key(v) = INT_MAX
  BY DEF Key
<1>. QED  BY <1>2, <1>3, <1>4

(* By a road, what is left grows less than the road is long, but for one   *)
(* that astar's rounding may take.                                         *)
LEMMA RoadAhead ==
  ASSUME Types, NEW p, WalkFrom(p), NEW w \in Neighbours(edges, End(p))
  PROVE  LengthOf[p] + Slack(Len(p)) + Ahead(End(p))
           <= LengthOf[Append(p, w)] + Slack(Len(Append(p, w))) + Ahead(w)
<1>1. p \in Seq(Vertex) /\ p # <<>> /\ w \in Vertex
  BY DEF WalkFrom, Neighbours
<1>2. End(p) \in Vertex /\ Len(p) \in Nat /\ Len(p) > 0 /\ LengthOf[p] \in Nat
  BY <1>1, Ends, LengthIsNat
<1>3. /\ Len(Append(p, w)) = Len(p) + 1
      /\ LengthOf[Append(p, w)] = LengthOf[p] + Distance[End(p)][w]
  BY <1>1, Appended, LengthFromBack DEF End
<1>4. Distance[End(p)][w] \in Nat /\ end \in Vertex
  BY <1>1, <1>2, DistanceIsRoot DEF Types
<1>5. CASE alg = "dijkstra"
  <2>1. Slack(Len(p)) = 0 /\ Slack(Len(p) + 1) = 0 /\ Ahead(End(p)) = 0 /\ Ahead(w) = 0
    BY <1>5 DEF Slack, Ahead
  <2>. QED  BY <1>2, <1>3, <1>4, <2>1
<1>6. CASE alg # "dijkstra"
  <2>1. /\ Slack(Len(p)) = Len(p) - 1 /\ Slack(Len(p) + 1) = (Len(p) + 1) - 1
        /\ Ahead(End(p)) = Distance[End(p)][end] /\ Ahead(w) = Distance[w][end]
    BY <1>6 DEF Slack, Ahead
  <2>2. Distance[End(p)][end] <= Distance[End(p)][w] + Distance[w][end] + 1
    BY <1>1, <1>2, <1>4, Triangle
  <2>3. Distance[End(p)][end] \in Nat /\ Distance[w][end] \in Nat
    BY <1>1, <1>2, <1>4, DistanceIsRoot
  <2>. QED  BY <1>2, <1>3, <1>4, <2>1, <2>2, <2>3
<1>. QED  BY <1>5, <1>6

LEMMA CheapestIsNear ==
  ASSUME Types, Weighted, Costs, Settled, start \in done, end \notin done,
         NEW v, Cheapest(v), NEW p, WalkFrom(p), End(p) = v
  PROVE  Near(p)
<1>1. v \in Vertex \ done /\ Known(v)
  BY CheapestIsKnown DEF Cheapest
<1>2. PICK i \in 1..Len(p) - 1 : p[i] \in done /\ p[i + 1] \notin done
  BY <1>1, WalkLeaves
<1>3. /\ i \in 1..Len(p) /\ i + 1 \in 1..Len(p)
      /\ p[i + 1] \in Neighbours(edges, p[i])
      /\ UpTo(p, i + 1) = Append(UpTo(p, i), p[i + 1])
  BY <1>2, WalkStep
<1>. DEFINE w == p[i + 1]
            q == UpTo(p, i + 1)
<1>4. WalkFrom(q) /\ Len(q) = i + 1 /\ End(q) = w /\ w \in Vertex
  BY <1>3, WalkUpTo DEF Neighbours
<1>5. Near(q)
  <2>1. WalkFrom(UpTo(p, i)) /\ End(UpTo(p, i)) = p[i]
    BY <1>3, WalkUpTo
  <2>. QED  BY <1>2, <1>3, <2>1 DEF Settled
<1>6. Known(w)
  BY <1>2, <1>3 DEF Settled
<1>. DEFINE S == Seq(Vertex)
            g == [r \in S |-> LengthOf[r] + Slack(Len(r)) + Ahead(End(r))]
            h == [r \in S |-> IF r = <<>> THEN 0 ELSE g[r]]
<1>7. ASSUME NEW r \in S, r # <<>>
      PROVE  /\ LengthOf[r] \in Nat /\ Slack(Len(r)) \in Nat /\ Ahead(End(r)) \in Nat
             /\ h[r] = LengthOf[r] + Slack(Len(r)) + Ahead(End(r))
  <2>1. LengthOf[r] \in Nat
    BY LengthIsNat
  <2>2. Slack(Len(r)) \in Nat
    BY <1>7, Ends, SlackGrows
  <2>3. Ahead(End(r)) \in Nat
    BY <1>7, Ends, AheadIsBounded
  <2>. HIDE DEF S
  <2>. QED  BY <1>7, <2>1, <2>2, <2>3
<1>8. h \in [S -> Int]
  <2>1. \A r \in S : h[r] \in Int
    <3>. SUFFICES ASSUME NEW r \in S PROVE h[r] \in Int
      OBVIOUS
    <3>1. CASE r = <<>>
      <4>. HIDE DEF S, g
      <4>. QED BY <3>1
    <3>2. CASE r # <<>>
      <4>. HIDE DEF h
      <4>. QED  BY <1>7, <3>2
    <3>. QED  BY <3>1, <3>2
  <2>2. h = [r \in S |-> h[r]]
    <3>. HIDE DEF S, g
    <3>. QED  OBVIOUS
  <2>. HIDE DEF h, S
  <2>. QED  BY <2>1, <2>2
<1>9. ASSUME NEW r, WalkFrom(r), NEW x \in Neighbours(edges, End(r))
      PROVE  h[r] <= h[Append(r, x)]
  <2>1. r \in S /\ r # <<>> /\ x \in Vertex
    BY <1>9 DEF WalkFrom, Neighbours
  <2>2. Append(r, x) \in S /\ Append(r, x) # <<>> /\ End(Append(r, x)) = x
    BY <2>1, Appended
  <2>3. /\ h[r] = LengthOf[r] + Slack(Len(r)) + Ahead(End(r))
        /\ h[Append(r, x)] = LengthOf[Append(r, x)] + Slack(Len(Append(r, x))) + Ahead(x)
    <3>. HIDE DEF h, S
    <3>. QED  BY <1>7, <2>1, <2>2
  <2>. HIDE DEF h
  <2>. QED  BY <1>9, <2>3, RoadAhead
<1>10. h[q] <= h[p]
  <2>. HIDE DEF h
  <2>. QED  BY <1>3, <1>8, <1>9, GrowsAlong
<1>11. /\ p \in S /\ p # <<>> /\ q \in S /\ q # <<>>
  BY <1>4 DEF WalkFrom
<1>. HIDE DEF h, g, S, q
<1>12. /\ h[p] = LengthOf[p] + Slack(Len(p)) + Ahead(v)
       /\ LengthOf[p] \in Nat /\ Slack(Len(p)) \in Nat /\ Ahead(v) \in Nat
  BY <1>7, <1>11
<1>13. /\ h[q] = LengthOf[q] + Slack(Len(q)) + Ahead(w)
       /\ LengthOf[q] \in Nat /\ Slack(Len(q)) \in Nat /\ Ahead(w) \in Nat
  BY <1>4, <1>7, <1>11
<1>14. cost[w] <= LengthOf[q] + Slack(Len(q))
  BY <1>4, <1>5 DEF Near
<1>15. cost[v] + Ahead(v) <= cost[w] + Ahead(w)
  <2>1. Key(v) = cost[v] + Ahead(v)
    BY <1>1 DEF Key
  <2>2. Key(w) = cost[w] + Ahead(w)
    BY <1>6 DEF Key
  <2>3. w \in Vertex \ done
    BY <1>2, <1>4
  <2>4. Key(v) <= Key(w)
    BY <2>3 DEF Cheapest
  <2>. QED  BY <2>1, <2>2, <2>4
<1>16. cost[v] \in Int /\ cost[w] \in Int
  BY <1>1, <1>4, CostTypes
<1>. HIDE DEF w
<1>17. LengthOf[q] + Slack(Len(q)) + Ahead(w) <= LengthOf[p] + Slack(Len(p)) + Ahead(v)
  BY <1>10, <1>12, <1>13
<1>18. \A L, M, a, b, c, d \in Int : M + b <= L + a /\ d <= M /\ c + a <= d + b => c <= L
  OBVIOUS
<1>19. /\ LengthOf[p] + Slack(Len(p)) \in Int
       /\ LengthOf[q] + Slack(Len(q)) \in Int
       /\ Ahead(v) \in Int /\ Ahead(w) \in Int
  BY <1>12, <1>13
<1>20. cost[v] <= LengthOf[p] + Slack(Len(p))
  BY <1>14, <1>15, <1>16, <1>17, <1>18, <1>19
<1>. QED  BY <1>20 DEF Near
-----------------------------------------------------------------------------
(* The way back, which costs less and less.                                *)
Climbs(p) == \A i, j \in 1..Len(p) : i < j => cost[p[i]] < cost[p[j]]

Arrived == Known(end) /\ \A p : WalkFrom(p) /\ End(p) = end => Near(p)

Way ==
  /\ curr \in Vertex
  /\ Known(curr)
  /\ Leads(path)
  /\ path = <<>> => curr = end
  /\ path # <<>> =>
       /\ Joined(edges, curr, path[1])
       /\ cost[path[1]] + LengthOf[path] <= cost[end]
       /\ cost[curr] + Distance[curr][path[1]] <= cost[path[1]]
       /\ Climbs(path)

Begun == pc = "call" => Fresh

WeightedInv ==
  Weighted /\ pc \in {"scan", "trace", "retrace"} =>
    /\ start # end
    /\ Costs
    /\ pc = "scan" => ToScan
    /\ pc \in {"trace", "retrace"} => Arrived
    /\ pc = "retrace" => Way

(* What is handed back where there is a way: a tour, and no walk is        *)
(* shorter by more than the slack.                                         *)
Handed ==
  Weighted /\ pc = "done" =>
    /\ TourTo(path, end)
    /\ LengthOf[path] < INT_MAX
    /\ \A p : WalkFrom(p) /\ End(p) = end => LengthOf[path] <= LengthOf[p] + Slack(Len(p))

LEMMA CallKept ==
  ASSUME [PathToPointId]_vars
  PROVE  UNCHANGED call
<1>1. CASE StartsAtEnd \/ Retrace
  BY <1>1 DEF StartsAtEnd, Retrace, Stray, Return, call
<1>2. CASE Bfs
  BY <1>2 DEF Bfs, BfsStart, BfsFind, BfsMoveOn, BfsFound, BfsNoPath, Return, call
<1>3. CASE Dfs
  BY <1>3 DEF Dfs, DfsStart, DfsDown, DfsBack, DfsNoPath, DfsCopy, Return, call
<1>4. CASE Dijkstra
  BY <1>4 DEF Dijkstra, DijkstraStart, DijkstraScan, DijkstraNoPath, DijkstraFound, Return, call
<1>5. CASE Astar
  BY <1>5 DEF Astar, AstarStart, AstarScan, call
<1>6. CASE UNCHANGED vars
  BY <1>6 DEF vars
<1>. QED  BY <1>1, <1>2, <1>3, <1>4, <1>5, <1>6 DEF PathToPointId

LEMMA SameCall ==
  ASSUME UNCHANGED call
  PROVE  /\ Weighted' <=> Weighted
         /\ \A p : WalkFrom(p)' <=> WalkFrom(p)
         /\ \A p, v : TourTo(p, v)' <=> TourTo(p, v)
         /\ \A n : Slack(n)' = Slack(n)
         /\ \A v : Ahead(v)' = Ahead(v)
<1>1. alg' = alg /\ edges' = edges /\ start' = start /\ end' = end
  BY DEF call
<1>2. Weighted' <=> Weighted
  BY <1>1 DEF Weighted, CutOff, Neighbours, Joined
<1>3. \A p : IsWalk(p)' <=> IsWalk(p)
  BY <1>1 DEF IsWalk, Joined
<1>. QED  BY <1>1, <1>2, <1>3 DEF WalkFrom, TourTo, Slack, Ahead

LEMMA SameCosts ==
  ASSUME UNCHANGED <<call, pred, cost, done>>
  PROVE  /\ Costs => Costs'
         /\ Arrived => Arrived'
         /\ \A p : Climbs(p) => Climbs(p)'
         /\ Settled => Settled'
         /\ \A p : Near(p) => Near(p)'
<1>1. edges' = edges /\ start' = start /\ end' = end /\ UNCHANGED call
  BY DEF call
<1>2. /\ \A p : WalkFrom(p)' <=> WalkFrom(p)
      /\ \A p, v : TourTo(p, v)' <=> TourTo(p, v)
      /\ \A n : Slack(n)' = Slack(n)
  BY <1>1, SameCall
<1>3. \A v : /\ Known(v)' <=> Known(v)
             /\ Reached(v)' <=> Reached(v)
  BY <1>2 DEF Known, Reached
<1>4. \A p : Near(p)' <=> Near(p)
  BY <1>2 DEF Near
<1>5. Costs => Costs'
  BY <1>1, <1>3 DEF Costs, Joined
<1>6. Arrived => Arrived'
  BY <1>1, <1>2, <1>3, <1>4 DEF Arrived
<1>7. Settled => Settled'
  BY <1>1, <1>2, <1>3, <1>4 DEF Settled
<1>8. \A p : Climbs(p) => Climbs(p)'
  BY DEF Climbs
<1>. QED  BY <1>4, <1>5, <1>6, <1>7, <1>8

LEMMA BegunStep == Begun /\ [PathToPointId]_vars => Begun'
<1>. SUFFICES ASSUME Begun, [PathToPointId]_vars PROVE Begun'
  OBVIOUS
<1>1. CASE UNCHANGED vars
  BY <1>1 DEF vars, call, locals, Begun, Fresh
<1>2. CASE PathToPointId
  <2>1. pc' # "call"
    BY <1>2 DEF PathToPointId, StartsAtEnd, Bfs, BfsStart, BfsFind, BfsMoveOn, BfsFound, BfsNoPath,
      Dfs, DfsStart, DfsDown, DfsBack, DfsGoesOn, DfsNoPath, DfsCopy, Dijkstra, DijkstraStart,
      DijkstraScan, DijkstraNoPath, DijkstraFound, Astar, AstarStart, AstarScan, Retrace,
      Stray, Return
  <2>. QED  BY <2>1 DEF Begun
<1>. QED  BY <1>1, <1>2

(* The start.                                                              *)
LEMMA StartIsToScan ==
  ASSUME Types, Begun, pc = "call", UNCHANGED <<call, done>>, curr' = start,
         cost' = [cost EXCEPT ![start] = 0], pred'[start] = Root,
         LengthOf[<<start>>] = 0
  PROVE  Costs' /\ ToScan'
<1>1. /\ start' = start /\ end' = end /\ edges' = edges /\ alg' = alg
      /\ start \in Vertex /\ end \in Vertex /\ done' = {}
      /\ \A v \in Vertex : cost[v] = INT_MAX
  BY DEF call, Types, Begun, Fresh, AllInfinite
<1>2. cost \in [Vertex -> -(INT_MAX + 1)..INT_MAX]
  BY DEF Types, TypeOK
<1>3. cost'[start] = 0 /\ \A v \in Vertex : v # start => cost'[v] = INT_MAX
  BY <1>1, <1>2
<1>4. INT_MAX \in Nat /\ 0 < INT_MAX /\ 0 # INT_MAX
  <2>1. INT_MAX \in Nat
    BY CostTypes
  <2>2. 0 \in Nat /\ 0 <= Cardinality(Vertex) /\ Bound(0) \in Nat
    BY CostTypes, Bounds
  <2>3. Bound(0) < INT_MAX
    BY <2>2, Bounds
  <2>. QED  BY <2>1, <2>2, <2>3
<1>5. Cardinality(done') = 0 /\ Bound(0) \in Nat
  BY <1>1, FS_EmptySet, Bounds
<1>6. TourTo(<<start>>, start)'
  <2>1. WalkFrom(<<start>>) /\ End(<<start>>) = start /\ Len(<<start>>) = 1
    BY WalkOfOne
  <2>2. \A i, j \in 1..Len(<<start>>) : <<start>>[i] = <<start>>[j] => i = j
    BY <2>1
  <2>3. <<start>> \in Tour
    BY <2>1, <2>2, NoTurnIsTour DEF WalkFrom
  <2>4. TourTo(<<start>>, start)
    BY <2>1, <2>3 DEF TourTo, WalkFrom
  <2>. QED  BY <1>1, <2>4, SameCall
<1>7. Reached(start)'
  <2>1. LengthOf[<<start>>] <= cost'[start]
    BY <1>3
  <2>2. TourTo(<<start>>, start)'
    BY <1>6
  <2>. QED  BY <1>1, <2>1, <2>2 DEF Reached
<1>8. Costs'
  BY <1>1, <1>3, <1>4, <1>5, <1>7 DEF Costs, Known
<1>9. ASSUME NEW p, WalkFrom(p)', End(p) = start
      PROVE  Near(p)'
  <2>1. p \in Seq(Vertex) /\ p # <<>>
    BY <1>9 DEF WalkFrom
  <2>2. LengthOf[p] \in Nat /\ Len(p) \in Nat /\ Len(p) > 0
    BY <2>1, LengthIsNat, Ends
  <2>3. Slack(Len(p))' = Slack(Len(p)) /\ Slack(Len(p)) \in Nat
    BY <1>1, <2>2, SlackGrows DEF Slack
  <2>4. 0 <= LengthOf[p] + Slack(Len(p))
    BY <2>2, <2>3
  <2>. QED  BY <1>3, <1>9, <2>3, <2>4 DEF Near
<1>10. Settled'
  BY <1>1 DEF Settled
<1>. QED  BY <1>1, <1>3, <1>4, <1>8, <1>9, <1>10 DEF ToScan, Known

LEMMA NextIsToScan ==
  Types /\ Weighted /\ Costs /\ Settled /\ start \in done /\ end \notin done
    => \A v : Cheapest(v) /\ curr = v => ToScan
<1>. SUFFICES ASSUME Types, Weighted, Costs, Settled, start \in done, end \notin done,
                     NEW v, Cheapest(v), curr = v
              PROVE  ToScan
  OBVIOUS
<1>1. Known(curr)
  BY CheapestIsKnown
<1>2. \A p : WalkFrom(p) /\ End(p) = curr => Near(p)
  BY CheapestIsNear
<1>. QED  BY <1>1, <1>2 DEF ToScan, Cheapest

LEMMA PickIsLeast ==
  ASSUME NEW open, NEW first \in open, NEW key, \A v \in open : key[v] \in Int,
         NEW v \in Pick(first, open, key)
  PROVE  v \in open /\ \A w \in open : key[v] <= key[w]
<1>. DEFINE below == {w \in open : key[w] < key[first]}
<1>1. CASE below = {}
  <2>1. v = first
    BY <1>1 DEF Pick
  <2>2. \A w \in open : ~(key[w] < key[first])
    BY <1>1
  <2>. QED  BY <2>1, <2>2
<1>2. CASE below # {}
  <2>1. v \in below /\ \A w \in below : key[v] <= key[w]
    BY <1>2 DEF Pick, Lowest
  <2>. QED  BY <2>1
<1>. QED  BY <1>1, <1>2

LEMMA OpenKeys ==
  Types /\ Costs => \A v \in Vertex \ done :
                      /\ Key(v) \in 0..INT_MAX
                      /\ Known(v) => Key(v) = cost[v] + Ahead(v)
                      /\ ~Known(v) => Key(v) = INT_MAX
<1>. SUFFICES ASSUME Types, Costs, NEW v \in Vertex \ done
              PROVE  /\ Key(v) \in 0..INT_MAX
                     /\ Known(v) => Key(v) = cost[v] + Ahead(v)
                     /\ ~Known(v) => Key(v) = INT_MAX
  OBVIOUS
<1>1. INT_MAX \in Nat
  BY CostTypes
<1>2. Known(v) => Key(v) = cost[v] + Ahead(v) /\ Key(v) \in Nat /\ Key(v) < INT_MAX
  BY KeyOfKnown
<1>3. ~Known(v) => Key(v) = INT_MAX
  BY DEF Key
<1>. QED  BY <1>1, <1>2, <1>3

LEMMA DijkstraKeys ==
  Types /\ Costs /\ alg = "dijkstra" => \A v \in Vertex \ done : cost[v] = Key(v)
<1>. SUFFICES ASSUME Types, Costs, alg = "dijkstra", NEW v \in Vertex \ done
              PROVE  cost[v] = Key(v)
  OBVIOUS
<1>1. Ahead(v) = 0 /\ cost[v] \in Int
  BY CostTypes DEF Ahead
<1>2. Known(v) => Key(v) = cost[v] + Ahead(v)
  BY OpenKeys
<1>3. ~Known(v) => Key(v) = INT_MAX
  BY OpenKeys
<1>. QED  BY <1>1, <1>2, <1>3 DEF Known

LEMMA AstarKeys ==
  Types /\ Costs /\ alg = "astar" => \A v \in Vertex \ done : Estimate(cost)[v] = Key(v)
<1>. SUFFICES ASSUME Types, Costs, alg = "astar", NEW v \in Vertex \ done
              PROVE  Estimate(cost)[v] = Key(v)
  OBVIOUS
<1>1. Ahead(v) = Distance[v][end]
  BY DEF Ahead
<1>2. /\ Key(v) \in 0..INT_MAX
      /\ Known(v) => Key(v) = cost[v] + Ahead(v)
      /\ ~Known(v) => Key(v) = INT_MAX
  BY OpenKeys
<1>3. Estimate(cost)[v] = IF cost[v] = INT_MAX THEN INT_MAX ELSE Wrap(cost[v] + Distance[v][end])
  BY DEF Estimate
<1>4. CASE Known(v)
  <2>1. Estimate(cost)[v] = Wrap(Key(v))
    BY <1>1, <1>2, <1>3, <1>4 DEF Known
  <2>. QED  BY <1>2, <2>1, WrapsNothing
<1>5. CASE ~Known(v)
  BY <1>2, <1>3, <1>5 DEF Known
<1>. QED  BY <1>4, <1>5

LEMMA LowestIsIn ==
  ASSUME NEW S, NEW v \in Lowest(S)
  PROVE  v \in S
  BY DEF Lowest

(* One scan, and where it leads.                                           *)
LEMMA ScanGoesOn ==
  ASSUME Types, Types', Weighted, Costs, ToScan, DijkstraScan \/ AstarScan
  PROVE  /\ Costs'
         /\ pc' = "scan" => ToScan'
         /\ pc' \in {"trace", "retrace"} => Arrived' /\ curr' = end
<1>1. Relax /\ UNCHANGED call /\ curr \in Vertex \ done /\ Known(curr) /\ pc = "scan"
  BY DEF DijkstraScan, AstarScan, ToScan
<1>2. Costs'
  BY <1>1, RelaxKeepsCosts
<1>3. Settled' /\ start' \in done' /\ done' = done \union {curr}
  <2>1. start' = start
    BY <1>1 DEF call
  <2>. QED  BY <1>1, <2>1, RelaxSettles DEF Relax
<1>4. Weighted' /\ start' = start /\ end' = end /\ alg' = alg /\ end \in Vertex
  BY <1>1, SameCall DEF call, Types
<1>5. end \in done' => curr = end
  BY <1>3 DEF ToScan
<1>6. CASE curr = end
  <2>1. pc' \in {"trace", "retrace"} /\ curr' = end
    BY <1>6 DEF DijkstraScan, AstarScan
  <2>2. end' \in done'
    BY <1>3, <1>4, <1>6
  <2>3. Arrived'
    BY <1>3, <2>2 DEF Settled, Arrived
  <2>. QED  BY <1>2, <2>1, <2>3
<1>7. CASE curr # end
  <2>1. end \notin done'
    BY <1>5, <1>7
  <2>2. \A v \in done' : cost'[v] # INT_MAX
    BY <1>3 DEF Settled, Known
  <2>. PICK c : c = curr'
    OBVIOUS
  <2>3. ASSUME DijkstraScan
        PROVE  pc' = "scan" /\ Cheapest(c)'
    <3>1. DijkstraLeft = Vertex \ done'
      BY <2>2 DEF DijkstraLeft
    <3>2. end \in DijkstraLeft
      BY <1>4, <2>1, <3>1
    <3>3. /\ pc' = "scan"
          /\ \E first \in Lowest(DijkstraLeft) : c \in Pick(first, Vertex \ done', cost')
      BY <1>1, <1>7, <2>3, <3>2 DEF DijkstraScan
    <3>4. PICK first \in Vertex \ done' : c \in Pick(first, Vertex \ done', cost')
      BY <3>1, <3>3, LowestIsIn
    <3>5. alg' = "dijkstra"
      BY <1>4, <2>3 DEF DijkstraScan
    <3>6. (Types /\ Costs /\ alg = "dijkstra" => \A v \in Vertex \ done : cost[v] = Key(v))'
      BY DijkstraKeys, PTL
    <3>7. \A v \in Vertex \ done' : cost'[v] = Key(v)'
      BY <1>2, <3>5, <3>6
    <3>8. \A v \in Vertex \ done' : cost'[v] \in Int
      <4>1. cost' \in [Vertex -> -(INT_MAX + 1)..INT_MAX]
        BY DEF Types, TypeOK
      <4>2. INT_MAX \in Nat
        BY CostTypes
      <4>. QED  BY <4>1, <4>2
    <3>9. c \in Vertex \ done' /\ \A w \in Vertex \ done' : cost'[c] <= cost'[w]
      BY <3>4, <3>8, PickIsLeast
    <3>10. \A w \in Vertex \ done' : Key(c)' <= Key(w)'
      <4>1. cost'[c] = Key(c)'
        BY <3>7, <3>9
      <4>2. \A w \in Vertex \ done' : Key(c)' <= cost'[w]
        BY <3>9, <4>1
      <4>. QED  BY <3>7, <4>2
    <3>. QED  BY <3>3, <3>9, <3>10 DEF Cheapest
  <2>4. ASSUME AstarScan
        PROVE  pc' = "scan" /\ Cheapest(c)'
    <3>2. done' # Vertex
      BY <1>4, <2>1
    <3>3. /\ pc' = "scan"
          /\ \E first \in Lowest(Vertex \ done') :
               c \in Pick(first, Vertex \ done', Estimate(cost'))
      BY <1>1, <1>7, <2>4, <3>2 DEF AstarScan
    <3>4. PICK first \in Vertex \ done' : c \in Pick(first, Vertex \ done', Estimate(cost'))
      BY <3>3, LowestIsIn
    <3>5. alg' = "astar" /\ Estimate(cost)' = Estimate(cost')
      BY <1>4, <2>4 DEF AstarScan, Estimate
    <3>6. (Types /\ Costs /\ alg = "astar" => \A v \in Vertex \ done : Estimate(cost)[v] = Key(v))'
      BY AstarKeys, PTL
    <3>7. \A v \in Vertex \ done' : Estimate(cost')[v] = Key(v)'
      BY <1>2, <3>5, <3>6
    <3>8. \A v \in Vertex \ done' : Estimate(cost')[v] \in Int
      <4>1. (Types /\ Costs => \A v \in Vertex \ done :
                      /\ Key(v) \in 0..INT_MAX
                      /\ Known(v) => Key(v) = cost[v] + Ahead(v)
                      /\ ~Known(v) => Key(v) = INT_MAX)'
        BY OpenKeys, PTL
      <4>2. \A v \in Vertex \ done' : Key(v)' \in 0..INT_MAX
        BY <1>2, <4>1
      <4>3. INT_MAX \in Nat
        BY CostTypes
      <4>4. \A v \in Vertex \ done' : Key(v)' \in Int
        BY <4>2, <4>3
      <4>. QED  BY <3>7, <4>4
    <3>. DEFINE key == Estimate(cost')
    <3>9. c \in Vertex \ done' /\ \A w \in Vertex \ done' : key[c] <= key[w]
      <4>. HIDE DEF key
      <4>1. /\ \A v \in Vertex \ done' : key[v] \in Int
            /\ c \in Pick(first, Vertex \ done', key)
        BY <3>4, <3>8 DEF key
      <4>. QED  BY <4>1, PickIsLeast
    <3>10. \A w \in Vertex \ done' : Key(c)' <= Key(w)'
      <4>. HIDE DEF key
      <4>1. \A v \in Vertex \ done' : key[v] = Key(v)'
        BY <3>7 DEF key
      <4>2. key[c] = Key(c)'
        BY <3>9, <4>1
      <4>3. \A w \in Vertex \ done' : Key(c)' <= key[w]
        BY <3>9, <4>2
      <4>. QED  BY <4>1, <4>3
    <3>. QED  BY <3>3, <3>9, <3>10 DEF Cheapest
  <2>5. pc' = "scan" /\ Cheapest(c)'
    BY <2>3, <2>4
  <2>6. (Types /\ Weighted /\ Costs /\ Settled /\ start \in done /\ end \notin done
           => \A v : Cheapest(v) /\ curr = v => ToScan)'
    BY NextIsToScan, PTL
  <2>7. ToScan'
    BY <1>2, <1>3, <1>4, <2>1, <2>5, <2>6
  <2>. QED  BY <1>2, <2>5, <2>7
<1>. QED  BY <1>6, <1>7

(* One turn of the way back.                                               *)
LEMMA WayOn ==
  ASSUME Types, Costs, Way
  PROVE  LET p == <<curr>> \o path
         IN  /\ p \in Seq(Vertex) /\ p # <<>> /\ p[1] = curr
             /\ Leads(p)
             /\ Climbs(p)
             /\ cost[curr] + LengthOf[p] <= cost[end]
<1>. DEFINE p == <<curr>> \o path
<1>1. /\ path \in Seq(Vertex) /\ curr \in Vertex /\ Known(curr) /\ Leads(path)
      /\ path = <<>> => curr = end
      /\ path # <<>> =>
           /\ Joined(edges, curr, path[1])
           /\ cost[path[1]] + LengthOf[path] <= cost[end]
           /\ cost[curr] + Distance[curr][path[1]] <= cost[path[1]]
           /\ Climbs(path)
  BY DEF Way, Types, TypeOK
<1>2. Leads(p) /\ p # <<>> /\ p[1] = curr
  BY <1>1, WalkGrows
<1>3. /\ p \in Seq(Vertex) /\ Len(p) = Len(path) + 1
      /\ Len(path) \in Nat
      /\ \A i \in 1..Len(path) : p[i + 1] = path[i]
  BY <1>1
<1>4. \A v \in Vertex : cost[v] \in Int
  BY CostTypes
<1>5. end \in Vertex
  BY DEF Types
<1>6. CASE path = <<>>
  <2>1. p = <<curr>>
    BY <1>6
  <2>2. Len(p) = 1 /\ LengthOf[p] = 0
    BY <1>1, <2>1, LengthOfOne
  <2>3. Climbs(p)
    BY <2>2 DEF Climbs
  <2>4. cost[curr] + LengthOf[p] <= cost[end]
    BY <1>1, <1>4, <1>5, <1>6, <2>2
  <2>. QED  BY <1>2, <1>3, <2>3, <2>4
<1>7. CASE path # <<>>
  <2>1. /\ path[1] \in Vertex /\ 1 \in 1..Len(path)
        /\ \A i \in 1..Len(path) : path[i] \in Vertex
    BY <1>1, <1>7, Ends
  <2>2. LengthOf[p] = Distance[curr][path[1]] + LengthOf[path]
    BY <1>1, <1>7, LengthFromFront
  <2>3. Distance[curr][path[1]] \in Nat /\ LengthOf[path] \in Nat
    BY <1>1, <2>1, DistanceIsRoot, LengthIsNat
  <2>4. Distance[curr][path[1]] > 0
    <3>1. curr # path[1]
      BY <1>1, <1>7 DEF Joined
    <3>2. Distance[curr][path[1]] # 0
      BY <1>1, <2>1, <3>1, MapAssumption
    <3>3. \A d \in Nat : d # 0 => d > 0
      OBVIOUS
    <3>. QED  BY <2>3, <3>2, <3>3
  <2>5. cost[curr] \in Int /\ cost[end] \in Int /\ cost[path[1]] \in Int
    BY <1>1, <1>4, <1>5, <2>1
  <2>. HIDE DEF p
  <2>6. cost[curr] + LengthOf[p] <= cost[end]
    BY <1>1, <1>7, <2>2, <2>3, <2>5
  <2>7. cost[curr] < cost[path[1]]
    BY <1>1, <1>7, <2>3, <2>4, <2>5
  <2>8. ASSUME NEW i \in 1..Len(path) PROVE cost[curr] < cost[path[i]]
    <3>1. CASE i = 1
      BY <2>7, <3>1
    <3>2. CASE i # 1
      <4>1. 1 < i
        BY <3>2
      <4>2. cost[path[1]] < cost[path[i]]
        BY <1>1, <1>7, <2>1, <4>1 DEF Climbs
      <4>3. cost[path[i]] \in Int
        BY <1>4, <2>1
      <4>. QED  BY <2>5, <2>7, <4>2, <4>3
    <3>. QED  BY <3>1, <3>2
  <2>9. ASSUME NEW i \in 1..Len(p), NEW j \in 1..Len(p), i < j
        PROVE  cost[p[i]] < cost[p[j]]
    <3>1. j - 1 \in 1..Len(path) /\ (j - 1) + 1 = j
      BY <1>3, <2>9
    <3>2. p[j] = path[j - 1]
      BY <1>3, <3>1
    <3>3. CASE i = 1
      BY <1>2, <2>8, <3>1, <3>2, <3>3
    <3>4. CASE i # 1
      <4>1. i - 1 \in 1..Len(path) /\ (i - 1) + 1 = i /\ i - 1 < j - 1
        BY <1>3, <2>9, <3>4
      <4>2. p[i] = path[i - 1]
        BY <1>3, <4>1
      <4>3. cost[path[i - 1]] < cost[path[j - 1]]
        BY <1>1, <1>7, <3>1, <4>1 DEF Climbs
      <4>. QED  BY <3>2, <4>2, <4>3
    <3>. QED  BY <3>3, <3>4
  <2>10. Climbs(p)
    BY <2>9 DEF Climbs
  <2>. QED  BY <1>2, <1>3, <2>6, <2>10 DEF p
<1>. QED  BY <1>6, <1>7

LEMMA ClimbsIsTour ==
  ASSUME Types, NEW p \in Seq(Vertex), p # <<>>, Climbs(p)
  PROVE  p \in Tour
<1>1. ASSUME NEW i \in 1..Len(p), NEW j \in 1..Len(p), p[i] = p[j], i # j PROVE FALSE
  <2>1. cost[p[i]] \in Int
    BY Ends, CostTypes
  <2>2. i < j \/ j < i
    BY <1>1
  <2>3. cost[p[i]] < cost[p[j]] \/ cost[p[j]] < cost[p[i]]
    BY <2>2 DEF Climbs
  <2>4. ~(cost[p[i]] < cost[p[i]])
    BY <2>1
  <2>. QED  BY <1>1, <2>3, <2>4
<1>. QED  BY <1>1, NoTurnIsTour

LEMMA WayEnds ==
  ASSUME Types, Costs, Arrived, Way, pred[curr] = Root
  PROVE  LET p == <<curr>> \o path
         IN  /\ TourTo(p, end)
             /\ LengthOf[p] < INT_MAX
             /\ \A q : WalkFrom(q) /\ End(q) = end => LengthOf[p] <= LengthOf[q] + Slack(Len(q))
<1>. DEFINE p == <<curr>> \o path
<1>1. /\ p \in Seq(Vertex) /\ p # <<>> /\ p[1] = curr
      /\ Leads(p)
      /\ Climbs(p)
      /\ cost[curr] + LengthOf[p] <= cost[end]
  BY WayOn
<1>2. curr = start
  BY Vertices DEF Costs, Way
<1>3. cost[curr] = 0 /\ cost[end] \in Int /\ cost[end] <= INT_MAX /\ cost[end] # INT_MAX
      /\ INT_MAX \in Nat
  BY <1>2, CostTypes DEF Costs, Arrived, Known
<1>. HIDE DEF p
<1>4. LengthOf[p] \in Nat
  BY <1>1, LengthIsNat
<1>5. LengthOf[p] <= cost[end] /\ LengthOf[p] < INT_MAX
  BY <1>1, <1>3, <1>4
<1>6. p \in Tour
  BY <1>1, ClimbsIsTour
<1>7. TourTo(p, end)
  BY <1>1, <1>2, <1>6 DEF TourTo, Leads, End
<1>8. ASSUME NEW q, WalkFrom(q), End(q) = end
      PROVE  LengthOf[p] <= LengthOf[q] + Slack(Len(q))
  <2>1. cost[end] <= LengthOf[q] + Slack(Len(q))
    BY <1>8 DEF Arrived, Near
  <2>2. LengthOf[q] \in Nat /\ Slack(Len(q)) \in Nat
    BY <1>8, LengthIsNat, Ends, SlackGrows DEF WalkFrom
  <2>. QED  BY <1>3, <1>4, <1>5, <2>1, <2>2
<1>. QED  BY <1>5, <1>7, <1>8 DEF p

LEMMA WeightedStep ==
  SearchInv /\ Begun /\ WeightedInv /\ [PathToPointId]_vars /\ Types' => WeightedInv'
<1>. SUFFICES ASSUME SearchInv, Begun, WeightedInv, [PathToPointId]_vars, Types',
                     Weighted', pc' \in {"scan", "trace", "retrace"}
              PROVE  /\ start' # end'
                     /\ Costs'
                     /\ pc' = "scan" => ToScan'
                     /\ pc' \in {"trace", "retrace"} => Arrived'
                     /\ pc' = "retrace" => Way'
  BY DEF WeightedInv
<1>1. UNCHANGED call
  BY CallKept
<1>2. /\ Types /\ Weighted /\ Tracing
      /\ start' = start /\ end' = end /\ alg' = alg /\ edges' = edges
      /\ alg \in {"dijkstra", "astar"}
  BY <1>1, SameCall DEF SearchInv, Weighted, call
<1>3. CASE DijkstraStart \/ AstarStart
  <2>1. /\ pc = "call" /\ pc' = "scan" /\ UNCHANGED done /\ curr' = start /\ start # end
        /\ cost' = [cost EXCEPT ![start] = 0]
    BY <1>3 DEF DijkstraStart, AstarStart
  <2>2. start \in Vertex /\ pred \in [Vertex -> Vertex \union {Root, Unset}]
    BY <1>2 DEF Types, TypeOK
  <2>3. pred'[start] = Root
    BY <1>3, <2>2 DEF DijkstraStart, AstarStart
  <2>4. LengthOf[<<start>>] = 0
    BY <2>2, LengthOfOne
  <2>5. Costs' /\ ToScan'
    BY <1>1, <1>2, <2>1, <2>3, <2>4, StartIsToScan
  <2>. QED  BY <1>2, <2>1, <2>5
<1>4. CASE DijkstraScan \/ AstarScan
  <2>1. pc = "scan" /\ UNCHANGED path
    BY <1>4 DEF DijkstraScan, AstarScan
  <2>2. Costs /\ ToScan /\ start # end
    BY <1>2, <2>1 DEF WeightedInv
  <2>3. /\ Costs'
        /\ pc' = "scan" => ToScan'
        /\ pc' \in {"trace", "retrace"} => Arrived' /\ curr' = end
    BY <1>2, <1>4, <2>2, ScanGoesOn
  <2>4. path' = <<>>
    BY <1>2, <2>1 DEF Tracing
  <2>5. pc' = "retrace" => Way'
    BY <1>2, <2>3, <2>4 DEF Way, Arrived, Leads, Types
  <2>. QED  BY <1>2, <2>2, <2>3, <2>5
<1>5. CASE DijkstraFound
  <2>1. pc = "trace" /\ pc' = "retrace" /\ UNCHANGED <<call, path, locals>>
    BY <1>5 DEF DijkstraFound
  <2>2. Costs /\ Arrived /\ start # end
    BY <1>2, <2>1 DEF WeightedInv
  <2>3. Costs' /\ Arrived'
    BY <2>1, <2>2, SameCosts DEF locals
  <2>4. path' = <<>> /\ curr' = end
    BY <1>2, <2>1 DEF Tracing, locals
  <2>5. Way'
    BY <1>2, <2>3, <2>4 DEF Way, Arrived, Leads, Types
  <2>. QED  BY <1>2, <2>1, <2>2, <2>3, <2>5
<1>6. CASE Retrace
  <2>1. pc = "retrace"
    BY <1>6 DEF Retrace
  <2>2. Costs /\ Arrived /\ start # end /\ Way
    BY <1>2, <2>1 DEF WeightedInv
  <2>3. /\ path' = <<curr>> \o path
        /\ curr' = pred[curr]
        /\ pred[curr] # Root
        /\ UNCHANGED <<call, pc, pred, cost, done>>
    BY <1>6 DEF Retrace, Stray, Return
  <2>4. Costs' /\ Arrived' /\ \A p : Climbs(p) => Climbs(p)'
    BY <2>2, <2>3, SameCosts
  <2>5. PICK p :
          /\ p = <<curr>> \o path
          /\ p \in Seq(Vertex) /\ p # <<>> /\ p[1] = curr
          /\ Leads(p)
          /\ Climbs(p)
          /\ cost[curr] + LengthOf[p] <= cost[end]
    <3>. DEFINE q == <<curr>> \o path
    <3>1. /\ q \in Seq(Vertex) /\ q # <<>> /\ q[1] = curr
          /\ Leads(q)
          /\ Climbs(q)
          /\ cost[curr] + LengthOf[q] <= cost[end]
      BY <1>2, <2>2, WayOn
    <3>2. q = <<curr>> \o path
      OBVIOUS
    <3>. HIDE DEF q
    <3>. QED  BY <3>1, <3>2
  <2>6. path' = p
    BY <2>3, <2>5
  <2>7. curr \in Vertex /\ Known(curr) /\ curr # start
    BY <2>2, <2>3 DEF Way, Costs
  <2>8. /\ pred[curr] \in Vertex
        /\ Known(pred[curr])
        /\ Joined(edges, pred[curr], curr)
        /\ cost[pred[curr]] + Distance[pred[curr]][curr] <= cost[curr]
    BY <2>2, <2>7 DEF Costs
  <2>9. Leads(p)'
    <3>1. IsWalk(p)' <=> IsWalk(p)
      BY <1>2 DEF IsWalk, Joined
    <3>. QED  BY <1>2, <2>5, <3>1 DEF Leads
  <2>10. Leads(path)'
    BY <2>6, <2>9 DEF Leads, IsWalk
  <2>11. Climbs(path)'
    BY <2>3, <2>5, <2>6 DEF Climbs
  <2>12. Way'
    BY <1>2, <2>3, <2>5, <2>6, <2>8, <2>10, <2>11 DEF Way, Known, Joined
  <2>. QED  BY <1>2, <2>1, <2>2, <2>3, <2>4, <2>12
<1>7. CASE UNCHANGED vars
  <2>1. UNCHANGED <<call, pred, cost, done>> /\ UNCHANGED <<pc, path, curr>>
    BY <1>7 DEF vars, locals
  <2>2. /\ start # end /\ Costs
        /\ pc = "scan" => ToScan
        /\ pc \in {"trace", "retrace"} => Arrived
        /\ pc = "retrace" => Way
    BY <1>2, <2>1 DEF WeightedInv
  <2>3. /\ Costs' /\ (Arrived => Arrived') /\ (Settled => Settled')
        /\ \A p : Climbs(p) => Climbs(p)'
        /\ \A p : Near(p) => Near(p)'
        /\ \A p : WalkFrom(p)' <=> WalkFrom(p)
    BY <1>1, <2>1, <2>2, SameCosts, SameCall
  <2>4. ToScan => ToScan'
    BY <1>2, <2>1, <2>3 DEF ToScan, Known
  <2>5. Way => Way'
    <3>1. Climbs(path) => Climbs(path)'
      BY <2>1 DEF Climbs
    <3>2. Leads(path) => Leads(path)'
      BY <1>2, <2>1 DEF Leads, IsWalk, Joined
    <3>. QED  BY <1>2, <2>1, <3>1, <3>2 DEF Way, Known, Joined
  <2>. QED  BY <1>2, <2>1, <2>2, <2>3, <2>4, <2>5
<1>8. CASE StartsAtEnd \/ Bfs \/ Dfs \/ DijkstraNoPath
  <2>1. CASE StartsAtEnd \/ DijkstraNoPath
    BY <2>1 DEF StartsAtEnd, DijkstraNoPath, Return
  <2>2. CASE Bfs
    BY <1>2, <2>2 DEF Bfs, BfsStart, BfsFind, BfsMoveOn, BfsFound, BfsNoPath
  <2>3. CASE Dfs
    BY <1>2, <2>3 DEF Dfs, DfsStart, DfsDown, DfsBack, DfsGoesOn, DfsNoPath, DfsCopy
  <2>. QED  BY <1>8, <2>1, <2>2, <2>3
<1>. QED  BY <1>3, <1>4, <1>5, <1>6, <1>7, <1>8 DEF PathToPointId, Dijkstra, Astar

LEMMA HandedStep ==
  SearchInv /\ WeightedInv /\ Handed /\ [PathToPointId]_vars => Handed'
<1>. SUFFICES ASSUME SearchInv, WeightedInv, Handed, [PathToPointId]_vars,
                     Weighted', pc' = "done"
              PROVE  /\ TourTo(path, end)'
                     /\ LengthOf[path'] < INT_MAX
                     /\ \A p : WalkFrom(p)' /\ End(p) = end'
                          => LengthOf[path'] <= LengthOf[p] + Slack(Len(p))'
  BY DEF Handed
<1>1. UNCHANGED call
  BY CallKept
<1>2. /\ Types /\ Weighted
      /\ start' = start /\ end' = end /\ alg' = alg /\ edges' = edges
      /\ alg \in {"dijkstra", "astar"}
      /\ \A p : WalkFrom(p)' <=> WalkFrom(p)
      /\ \A p, v : TourTo(p, v)' <=> TourTo(p, v)
      /\ \A n : Slack(n)' = Slack(n)
  BY <1>1, SameCall DEF SearchInv, Weighted, call
<1>. SUFFICES \E p : /\ path' = p
                     /\ TourTo(p, end)
                     /\ LengthOf[p] < INT_MAX
                     /\ \A q : WalkFrom(q) /\ End(q) = end
                                 => LengthOf[p] <= LengthOf[q] + Slack(Len(q))
  <2>1. PICK p : /\ path' = p
                 /\ TourTo(p, end)
                 /\ LengthOf[p] < INT_MAX
                 /\ \A q : WalkFrom(q) /\ End(q) = end
                             => LengthOf[p] <= LengthOf[q] + Slack(Len(q))
    OBVIOUS
  <2>2. TourTo(path, end)'
    <3>1. TourTo(p, end)'
      <4>1. TourTo(p, end)' <=> p \in Tour /\ p[1] = start' /\ End(p) = end' /\ IsWalk(p)'
        BY DEF TourTo
      <4>2. IsWalk(p)' <=> IsWalk(p)
        BY <1>2 DEF IsWalk, Joined
      <4>. QED  BY <1>2, <2>1, <4>1, <4>2 DEF TourTo
    <3>. QED  BY <2>1, <3>1 DEF TourTo, IsWalk
  <2>. QED  BY <1>2, <2>1, <2>2
<1>3. CASE StartsAtEnd
  <2>1. path' = <<start>> /\ start = end /\ start \in Vertex
    BY <1>2, <1>3 DEF StartsAtEnd, Return, Types
  <2>2. WalkFrom(<<start>>) /\ End(<<start>>) = start /\ Len(<<start>>) = 1
    BY <1>2, WalkOfOne
  <2>3. \A i, j \in 1..Len(<<start>>) : <<start>>[i] = <<start>>[j] => i = j
    BY <2>2
  <2>4. TourTo(<<start>>, end)
    BY <2>1, <2>2, <2>3, NoTurnIsTour DEF TourTo, WalkFrom
  <2>5. LengthOf[<<start>>] = 0
    BY <2>1, LengthOfOne
  <2>6. 0 < INT_MAX
    <3>1. 0 \in Nat /\ 0 <= Cardinality(Vertex) /\ Bound(0) \in Nat /\ INT_MAX \in Nat
      BY <1>2, CostTypes, Bounds
    <3>2. Bound(0) < INT_MAX
      BY <3>1, Bounds
    <3>. QED  BY <3>1, <3>2
  <2>7. ASSUME NEW q, WalkFrom(q) PROVE 0 <= LengthOf[q] + Slack(Len(q))
    <3>1. LengthOf[q] \in Nat /\ Slack(Len(q)) \in Nat
      BY <2>7, LengthIsNat, Ends, SlackGrows DEF WalkFrom
    <3>. QED  BY <3>1
  <2>. QED  BY <2>1, <2>4, <2>5, <2>6, <2>7
<1>4. CASE DijkstraNoPath
  <2>1. pc = "trace" /\ pred[end] = Unset
    BY <1>4 DEF DijkstraNoPath
  <2>2. Costs /\ Arrived /\ start # end
    BY <1>2, <2>1 DEF WeightedInv
  <2>3. pred[end] \in Vertex
    BY <1>2, <2>2 DEF Costs, Arrived, Types
  <2>. QED  BY <2>1, <2>3, Vertices
<1>5. CASE Retrace
  <2>1. pc = "retrace"
    BY <1>5 DEF Retrace
  <2>2. Costs /\ Arrived /\ Way
    BY <1>2, <2>1 DEF WeightedInv
  <2>3. path' = <<curr>> \o path /\ pred[curr] = Root
    BY <1>5, <2>1 DEF Retrace, Stray, Return
  <2>. DEFINE p == <<curr>> \o path
  <2>4. /\ TourTo(p, end)
        /\ LengthOf[p] < INT_MAX
        /\ \A q : WalkFrom(q) /\ End(q) = end => LengthOf[p] <= LengthOf[q] + Slack(Len(q))
    BY <1>2, <2>2, <2>3, WayEnds
  <2>5. path' = p
    BY <2>3
  <2>. HIDE DEF p
  <2>. QED  BY <2>4, <2>5
<1>6. CASE UNCHANGED vars
  <2>1. pc = "done" /\ path' = path
    BY <1>6 DEF vars
  <2>. QED  BY <1>2, <2>1 DEF Handed
<1>7. CASE Bfs \/ Dfs
  BY <1>2, <1>7 DEF Bfs, BfsStart, BfsFind, BfsMoveOn, BfsFound, BfsNoPath,
     Dfs, DfsStart, DfsDown, DfsBack, DfsGoesOn, DfsNoPath, DfsCopy
<1>8. CASE DijkstraStart \/ DijkstraScan \/ DijkstraFound \/ Astar
  BY <1>8 DEF DijkstraStart, DijkstraScan, DijkstraFound, Astar, AstarStart, AstarScan
<1>. QED  BY <1>3, <1>4, <1>5, <1>6, <1>7, <1>8 DEF PathToPointId, Dijkstra
-----------------------------------------------------------------------------
WeightedIInv == SearchInv /\ Begun /\ WeightedInv /\ Handed

LEMMA WeightedInvariant == Spec => []WeightedIInv
<1>1. Init => WeightedIInv
  <2>1. Called => SearchInv /\ Begun /\ WeightedInv /\ Handed
    BY SearchInvCalled DEF Called, Begun, WeightedInv, Handed
  <2>. QED  BY <2>1 DEF Init, WeightedIInv
<1>2. WeightedIInv /\ [PathToPointId]_vars => WeightedIInv'
  <2>. SUFFICES ASSUME WeightedIInv, [PathToPointId]_vars PROVE WeightedIInv'
    OBVIOUS
  <2>1. SearchInv'
    BY TypesStep, PredsStep, TracingStep, ListedStep, ChainedStep, AnsweredStep
    DEF SearchInv, WeightedIInv
  <2>2. Begun'
    BY BegunStep DEF WeightedIInv
  <2>3. WeightedInv'
    BY <2>1, WeightedStep DEF WeightedIInv, SearchInv
  <2>4. Handed'
    BY HandedStep DEF WeightedIInv
  <2>. QED  BY <2>1, <2>2, <2>3, <2>4 DEF WeightedIInv
<1>. QED  BY <1>1, <1>2, PTL DEF Spec

LEMMA RealMeansWay ==
  ASSUME NEW p \in Seq(Vertex), p # <<>>, Real(p)
  PROVE  ~CutOff
<1>. SUFFICES ASSUME CutOff PROVE FALSE
  OBVIOUS
<1>1. PICK part \in SUBSET Vertex :
        /\ start \in part
        /\ end \notin part
        /\ \A u \in part : Neighbours(edges, u) \subseteq part
  BY DEF CutOff
<1>2. WalkFrom(p) /\ End(p) \notin part
  BY <1>1 DEF Real, WalkFrom, End
<1>3. PICK i \in 1..Len(p) - 1 : p[i] \in part /\ p[i + 1] \notin part
  BY <1>1, <1>2, WalkLeaves
<1>4. p[i + 1] \in Neighbours(edges, p[i])
  BY <1>2, WalkStep
<1>. QED  BY <1>1, <1>3, <1>4

LEMMA HandedIsShortest == WeightedIInv => ShortestPath
<1>. SUFFICES ASSUME WeightedIInv, pc = "done", alg = "dijkstra", path # <<>>
              PROVE  Length[path] = Nearest(end)
  BY DEF ShortestPath
<1>1. Types /\ Real(path) /\ path \in Seq(Vertex)
  BY DEF WeightedIInv, SearchInv, Answered, Types, TypeOK
<1>2. Weighted
  BY <1>1, RealMeansWay DEF Weighted
<1>3. /\ TourTo(path, end)
      /\ LengthOf[path] < INT_MAX
      /\ \A p : WalkFrom(p) /\ End(p) = end => LengthOf[path] <= LengthOf[p] + Slack(Len(p))
  BY <1>2 DEF WeightedIInv, Handed
<1>4. Length[path] = LengthOf[path] /\ LengthOf[path] \in Nat
  BY <1>1, <1>3, TourIsPath, LengthIsNat DEF TourTo
<1>5. Nearest(end) <= LengthOf[path] /\ Nearest(end) \in Nat
  BY <1>3, NearestIsLeast
<1>6. Nearest(end) # INT_MAX
  BY <1>3, <1>4, <1>5, SearchAssumption
<1>7. PICK p : TourTo(p, end) /\ Nearest(end) = LengthOf[p]
  BY <1>6, NearestIsLeast
<1>8. WalkFrom(p) /\ End(p) = end
  BY <1>7, TourIsWalk
<1>9. LengthOf[path] <= LengthOf[p] + 0
  BY <1>3, <1>8 DEF Slack
<1>. QED  BY <1>4, <1>5, <1>7, <1>9

LEMMA HandedIsAlmostShortest == WeightedIInv => AlmostShortest
<1>. SUFFICES ASSUME WeightedIInv, pc = "done", alg = "astar", ~CutOff
              PROVE  Length[path] < Nearest(end) + Cardinality(Vertex)
  BY DEF AlmostShortest
<1>1. Types /\ Weighted
  BY DEF WeightedIInv, SearchInv, Weighted
<1>3. /\ TourTo(path, end)
      /\ LengthOf[path] < INT_MAX
      /\ \A p : WalkFrom(p) /\ End(p) = end => LengthOf[path] <= LengthOf[p] + Slack(Len(p))
  BY <1>1 DEF WeightedIInv, Handed
<1>4. Length[path] = LengthOf[path] /\ LengthOf[path] \in Nat
  BY <1>3, TourIsPath, LengthIsNat DEF TourTo
<1>5. Cardinality(Vertex) \in Nat /\ INT_MAX \in Nat /\ Nearest(end) \in Nat
  BY <1>1, CostTypes, NearestIsLeast
<1>6. CASE Nearest(end) = INT_MAX
  BY <1>3, <1>4, <1>5, <1>6
<1>7. CASE Nearest(end) # INT_MAX
  <2>1. PICK p : TourTo(p, end) /\ Nearest(end) = LengthOf[p]
    BY <1>7, NearestIsLeast
  <2>2. WalkFrom(p) /\ End(p) = end
    BY <2>1, TourIsWalk
  <2>3. p \in Seq(Vertex) /\ p # <<>> /\ Len(p) <= Cardinality(Vertex)
    BY <2>1, TourIsPath DEF TourTo
  <2>4. Len(p) \in Nat
    BY <2>3, Ends
  <2>5. LengthOf[path] <= Nearest(end) + (Len(p) - 1)
    BY <1>3, <2>1, <2>2 DEF Slack
  <2>. QED  BY <1>4, <1>5, <2>3, <2>4, <2>5
<1>. QED  BY <1>6, <1>7

LEMMA SettledIsFinal == WeightedIInv => DoneIsFinal
<1>. SUFFICES ASSUME WeightedIInv, alg = "dijkstra", pc = "scan", ~CutOff, NEW v \in done
              PROVE  cost[v] = Nearest(v)
  BY DEF DoneIsFinal
<1>1. Types /\ Costs /\ Settled
  BY DEF WeightedIInv, SearchInv, Weighted, WeightedInv, ToScan
<1>2. v \in Vertex /\ cost[v] \in Int /\ cost[v] <= INT_MAX /\ INT_MAX \in Nat
  BY <1>1, CostTypes
<1>3. Known(v)
  BY <1>1 DEF Settled
<1>4. PICK p : TourTo(p, v) /\ LengthOf[p] <= cost[v]
  BY <1>1, <1>2, <1>3 DEF Costs, Reached
<1>5. LengthOf[p] \in Nat
  BY <1>4, TourIsPath, LengthIsNat DEF TourTo
<1>6. Nearest(v) <= LengthOf[p] /\ Nearest(v) \in Nat
  BY <1>4, NearestIsLeast
<1>7. Nearest(v) <= cost[v] /\ Nearest(v) # INT_MAX
  BY <1>2, <1>3, <1>4, <1>5, <1>6 DEF Known
<1>8. PICK q : TourTo(q, v) /\ Nearest(v) = LengthOf[q]
  BY <1>7, NearestIsLeast
<1>9. WalkFrom(q) /\ End(q) = v
  BY <1>8, TourIsWalk
<1>10. cost[v] <= LengthOf[q] + 0
  BY <1>1, <1>9 DEF Settled, Near, Slack
<1>. QED  BY <1>2, <1>6, <1>7, <1>8, <1>10

LEMMA WeightedPathIsReal == WeightedIInv => PathIsReal
<1>. SUFFICES ASSUME WeightedIInv, pc = "done", path # <<>>, alg = "astar" => ~CutOff
              PROVE  path[1] = start /\ path[Len(path)] = end /\ IsWalk(path)
  BY DEF PathIsReal
<1>1. CASE alg # "astar"
  BY <1>1, RealOnAnyMap DEF WeightedIInv, PathIsReal
<1>2. CASE alg = "astar"
  BY <1>2 DEF WeightedIInv, Handed, Weighted, TourTo, End
<1>. QED  BY <1>1, <1>2

LEMMA WeightedNoPath == WeightedIInv => NoPathMeansCutOff
<1>. SUFFICES ASSUME WeightedIInv, pc = "done", path = <<>>, ~CutOff
              PROVE  FALSE
  BY DEF NoPathMeansCutOff
<1>1. alg = "dijkstra"
  BY NoPathOnAnyMap DEF WeightedIInv, NoPathMeansCutOff
<1>2. path \in Tour
  BY <1>1 DEF WeightedIInv, Handed, Weighted, TourTo
<1>. QED  BY <1>2, TourIsPath
-----------------------------------------------------------------------------
(* bfs finds the vertices ring by ring.                                    *)
Rings(s, roads) ==
  CHOOSE f : f = [n \in Nat |-> IF n = 0 THEN {s}
                                ELSE f[n - 1] \union UNION {Neighbours(roads, u) : u \in f[n - 1]}]

FirstAt(W, v, n) == v \in W[n] /\ \A m \in 0..n - 1 : v \notin W[m]

(* The rings around the start.                                             *)
Around(W) ==
  /\ W \in [Nat -> SUBSET Vertex]
  /\ W[0] = {start}
  /\ \A n \in Nat : W[n + 1] = W[n] \union UNION {Neighbours(edges, u) : u \in W[n]}

LEMMA WithinIsRings == Within = Rings(start, edges)
  BY DEF Within, Rings

LEMMA WithinIsKept == UNCHANGED call => Within' = Within
<1>1. (Within = Rings(start, edges))'
  BY WithinIsRings, PTL
<1>. SUFFICES ASSUME UNCHANGED call PROVE Within' = Within
  OBVIOUS
<1>2. Within' = Rings(start', edges')
  BY <1>1
<1>3. start' = start /\ edges' = edges
  BY DEF call
<1>. QED  BY <1>2, <1>3, WithinIsRings

LEMMA WithinIsAround == start \in Vertex => Around(Within)
<1>. SUFFICES ASSUME start \in Vertex PROVE Around(Within)
  OBVIOUS
<1>. DEFINE T == SUBSET Vertex
            Next(t) == t \union UNION {Neighbours(edges, u) : u \in t}
            rank == [n \in Nat |-> n]
            prev == [n \in Nat |-> IF n = 0 THEN 0 ELSE n - 1]
            base == [n \in Nat |-> {start}]
            step == [n \in Nat |-> [t \in T |-> Next(t)]]
<1>1. ASSUME NEW t \in T PROVE Next(t) \in T
  BY DEF Neighbours
<1>2. {start} \in T
  OBVIOUS
<1>3. PICK f : Solves(f, Nat, T, rank, prev, base, step)
  <2>1. Recursive(Nat, T, rank, prev, base, step)
    <3>. HIDE DEF T, Next
    <3>. QED  BY <1>1, <1>2 DEF Recursive
  <2>. HIDE DEF T, rank, prev, base, step
  <2>. QED  BY <2>1, Recursion
<1>4. f \in [Nat -> T]
  BY <1>3 DEF Solves
<1>5. ASSUME NEW n \in Nat PROVE f[n] = IF n = 0 THEN {start} ELSE Next(f[n - 1])
  <2>1. f[n] = IF rank[n] = 0 THEN base[n] ELSE step[n][f[prev[n]]]
    BY <1>3 DEF Solves
  <2>. HIDE DEF T, Next
  <2>2. CASE n = 0
    BY <2>1, <2>2
  <2>3. CASE n # 0
    <3>1. n - 1 \in Nat /\ f[n - 1] \in T
      BY <1>4, <2>3
    <3>. QED  BY <2>1, <2>3, <3>1
  <2>. QED  BY <2>2, <2>3
<1>6. f = [n \in Nat |-> IF n = 0 THEN {start} ELSE Next(f[n - 1])]
  <2>. HIDE DEF T, Next
  <2>. QED  BY <1>4, <1>5
<1>7. Within = [n \in Nat |-> IF n = 0 THEN {start} ELSE Next(Within[n - 1])]
  BY <1>6 DEF Within
<1>8. \A n \in Nat : Within[n] = IF n = 0 THEN {start} ELSE Next(Within[n - 1])
  <2>. HIDE DEF Next
  <2>. QED  BY <1>7
<1>9. Within[0] = {start}
  BY <1>8
<1>10. ASSUME NEW n \in Nat PROVE Within[n + 1] = Next(Within[n])
  <2>1. n + 1 \in Nat /\ n + 1 # 0 /\ (n + 1) - 1 = n
    OBVIOUS
  <2>. HIDE DEF Next
  <2>2. Within[n + 1] = Next(Within[(n + 1) - 1])
    BY <1>8, <2>1
  <2>. QED  BY <2>1, <2>2
<1>. DEFINE P == {n \in Nat : Within[n] \in T}
<1>11. ASSUME NEW n \in Nat, \A m \in Nat : rank[m] < rank[n] => m \in P
       PROVE  n \in P
  <2>. HIDE DEF T, Next
  <2>1. CASE n = 0
    BY <1>2, <1>9, <2>1
  <2>2. CASE n # 0
    <3>1. n - 1 \in Nat /\ n - 1 < n
      BY <2>2
    <3>2. Within[n - 1] \in T
      BY <1>11, <3>1
    <3>. QED  BY <1>1, <1>8, <2>2, <3>2
  <2>. QED  BY <2>1, <2>2
<1>12. Nat \subseteq P
  <2>1. rank \in [Nat -> Nat]
    OBVIOUS
  <2>. HIDE DEF rank, P
  <2>. QED  BY <1>11, <2>1, Descent
<1>13. Within \in [Nat -> SUBSET Vertex]
  <2>. DEFINE h(n) == IF n = 0 THEN {start} ELSE Next(Within[n - 1])
  <2>1. Within = [n \in Nat |-> h(n)]
    BY <1>7
  <2>2. \A n \in Nat : Within[n] \in T
    BY <1>12
  <2>. HIDE DEF h, Next
  <2>. QED  BY <2>1, <2>2
<1>. QED  BY <1>9, <1>10, <1>13 DEF Around

LEMMA RingsGrow ==
  ASSUME NEW W, Around(W), NEW n \in Nat
  PROVE  \A m \in 0..n : W[m] \subseteq W[n]
<1>. DEFINE P == {k \in Nat : \A m \in 0..k : W[m] \subseteq W[k]}
            rank == [k \in Nat |-> k]
<1>1. \A k \in Nat : W[k] \subseteq W[k + 1]
  BY DEF Around
<1>2. ASSUME NEW k \in Nat, \A j \in Nat : rank[j] < rank[k] => j \in P
      PROVE  k \in P
  <2>1. CASE k = 0
    BY <2>1
  <2>2. CASE k # 0
    <3>1. k - 1 \in Nat /\ k - 1 < k /\ (k - 1) + 1 = k
      BY <2>2
    <3>2. k - 1 \in P
      BY <1>2, <3>1
    <3>3. W[k - 1] \subseteq W[k]
      BY <1>1, <3>1
    <3>4. ASSUME NEW m \in 0..k PROVE W[m] \subseteq W[k]
      <4>1. CASE m = k
        BY <4>1
      <4>2. CASE m # k
        <5>1. m \in 0..k - 1
          BY <3>4, <4>2
        <5>. QED  BY <3>2, <3>3, <5>1
      <4>. QED  BY <4>1, <4>2
    <3>. QED  BY <3>4
  <2>. QED  BY <2>1, <2>2
<1>3. Nat \subseteq P
  <2>1. rank \in [Nat -> Nat]
    OBVIOUS
  <2>. HIDE DEF rank, P
  <2>. QED  BY <1>2, <2>1, Descent
<1>. QED  BY <1>3

LEMMA FirstOnce ==
  ASSUME NEW W, NEW v, NEW n \in Nat, NEW m \in Nat, FirstAt(W, v, n), FirstAt(W, v, m)
  PROVE  n = m
<1>1. ~(n < m) /\ ~(m < n)
  BY DEF FirstAt
<1>. QED  BY <1>1

LEMMA StartIsFirst ==
  ASSUME NEW W, Around(W)
  PROVE  FirstAt(W, start, 0)
  BY DEF Around, FirstAt

LEMMA NextRing ==
  ASSUME NEW W, Around(W), NEW k \in Nat, NEW u, FirstAt(W, u, k),
         NEW v \in Neighbours(edges, u), v \notin W[k]
  PROVE  FirstAt(W, v, k + 1)
<1>1. v \in W[k + 1]
  BY DEF Around, FirstAt
<1>2. ASSUME NEW m \in 0..(k + 1) - 1 PROVE v \notin W[m]
  <2>1. W[m] \subseteq W[k]
    BY RingsGrow
  <2>. QED  BY <2>1
<1>. QED  BY <1>1, <1>2 DEF FirstAt
-----------------------------------------------------------------------------
(* Each vertex seen is one ring further out than its predecessor.          *)
Tree(W) ==
  /\ start \in seen
  /\ pred[start] = Root
  /\ \A v \in seen \ {start} :
       /\ pred[v] \in seen
       /\ \E n \in Nat : FirstAt(W, v, n + 1) /\ FirstAt(W, pred[v], n)

(* The list holds the rest of a ring, then some of the next one.           *)
InOrder(W, q, k) ==
  \E m \in 0..Len(q) :
    /\ \A i \in 1..m : FirstAt(W, q[i], k)
    /\ \A i \in m + 1..Len(q) : FirstAt(W, q[i], k + 1)

Front(W, k) ==
  /\ FirstAt(W, curr, k)
  /\ W[k] \subseteq seen
  /\ seen \subseteq W[k + 1]
  /\ InOrder(W, queue, k)

(* The way back: each step lies one ring further out than the next one.    *)
Back(W) ==
  /\ curr \in seen
  /\ \E n \in Nat :
       /\ FirstAt(W, curr, n)
       /\ FirstAt(W, end, n + Len(path))
       /\ \A i \in 1..Len(path) : FirstAt(W, path[i], n + i)

RingInv ==
  alg = "bfs" /\ pc \in {"scan", "retrace"} =>
    /\ Tree(Within)
    /\ pc = "scan" /\ curr # None => \E k \in Nat : Front(Within, k)
    /\ pc = "retrace" => Back(Within)

LEMMA InOrderGrows ==
  ASSUME NEW W, NEW k \in Nat, NEW q \in Seq(Vertex), NEW v \in Vertex,
         InOrder(W, q, k), FirstAt(W, v, k + 1)
  PROVE  InOrder(W, Append(q, v), k)
<1>1. /\ Len(q) \in Nat
      /\ Len(Append(q, v)) = Len(q) + 1
      /\ \A i \in 1..Len(q) : Append(q, v)[i] = q[i]
      /\ Append(q, v)[Len(q) + 1] = v
  OBVIOUS
<1>. DEFINE r == Append(q, v)
<1>2. PICK m \in 0..Len(q) : /\ \A i \in 1..m : FirstAt(W, q[i], k)
                             /\ \A i \in m + 1..Len(q) : FirstAt(W, q[i], k + 1)
  BY DEF InOrder
<1>. HIDE DEF r
<1>3. ASSUME NEW i \in 1..m PROVE FirstAt(W, r[i], k)
  <2>1. i \in 1..Len(q)
    BY <1>1
  <2>. QED  BY <1>1, <1>2, <2>1 DEF r
<1>4. ASSUME NEW i \in m + 1..Len(r) PROVE FirstAt(W, r[i], k + 1)
  <2>1. CASE i = Len(q) + 1
    BY <1>1, <2>1 DEF r
  <2>2. CASE i # Len(q) + 1
    <3>1. i \in m + 1..Len(q) /\ i \in 1..Len(q)
      BY <1>1, <2>2 DEF r
    <3>. QED  BY <1>1, <1>2, <3>1 DEF r
  <2>. QED  BY <2>1, <2>2
<1>5. m \in 0..Len(r)
  BY <1>1 DEF r
<1>6. InOrder(W, r, k)
  BY <1>3, <1>4, <1>5 DEF InOrder
<1>. QED  BY <1>6 DEF r

(* What comes to the head of the list.                                     *)
LEMMA InOrderShrinks ==
  ASSUME NEW W, NEW k \in Nat, NEW q \in Seq(Vertex), q # <<>>, InOrder(W, q, k)
  PROVE  \/ FirstAt(W, Head(q), k) /\ InOrder(W, Tail(q), k)
         \/ /\ FirstAt(W, Head(q), k + 1) /\ InOrder(W, Tail(q), k + 1)
            /\ \A i \in 1..Len(q) : FirstAt(W, q[i], k + 1)
<1>1. /\ Len(q) \in Nat \ {0}
      /\ Len(Tail(q)) = Len(q) - 1
      /\ \A i \in 1..Len(q) - 1 : Tail(q)[i] = q[i + 1]
      /\ Head(q) = q[1]
  OBVIOUS
<1>. DEFINE r == Tail(q)
<1>2. PICK m \in 0..Len(q) : /\ \A i \in 1..m : FirstAt(W, q[i], k)
                             /\ \A i \in m + 1..Len(q) : FirstAt(W, q[i], k + 1)
  BY DEF InOrder
<1>. HIDE DEF r
<1>3. CASE m = 0
  <2>1. \A i \in 1..Len(q) : FirstAt(W, q[i], k + 1)
    BY <1>2, <1>3
  <2>2. Len(r) \in Nat /\ Len(r) \in 0..Len(r)
    BY <1>1 DEF r
  <2>3. ASSUME NEW i \in 1..Len(r) PROVE FirstAt(W, r[i], k + 1)
    <3>1. i \in 1..Len(q) - 1 /\ i + 1 \in 1..Len(q)
      BY <1>1 DEF r
    <3>. QED  BY <1>1, <2>1, <3>1 DEF r
  <2>4. Len(r) + 1..Len(r) = {}
    BY <2>2
  <2>5. InOrder(W, r, k + 1)
    BY <2>2, <2>3, <2>4 DEF InOrder
  <2>6. FirstAt(W, Head(q), k + 1)
    <3>1. 1 \in 1..Len(q)
      BY <1>1
    <3>. QED  BY <1>1, <2>1, <3>1
  <2>. QED  BY <2>1, <2>5, <2>6 DEF r
<1>4. CASE m # 0
  <2>1. m - 1 \in 0..Len(r) /\ 1 \in 1..m
    BY <1>1, <1>4 DEF r
  <2>2. FirstAt(W, Head(q), k)
    BY <1>1, <1>2, <2>1
  <2>3. ASSUME NEW i \in 1..m - 1 PROVE FirstAt(W, r[i], k)
    <3>1. i \in 1..Len(q) - 1 /\ i + 1 \in 1..m
      BY <1>1
    <3>. QED  BY <1>1, <1>2, <3>1 DEF r
  <2>4. ASSUME NEW i \in (m - 1) + 1..Len(r) PROVE FirstAt(W, r[i], k + 1)
    <3>1. i \in 1..Len(q) - 1 /\ i + 1 \in m + 1..Len(q)
      BY <1>1, <1>4 DEF r
    <3>. QED  BY <1>1, <1>2, <3>1 DEF r
  <2>5. InOrder(W, r, k)
    BY <2>1, <2>3, <2>4 DEF InOrder
  <2>. QED  BY <2>2, <2>5 DEF r
<1>. QED  BY <1>3, <1>4

(* The next ring is seen when the list holds nothing but it.               *)
LEMMA RingIsSeen ==
  ASSUME NEW W, Around(W), NEW k \in Nat, Listed, alg = "bfs", pc = "scan",
         W[k] \subseteq seen, BfsFresh = {},
         \A i \in 1..Len(queue) : FirstAt(W, queue[i], k + 1)
  PROVE  W[k + 1] \subseteq seen
<1>. SUFFICES ASSUME NEW w \in W[k + 1], w \notin W[k] PROVE w \in seen
  OBVIOUS
<1>1. PICK u \in W[k] : w \in Neighbours(edges, u)
  BY DEF Around
<1>2. u \in seen
  BY <1>1
<1>3. CASE u = curr
  BY <1>1, <1>3 DEF BfsFresh
<1>4. CASE In(u, queue)
  <2>1. FirstAt(W, u, k + 1)
    BY <1>4 DEF In
  <2>2. k \in 0..(k + 1) - 1
    OBVIOUS
  <2>. QED  BY <1>1, <2>1, <2>2 DEF FirstAt
<1>5. CASE Passed(u)
  BY <1>1, <1>5 DEF Passed
<1>. QED  BY <1>2, <1>3, <1>4, <1>5 DEF Listed

LEMMA FrontFinds ==
  ASSUME Types, NEW W, Around(W), NEW k \in Nat, Front(W, k), Tree(W), curr \in seen, BfsFind
  PROVE  Front(W, k)' /\ Tree(W)'
<1>1. PICK v \in BfsFresh :
        /\ seen' = seen \union {v}
        /\ queue' = Append(queue, v)
        /\ pred' = [pred EXCEPT ![v] = curr]
  BY DEF BfsFind
<1>2. /\ v \in Neighbours(edges, curr) /\ v \in Vertex /\ v \notin seen
      /\ queue \in Seq(Vertex)
      /\ pred \in [Vertex -> Vertex \union {Root, Unset}]
      /\ seen \subseteq Vertex
      /\ curr' = curr /\ start' = start
  BY <1>1 DEF BfsFresh, Neighbours, Types, TypeOK, BfsFind, call
<1>3. FirstAt(W, curr, k) /\ v \notin W[k]
  BY <1>2 DEF Front
<1>4. FirstAt(W, v, k + 1)
  BY <1>2, <1>3, NextRing
<1>5. InOrder(W, queue', k)
  BY <1>1, <1>2, <1>4, InOrderGrows DEF Front
<1>6. Front(W, k)'
  BY <1>1, <1>2, <1>4, <1>5 DEF Front, FirstAt
<1>7. pred'[v] = curr /\ \A w \in Vertex : w # v => pred'[w] = pred[w]
  BY <1>1, <1>2
<1>8. Tree(W)'
  <2>1. start \in seen' /\ pred'[start] = Root
    BY <1>1, <1>2, <1>7 DEF Tree
  <2>2. ASSUME NEW w \in seen' \ {start}
        PROVE  /\ pred'[w] \in seen'
               /\ \E n \in Nat : FirstAt(W, w, n + 1) /\ FirstAt(W, pred'[w], n)
    <3>1. CASE w = v
      BY <1>1, <1>3, <1>4, <1>7, <3>1
    <3>2. CASE w # v
      BY <1>1, <1>2, <1>7, <2>2, <3>2 DEF Tree
    <3>. QED  BY <3>1, <3>2
  <2>. QED  BY <1>2, <2>1, <2>2 DEF Tree
<1>. QED  BY <1>6, <1>8

LEMMA FrontMovesOn ==
  ASSUME Types, Listed, NEW W, Around(W), NEW k \in Nat, Front(W, k), BfsMoveOn, curr' # None
  PROVE  \E n \in Nat : Front(W, n)'
<1>1. /\ alg = "bfs" /\ pc = "scan" /\ BfsFresh = {} /\ seen' = seen
      /\ queue # <<>> /\ curr' = Head(queue) /\ queue' = Tail(queue)
      /\ queue \in Seq(Vertex)
  BY DEF BfsMoveOn, Types, TypeOK
<1>2. W[k] \subseteq seen /\ seen \subseteq W[k + 1] /\ InOrder(W, queue, k)
  BY DEF Front
<1>3. CASE FirstAt(W, Head(queue), k) /\ InOrder(W, Tail(queue), k)
  BY <1>1, <1>2, <1>3 DEF Front
<1>4. CASE /\ FirstAt(W, Head(queue), k + 1) /\ InOrder(W, Tail(queue), k + 1)
           /\ \A i \in 1..Len(queue) : FirstAt(W, queue[i], k + 1)
  <2>1. W[k + 1] \subseteq seen
    BY <1>1, <1>2, <1>4, RingIsSeen
  <2>2. k + 1 \in Nat
    OBVIOUS
  <2>3. W[k + 1] \subseteq W[(k + 1) + 1]
    BY <2>2 DEF Around
  <2>. QED  BY <1>1, <1>2, <1>4, <2>1, <2>2, <2>3 DEF Front
<1>. QED  BY <1>1, <1>2, <1>3, <1>4, InOrderShrinks

LEMMA BackGoesOn ==
  ASSUME Types, Preds, alg = "bfs", NEW W, Tree(W), Back(W), Retrace, pc' = "retrace"
  PROVE  Back(W)'
<1>1. /\ path' = <<curr>> \o path
      /\ curr' = pred[curr] /\ pred[curr] # Root
      /\ seen' = seen /\ end' = end
  BY DEF Retrace, Stray, Return, call
<1>2. PICK n \in Nat : /\ FirstAt(W, curr, n)
                      /\ FirstAt(W, end, n + Len(path))
                      /\ \A i \in 1..Len(path) : FirstAt(W, path[i], n + i)
  BY DEF Back
<1>3. curr \in seen \ {start}
  BY <1>1 DEF Back, Tree
<1>4. PICK m \in Nat : FirstAt(W, curr, m + 1) /\ FirstAt(W, pred[curr], m)
  BY <1>3 DEF Tree
<1>5. n = m + 1
  BY <1>2, <1>4, FirstOnce
<1>6. /\ Len(path') = Len(path) + 1 /\ Len(path) \in Nat
      /\ path'[1] = curr
      /\ \A i \in 1..Len(path) : path'[i + 1] = path[i]
  <2>1. path \in Seq(Vertex) /\ curr \in Vertex
    BY <1>3 DEF Types, TypeOK
  <2>. QED  BY <1>1, <2>1
<1>7. n + Len(path) = m + Len(path')
  BY <1>5, <1>6
<1>8. FirstAt(W, end', m + Len(path'))
  BY <1>1, <1>2, <1>7
<1>9. curr' \in seen'
  BY <1>1, <1>3 DEF Tree
<1>10. ASSUME NEW i \in 1..Len(path') PROVE FirstAt(W, path'[i], m + i)
  <2>1. CASE i = 1
    BY <1>4, <1>6, <2>1
  <2>2. CASE i # 1
    <3>1. i - 1 \in 1..Len(path) /\ (i - 1) + 1 = i /\ n + (i - 1) = m + i
      BY <1>5, <1>6, <2>2
    <3>2. FirstAt(W, path[i - 1], n + (i - 1)) /\ path'[i] = path[i - 1]
      BY <1>2, <1>6, <3>1
    <3>. QED  BY <3>1, <3>2
  <2>. QED  BY <2>1, <2>2
<1>. QED  BY <1>1, <1>4, <1>8, <1>9, <1>10 DEF Back

LEMMA BackArrives ==
  ASSUME Types, Preds, alg = "bfs", NEW W, Around(W), Back(W), Retrace, pc' = "done"
  PROVE  Len(path') > 1 => end \notin W[Len(path') - 2]
<1>1. path' = <<curr>> \o path /\ pred[curr] = Root
  BY DEF Retrace, Stray, Return
<1>2. PICK n \in Nat : FirstAt(W, curr, n) /\ FirstAt(W, end, n + Len(path))
  BY DEF Back
<1>3. curr \in seen /\ curr \in Vertex
  BY DEF Back, Types, TypeOK
<1>4. curr = start
  BY <1>1, <1>3 DEF Preds
<1>5. n = 0
  BY <1>2, <1>4, StartIsFirst, FirstOnce
<1>6. Len(path') = Len(path) + 1 /\ Len(path) \in Nat
  <2>1. path \in Seq(Vertex)
    BY DEF Types, TypeOK
  <2>. QED  BY <1>1, <1>3, <2>1
<1>7. ASSUME Len(path') > 1 PROVE end \notin W[Len(path') - 2]
  <2>1. Len(path') - 2 \in 0..(n + Len(path)) - 1
    BY <1>5, <1>6, <1>7
  <2>. QED  BY <1>2, <2>1 DEF FirstAt
<1>. QED  BY <1>7

LEMMA RingStep ==
  SearchInv /\ Begun /\ RingInv /\ [PathToPointId]_vars => RingInv'
<1>. SUFFICES ASSUME SearchInv, Begun, RingInv, [PathToPointId]_vars,
                     alg' = "bfs", pc' \in {"scan", "retrace"}
              PROVE  /\ Tree(Within)'
                     /\ pc' = "scan" /\ curr' # None => \E k \in Nat : Front(Within, k)'
                     /\ pc' = "retrace" => Back(Within)'
  BY DEF RingInv
<1>. USE DEF SearchInv
<1>1. UNCHANGED call /\ start \in Vertex
  BY CallKept DEF Types
<1>2. alg = "bfs" /\ start' = start /\ end' = end
  BY <1>1 DEF call
<1>3. PICK W : W = Within
  OBVIOUS
<1>4. Within' = W /\ Around(W)
  BY <1>1, <1>3, WithinIsKept, WithinIsAround
<1>. SUFFICES /\ Tree(W)'
              /\ pc' = "scan" /\ curr' # None => \E k \in Nat : Front(W, k)'
              /\ pc' = "retrace" => Back(W)'
  <2>1. Tree(W)' => Tree(Within)'
    BY <1>4 DEF Tree, FirstAt
  <2>2. \A k \in Nat : Front(W, k)' => Front(Within, k)'
    BY <1>4 DEF Front, InOrder, FirstAt
  <2>3. Back(W)' => Back(Within)'
    BY <1>4 DEF Back, FirstAt
  <2>. QED  BY <2>1, <2>2, <2>3
<1>5. pc \in {"scan", "retrace"} =>
        /\ Tree(W)
        /\ pc = "scan" /\ curr # None => \E k \in Nat : Front(W, k)
        /\ pc = "retrace" => Back(W)
  BY <1>2, <1>3 DEF RingInv
<1>6. CASE BfsStart
  <2>1. /\ pc = "call" /\ pc' = "scan" /\ curr' = start /\ seen' = {start}
        /\ pred' = [pred EXCEPT ![start] = Root] /\ queue' = queue /\ queue = <<>>
    BY <1>6 DEF BfsStart, Begun, Fresh
  <2>2. pred'[start] = Root
    BY <1>1, <2>1 DEF Types, TypeOK
  <2>3. FirstAt(W, start, 0)
    BY <1>4, StartIsFirst
  <2>4. W[0] = {start} /\ W[0] \subseteq W[0 + 1] /\ 0 \in Nat
    BY <1>4 DEF Around
  <2>5. InOrder(W, queue', 0)
    BY <2>1 DEF InOrder
  <2>6. Front(W, 0)'
    BY <2>1, <2>3, <2>4, <2>5 DEF Front
  <2>7. Tree(W)'
    BY <1>2, <2>1, <2>2 DEF Tree
  <2>. QED  BY <2>1, <2>4, <2>6, <2>7
<1>7. CASE BfsFind
  <2>1. pc = "scan" /\ curr # None /\ pc' = "scan"
    BY <1>7 DEF BfsFind
  <2>2. PICK k \in Nat : Front(W, k)
    BY <1>5, <2>1
  <2>3. Tree(W) /\ curr \in seen
    BY <1>2, <1>5, <2>1 DEF Listed
  <2>4. Front(W, k)' /\ Tree(W)'
    BY <1>4, <1>7, <2>2, <2>3, FrontFinds
  <2>. QED  BY <2>1, <2>4
<1>8. CASE BfsMoveOn
  <2>1. /\ pc = "scan" /\ curr # None /\ pc' = "scan"
        /\ UNCHANGED <<seen, pred>>
    BY <1>8 DEF BfsMoveOn
  <2>2. PICK k \in Nat : Front(W, k)
    BY <1>5, <2>1
  <2>3. Tree(W)'
    BY <1>2, <1>5, <2>1 DEF Tree
  <2>4. curr' # None => \E n \in Nat : Front(W, n)'
    BY <1>4, <1>8, <2>2, FrontMovesOn
  <2>. QED  BY <2>1, <2>3, <2>4
<1>9. CASE BfsFound
  <2>1. /\ pc = "scan" /\ curr = end /\ pc' = "retrace" /\ UNCHANGED <<path, locals>>
        /\ curr # None
    BY <1>1, <1>9, Vertices DEF BfsFound, Types
  <2>2. PICK k \in Nat : FirstAt(W, curr, k)
    BY <1>5, <2>1 DEF Front
  <2>3. curr \in seen /\ path = <<>>
    BY <1>2, <2>1 DEF Listed, Tracing
  <2>4. k + Len(path) = k /\ 1..Len(path) = {}
    BY <2>3
  <2>5. Tree(W)' /\ Back(W)'
    BY <1>2, <1>5, <2>1, <2>2, <2>3, <2>4 DEF Tree, Back, locals
  <2>. QED  BY <2>1, <2>5
<1>10. CASE Retrace
  <2>1. pc = "retrace" /\ pc' = "retrace" /\ UNCHANGED <<seen, pred>>
    BY <1>10 DEF Retrace, Stray, Return
  <2>2. Back(W)'
    BY <1>2, <1>5, <1>10, <2>1, BackGoesOn
  <2>3. Tree(W)'
    BY <1>2, <1>5, <2>1 DEF Tree
  <2>. QED  BY <2>1, <2>2, <2>3
<1>11. CASE UNCHANGED vars
  <2>1. UNCHANGED <<seen, pred, pc, curr, queue, path>>
    BY <1>11 DEF vars, locals
  <2>. QED  BY <1>2, <1>5, <2>1 DEF Tree, Front, Back
<1>12. CASE StartsAtEnd \/ BfsNoPath
  BY <1>12 DEF StartsAtEnd, BfsNoPath, Return
<1>13. CASE Dfs \/ Dijkstra \/ Astar
  BY <1>2, <1>13 DEF Dfs, DfsStart, DfsDown, DfsBack, DfsGoesOn, DfsNoPath, DfsCopy,
     Dijkstra, DijkstraStart, DijkstraScan, DijkstraNoPath, DijkstraFound,
     Astar, AstarStart, AstarScan
<1>. QED  BY <1>6, <1>7, <1>8, <1>9, <1>10, <1>11, <1>12, <1>13 DEF PathToPointId, Bfs

LEMMA FewestStep ==
  SearchInv /\ RingInv /\ FewestRoads /\ [PathToPointId]_vars => FewestRoads'
<1>. SUFFICES ASSUME SearchInv, RingInv, FewestRoads, [PathToPointId]_vars,
                     pc' = "done", alg' = "bfs", Len(path') > 1
              PROVE  end' \notin Within'[Len(path') - 2]
  BY DEF FewestRoads
<1>. USE DEF SearchInv
<1>1. UNCHANGED call /\ start \in Vertex
  BY CallKept DEF Types
<1>2. alg = "bfs" /\ start' = start /\ end' = end
  BY <1>1 DEF call
<1>3. Within' = Within /\ Around(Within)
  BY <1>1, WithinIsKept, WithinIsAround
<1>. SUFFICES end \notin Within[Len(path') - 2]
  BY <1>2, <1>3
<1>4. CASE Retrace
  <2>1. pc = "retrace"
    BY <1>4 DEF Retrace
  <2>2. PICK W : W = Within
    OBVIOUS
  <2>3. Back(W) /\ Around(W)
    BY <1>2, <1>3, <2>1, <2>2 DEF RingInv
  <2>4. end \notin W[Len(path') - 2]
    BY <1>2, <1>4, <2>3, BackArrives
  <2>. QED  BY <2>2, <2>4
<1>5. CASE StartsAtEnd \/ BfsNoPath
  <2>1. path' = <<start>> \/ path' = <<>>
    BY <1>5 DEF StartsAtEnd, BfsNoPath, Return
  <2>2. Len(<<start>>) = 1 /\ Len(<<>>) = 0
    OBVIOUS
  <2>3. Len(path') = 1 \/ Len(path') = 0
    BY <2>1, <2>2
  <2>4. \A n : n = 1 \/ n = 0 => ~(n > 1)
    OBVIOUS
  <2>. QED  BY <2>3, <2>4
<1>6. CASE UNCHANGED vars
  <2>1. pc = "done" /\ path' = path
    BY <1>6 DEF vars
  <2>. QED  BY <1>2, <2>1 DEF FewestRoads
<1>7. CASE BfsStart \/ BfsFind \/ BfsMoveOn \/ BfsFound
  BY <1>7 DEF BfsStart, BfsFind, BfsMoveOn, BfsFound
<1>8. CASE Dfs \/ Dijkstra \/ Astar
  BY <1>2, <1>8 DEF Dfs, DfsStart, DfsDown, DfsBack, DfsGoesOn, DfsNoPath, DfsCopy,
     Dijkstra, DijkstraStart, DijkstraScan, DijkstraNoPath, DijkstraFound,
     Astar, AstarStart, AstarScan
<1>. QED  BY <1>4, <1>5, <1>6, <1>7, <1>8 DEF PathToPointId, Bfs

RingIInv == WeightedIInv /\ RingInv /\ FewestRoads

LEMMA RingInvariant == Spec => []RingIInv
<1>1. Init => RingInv /\ FewestRoads
  BY DEF Init, Called, RingInv, FewestRoads
<1>2. WeightedIInv /\ RingInv /\ FewestRoads /\ [PathToPointId]_vars => RingInv' /\ FewestRoads'
  BY RingStep, FewestStep DEF WeightedIInv
<1>. QED  BY <1>1, <1>2, WeightedInvariant, PTL DEF Spec, RingIInv
-----------------------------------------------------------------------------
(* The way back fits: it comes by no vertex twice.                         *)
LEMMA WayFits ==
  ASSUME Types, curr \in Vertex, <<curr>> \o path \in Tour
  PROVE  Len(path) + 1 <= Cardinality(Vertex) /\ Len(path) \in Nat
<1>1. path \in Seq(Vertex)
  BY DEF Types, TypeOK
<1>2. Len(<<curr>> \o path) = Len(path) + 1 /\ Len(path) \in Nat
  BY <1>1
<1>3. Len(<<curr>> \o path) <= Cardinality(Vertex)
  BY TourIsPath
<1>. QED  BY <1>2, <1>3

LEMMA WeightedWayFits ==
  ASSUME Types, Costs, Way
  PROVE  curr \in Vertex /\ <<curr>> \o path \in Tour
<1>1. /\ <<curr>> \o path \in Seq(Vertex) /\ <<curr>> \o path # <<>>
      /\ Climbs(<<curr>> \o path)
  BY WayOn
<1>. QED  BY <1>1, ClimbsIsTour DEF Way

LEMMA BfsWayFits ==
  ASSUME Types, NEW W, Back(W)
  PROVE  curr \in Vertex /\ <<curr>> \o path \in Tour
<1>. DEFINE p == <<curr>> \o path
<1>1. PICK n \in Nat : /\ FirstAt(W, curr, n)
                      /\ \A i \in 1..Len(path) : FirstAt(W, path[i], n + i)
  BY DEF Back
<1>2. curr \in Vertex /\ path \in Seq(Vertex)
  BY DEF Back, Types, TypeOK
<1>3. /\ p \in Seq(Vertex) /\ p # <<>> /\ Len(p) = Len(path) + 1 /\ Len(path) \in Nat
      /\ p[1] = curr
      /\ \A i \in 1..Len(path) : p[i + 1] = path[i]
  BY <1>2
<1>. HIDE DEF p
<1>4. ASSUME NEW i \in 1..Len(p) PROVE FirstAt(W, p[i], n + i - 1) /\ n + i - 1 \in Nat
  <2>1. CASE i = 1
    BY <1>1, <1>3, <2>1
  <2>2. CASE i # 1
    <3>1. i - 1 \in 1..Len(path) /\ (i - 1) + 1 = i /\ n + (i - 1) = n + i - 1
      BY <1>3, <2>2
    <3>2. FirstAt(W, path[i - 1], n + (i - 1)) /\ p[i] = path[i - 1]
      BY <1>1, <1>3, <3>1
    <3>. QED  BY <3>1, <3>2
  <2>. QED  BY <2>1, <2>2
<1>5. ASSUME NEW i \in 1..Len(p), NEW j \in 1..Len(p), p[i] = p[j] PROVE i = j
  <2>1. n + i - 1 = n + j - 1
    BY <1>4, <1>5, FirstOnce
  <2>2. i \in Int /\ j \in Int
    BY <1>3
  <2>. QED  BY <2>1, <2>2
<1>6. p \in Tour
  BY <1>3, <1>5, NoTurnIsTour
<1>. QED  BY <1>2, <1>6 DEF p

LEMMA RetraceStays ==
  RingIInv /\ Answerable /\ pc = "retrace" =>
    /\ curr \in Vertex
    /\ Len(path) \in Nat /\ Len(path) + 1 <= Cardinality(Vertex)
<1>. SUFFICES ASSUME RingIInv, Answerable, pc = "retrace"
              PROVE  curr \in Vertex /\ <<curr>> \o path \in Tour
  BY WayFits DEF RingIInv, WeightedIInv, SearchInv
<1>1. Types /\ alg \in {"bfs", "dijkstra", "astar"}
  BY DEF RingIInv, WeightedIInv, SearchInv, Tracing
<1>2. CASE alg = "bfs"
  <2>1. Back(Within)
    BY <1>2 DEF RingIInv, RingInv
  <2>2. PICK W : W = Within
    OBVIOUS
  <2>. QED  BY <1>1, <2>1, <2>2, BfsWayFits
<1>3. CASE alg # "bfs"
  <2>1. Costs /\ Way
    BY <1>1, <1>3 DEF RingIInv, WeightedIInv, WeightedInv, Weighted, Answerable
  <2>. QED  BY <1>1, <2>1, WeightedWayFits
<1>. QED  BY <1>1, <1>2, <1>3
-----------------------------------------------------------------------------
(* What is left to scan.                                                   *)
Sum(n, s, d, q, t, h) == 2 * (n - s) + (n - d) + q + t + h

ScanLeft ==
  Sum(Cardinality(Vertex), Cardinality(seen), Cardinality(done), Len(queue), Len(trail),
      IF curr = None THEN 0 ELSE 1)


(* The sum in numbers, and how each turn makes it smaller.                 *)
LEMMA SumIsNat ==
  ASSUME NEW n \in Nat, NEW s \in Nat, NEW d \in Nat,
         NEW q \in Nat, NEW t \in Nat, NEW h \in 0..1, s <= n, d <= n
  PROVE  Sum(n, s, d, q, t, h) \in Nat
  BY DEF Sum

LEMMA SumAtFirst ==
  ASSUME NEW n \in Nat, NEW s \in Nat, NEW d \in Nat,
         NEW q \in Nat, NEW t \in Nat, NEW h \in 0..1, s <= n, d <= n, q = 0, t + h \in 0..1
  PROVE  Sum(n, s, d, q, t, h) <= 3 * n + 1
  BY DEF Sum

LEMMA SumFalls ==
  ASSUME NEW n \in Nat,
         NEW s \in Nat, NEW d \in Nat, NEW q \in Nat, NEW t \in Nat, NEW h \in 0..1,
         NEW s1 \in Nat, NEW d1 \in Nat, NEW q1 \in Nat, NEW t1 \in Nat, NEW h1 \in 0..1,
         \/ s1 = s + 1 /\ d1 = d /\ q1 + t1 = q + t + 1 /\ h1 = h
         \/ s1 = s /\ d1 = d /\ q1 = q /\ t1 = t /\ h = 1 /\ h1 = 0
         \/ s1 = s /\ d1 = d /\ q1 + t1 = q + t - 1 /\ (h1 = h \/ h = 1)
         \/ s1 = s /\ d1 = d + 1 /\ q1 = q /\ t1 = t /\ h = 1
  PROVE  Sum(n, s1, d1, q1, t1, h1) < Sum(n, s, d, q, t, h)
  BY DEF Sum

LEMMA LeftInScan ==
  Types =>
    /\ Cardinality(Vertex) \in Nat
    /\ Cardinality(seen) \in Nat /\ Cardinality(seen) <= Cardinality(Vertex)
    /\ Cardinality(done) \in Nat /\ Cardinality(done) <= Cardinality(Vertex)
    /\ Len(queue) \in Nat /\ Len(trail) \in Nat
    /\ ScanLeft \in Nat
    /\ pc = "scan" => TurnsLeft = Cardinality(Vertex) + 3 + ScanLeft
<1>. SUFFICES ASSUME Types PROVE
    /\ Cardinality(Vertex) \in Nat
    /\ Cardinality(seen) \in Nat /\ Cardinality(seen) <= Cardinality(Vertex)
    /\ Cardinality(done) \in Nat /\ Cardinality(done) <= Cardinality(Vertex)
    /\ Len(queue) \in Nat /\ Len(trail) \in Nat
    /\ ScanLeft \in Nat
    /\ pc = "scan" => TurnsLeft = Cardinality(Vertex) + 3 + ScanLeft
  OBVIOUS
<1>1. seen \in SUBSET Vertex /\ done \in SUBSET Vertex /\ queue \in Seq(Vertex) /\ trail \in Seq(Vertex)
  BY DEF Types, TypeOK
<1>2. /\ Cardinality(Vertex) \in Nat
      /\ Cardinality(seen) \in Nat /\ Cardinality(seen) <= Cardinality(Vertex)
      /\ Cardinality(done) \in Nat /\ Cardinality(done) <= Cardinality(Vertex)
  BY <1>1, Vertices, FS_Subset, FS_CardinalityType
<1>3. Len(queue) \in Nat /\ Len(trail) \in Nat
  BY <1>1
<1>. DEFINE here == IF curr = None THEN 0 ELSE 1
<1>4. here \in 0..1
  OBVIOUS
<1>5. ScanLeft = Sum(Cardinality(Vertex), Cardinality(seen), Cardinality(done), Len(queue), Len(trail), here)
  BY DEF ScanLeft
<1>6. pc = "scan" => TurnsLeft = Cardinality(Vertex) + 3 + ScanLeft
  BY DEF TurnsLeft, ScanLeft, Sum
<1>7. ScanLeft \in Nat
  <2>. HIDE DEF here
  <2>. QED  BY <1>2, <1>3, <1>4, <1>5, SumIsNat
<1>. QED  BY <1>2, <1>3, <1>6, <1>7

LEMMA LeftInScanThen ==
  Types' =>
    /\ Cardinality(Vertex) \in Nat
    /\ Cardinality(seen') \in Nat /\ Cardinality(seen') <= Cardinality(Vertex)
    /\ Cardinality(done') \in Nat /\ Cardinality(done') <= Cardinality(Vertex)
    /\ Len(queue') \in Nat /\ Len(trail') \in Nat
    /\ ScanLeft' \in Nat
    /\ pc' = "scan" => TurnsLeft' = Cardinality(Vertex) + 3 + ScanLeft'
<1>1. (Types =>
    /\ Cardinality(Vertex) \in Nat
    /\ Cardinality(seen) \in Nat /\ Cardinality(seen) <= Cardinality(Vertex)
    /\ Cardinality(done) \in Nat /\ Cardinality(done) <= Cardinality(Vertex)
    /\ Len(queue) \in Nat /\ Len(trail) \in Nat
    /\ ScanLeft \in Nat
    /\ pc = "scan" => TurnsLeft = Cardinality(Vertex) + 3 + ScanLeft)'
  BY LeftInScan, PTL
<1>. QED  BY <1>1

LEMMA ScanBegins ==
  ASSUME Types, Types', Begun,
         BfsStart \/ DfsStart \/ DijkstraStart \/ AstarStart
  PROVE  TurnsLeft' \in 0..TurnsLeft - 1
<1>. USE DEF BfsStart, DfsStart, DijkstraStart, AstarStart
<1>1. pc = "call" /\ pc' = "scan" /\ queue' = <<>> /\ queue = <<>> /\ trail = <<>> /\ curr = None
  BY DEF Begun, Fresh
<1>2. TurnsLeft = 4 * Cardinality(Vertex) + 5
  BY <1>1 DEF TurnsLeft
<1>3. /\ Cardinality(Vertex) \in Nat
      /\ Cardinality(seen') \in Nat /\ Cardinality(seen') <= Cardinality(Vertex)
      /\ Cardinality(done') \in Nat /\ Cardinality(done') <= Cardinality(Vertex)
      /\ ScanLeft' \in Nat
      /\ TurnsLeft' = Cardinality(Vertex) + 3 + ScanLeft'
  BY <1>1, LeftInScanThen
<1>. DEFINE here == IF curr' = None THEN 0 ELSE 1
<1>4. Len(trail') + here \in 0..1 /\ Len(queue') = 0 /\ Len(trail') \in Nat /\ here \in Nat
  <2>1. CASE DfsStart
    <3>1. trail' = <<start>> /\ curr' = None
      BY <1>1, <2>1
    <3>. QED  BY <1>1, <3>1
  <2>2. CASE ~DfsStart
    <3>1. trail' = <<>>
      BY <1>1, <2>2
    <3>. QED  BY <1>1, <3>1
  <2>. QED  BY <2>1, <2>2
<1>5. ScanLeft' = Sum(Cardinality(Vertex), Cardinality(seen'), Cardinality(done'), Len(queue'), Len(trail'), here)
  BY DEF ScanLeft
<1>6. ScanLeft' <= 3 * Cardinality(Vertex) + 1
  <2>1. here \in 0..1 /\ Len(queue') \in Nat
    BY <1>4
  <2>. HIDE DEF here
  <2>. QED  BY <1>3, <1>4, <1>5, <2>1, SumAtFirst
<1>. QED  BY <1>2, <1>3, <1>6

LEMMA SubSeqLen ==
  ASSUME NEW S, NEW s \in Seq(S), NEW m \in 0..Len(s)
  PROVE  Len(SubSeq(s, 1, m)) = m
OBVIOUS

LEMMA OneMore ==
  ASSUME NEW S, NEW v \in Vertex, S \subseteq Vertex, v \notin S
  PROVE  Cardinality(S \union {v}) = Cardinality(S) + 1 /\ Cardinality(S) \in Nat
<1>1. IsFiniteSet(S)
  BY Vertices, FS_Subset
<1>. QED  BY <1>1, FS_AddElement, FS_CardinalityType

(* A turn of a scan that goes on.                                          *)
LEMMA ScanComesCloser ==
  ASSUME RingIInv, Types', Answerable, pc = "scan", pc' = "scan",
         BfsFind \/ BfsMoveOn \/ DfsDown \/ DfsBack \/ DijkstraScan \/ AstarScan
  PROVE  ScanLeft' < ScanLeft
<1>0. Types /\ Types' /\ Tracing /\ Listed /\ Chained
  BY DEF RingIInv, WeightedIInv, SearchInv
<1>1. /\ Cardinality(Vertex) \in Nat
      /\ Cardinality(seen) \in Nat /\ Cardinality(done) \in Nat
      /\ Len(queue) \in Nat /\ Len(trail) \in Nat
      /\ Cardinality(seen') \in Nat /\ Cardinality(done') \in Nat
      /\ Len(queue') \in Nat /\ Len(trail') \in Nat
  BY <1>0, LeftInScan, LeftInScanThen
<1>. DEFINE here == IF curr = None THEN 0 ELSE 1
            then == IF curr' = None THEN 0 ELSE 1
<1>2. here \in 0..1 /\ then \in 0..1
  OBVIOUS
<1>3. /\ ScanLeft = Sum(Cardinality(Vertex), Cardinality(seen), Cardinality(done), Len(queue), Len(trail), here)
      /\ ScanLeft' = Sum(Cardinality(Vertex), Cardinality(seen'), Cardinality(done'), Len(queue'), Len(trail'), then)
  BY DEF ScanLeft
<1>. DEFINE Falls ==
       \/ /\ Cardinality(seen') = Cardinality(seen) + 1 /\ Cardinality(done') = Cardinality(done)
          /\ Len(queue') + Len(trail') = Len(queue) + Len(trail) + 1 /\ then = here
       \/ /\ Cardinality(seen') = Cardinality(seen) /\ Cardinality(done') = Cardinality(done)
          /\ Len(queue') = Len(queue) /\ Len(trail') = Len(trail) /\ here = 1 /\ then = 0
       \/ /\ Cardinality(seen') = Cardinality(seen) /\ Cardinality(done') = Cardinality(done)
          /\ Len(queue') + Len(trail') = Len(queue) + Len(trail) - 1 /\ (then = here \/ here = 1)
       \/ /\ Cardinality(seen') = Cardinality(seen)
          /\ Cardinality(done') = Cardinality(done) + 1
          /\ Len(queue') = Len(queue) /\ Len(trail') = Len(trail) /\ here = 1
<1>. SUFFICES Falls
  <2>. HIDE DEF here, then
  <2>. QED  BY <1>1, <1>2, <1>3, SumFalls
<1>4. /\ seen \subseteq Vertex /\ done \subseteq Vertex
      /\ queue \in Seq(Vertex) /\ trail \in Seq(Vertex)
  BY <1>0 DEF Types, TypeOK
<1>5. CASE BfsFind
  <2>1. PICK v \in BfsFresh : seen' = seen \union {v} /\ queue' = Append(queue, v)
    BY <1>5 DEF BfsFind
  <2>2. v \in Vertex /\ v \notin seen
    BY <2>1 DEF BfsFresh, Neighbours
  <2>3. Cardinality(seen') = Cardinality(seen) + 1
    BY <1>4, <2>1, <2>2, OneMore
  <2>4. Len(queue') = Len(queue) + 1
    BY <1>4, <2>1, <2>2
  <2>5. done' = done /\ trail' = trail /\ then = here
    BY <1>5 DEF BfsFind
  <2>. HIDE DEF here, then
  <2>. QED  BY <1>1, <2>3, <2>4, <2>5
<1>6. CASE BfsMoveOn
  <2>1. seen' = seen /\ done' = done /\ trail' = trail /\ here = 1
    BY <1>6 DEF BfsMoveOn
  <2>2. CASE queue = <<>>
    <3>1. queue' = queue /\ then = 0
      BY <1>6, <2>2 DEF BfsMoveOn
    <3>. HIDE DEF here, then
    <3>. QED  BY <1>1, <2>1, <3>1
  <2>3. CASE queue # <<>>
    <3>1. queue' = Tail(queue)
      BY <1>6, <2>3 DEF BfsMoveOn
    <3>2. Len(queue') = Len(queue) - 1
      BY <1>4, <2>3, <3>1
    <3>. HIDE DEF here, then
    <3>. QED  BY <1>1, <2>1, <3>2
  <2>. QED  BY <2>2, <2>3
<1>7. CASE DfsDown
  <2>1. PICK v \in DfsFresh : seen' = seen \union {v} /\ trail' = Append(trail, v)
    BY <1>7 DEF DfsDown
  <2>2. v \in Vertex /\ v \notin seen
    BY <2>1 DEF DfsFresh, Neighbours
  <2>3. Cardinality(seen') = Cardinality(seen) + 1
    BY <1>4, <2>1, <2>2, OneMore
  <2>4. Len(trail') = Len(trail) + 1
    BY <1>4, <2>1, <2>2
  <2>5. done' = done /\ queue' = queue /\ then = here
    BY <1>7 DEF DfsDown
  <2>. HIDE DEF here, then
  <2>. QED  BY <1>1, <2>3, <2>4, <2>5
<1>8. CASE DfsBack
  <2>1. /\ trail' = SubSeq(trail, 1, Len(trail) - 1)
        /\ trail # <<>>
        /\ seen' = seen /\ done' = done /\ queue' = queue /\ then = here
    BY <1>0, <1>8 DEF DfsBack, DfsGoesOn, Chained
  <2>2. Len(trail') = Len(trail) - 1
    <3>1. Len(trail) \in Nat /\ Len(trail) - 1 \in 0..Len(trail)
      BY <1>4, <2>1
    <3>. QED  BY <1>4, <2>1, <3>1, SubSeqLen
  <2>. HIDE DEF here, then
  <2>. QED  BY <1>1, <2>1, <2>2
<1>9. CASE DijkstraScan \/ AstarScan
  <2>1. Relax /\ seen' = seen /\ queue' = queue /\ trail' = trail /\ alg \in {"dijkstra", "astar"}
    BY <1>9 DEF DijkstraScan, AstarScan
  <2>2. curr \in Vertex \ done
    BY <2>1 DEF RingIInv, WeightedIInv, WeightedInv, Weighted, Answerable, ToScan
  <2>3. Cardinality(done') = Cardinality(done) + 1
    BY <1>4, <2>1, <2>2, OneMore DEF Relax
  <2>4. here = 1
    BY <2>2, Vertices
  <2>. HIDE DEF here, then
  <2>. QED  BY <1>1, <2>1, <2>3, <2>4
<1>. QED  BY <1>5, <1>6, <1>7, <1>8, <1>9

LEMMA TurnComesCloser ==
  RingIInv /\ Types' /\ Answerable /\ PathToPointId => TurnsLeft' \in 0..TurnsLeft - 1
<1>. SUFFICES ASSUME RingIInv, Types', Answerable, PathToPointId
              PROVE  TurnsLeft' \in 0..TurnsLeft - 1
  OBVIOUS
<1>0. Types /\ Tracing /\ Begun
  BY DEF RingIInv, WeightedIInv, SearchInv
<1>1. /\ Cardinality(Vertex) \in Nat /\ ScanLeft \in Nat
      /\ pc = "scan" => TurnsLeft = Cardinality(Vertex) + 3 + ScanLeft
  BY <1>0, LeftInScan
<1>2. CASE BfsStart \/ DfsStart \/ DijkstraStart \/ AstarStart
  BY <1>0, <1>2, ScanBegins
<1>3. CASE /\ BfsFind \/ BfsMoveOn \/ DfsDown \/ DfsBack \/ DijkstraScan \/ AstarScan
           /\ pc' = "scan"
  <2>1. pc = "scan"
    BY <1>3 DEF BfsFind, BfsMoveOn, DfsDown, DfsBack, DfsGoesOn, DijkstraScan, AstarScan
  <2>2. ScanLeft' < ScanLeft
    BY <1>3, <2>1, ScanComesCloser
  <2>3. ScanLeft' \in Nat /\ TurnsLeft' = Cardinality(Vertex) + 3 + ScanLeft'
    BY <1>3, LeftInScanThen
  <2>. QED  BY <1>1, <2>1, <2>2, <2>3
<1>4. CASE \/ pc = "scan" /\ pc' = "trace" /\ path' = path
           \/ pc \in {"scan", "trace"} /\ pc' = "retrace" /\ path' = path
  <2>1. path = <<>>
    BY <1>0, <1>4 DEF Tracing
  <2>2. pc' = "retrace" => TurnsLeft' = Cardinality(Vertex) + 1 - 0
    <3>1. Len(path') = 0
      BY <1>4, <2>1
    <3>. QED  BY <3>1 DEF TurnsLeft
  <2>3. pc' = "trace" => TurnsLeft' = Cardinality(Vertex) + 2
    BY DEF TurnsLeft
  <2>4. pc = "trace" => TurnsLeft = Cardinality(Vertex) + 2
    BY DEF TurnsLeft
  <2>. QED  BY <1>1, <1>4, <2>2, <2>3, <2>4
<1>5. CASE Retrace
  <2>1. /\ pc = "retrace" /\ curr \in Vertex
        /\ Len(path) \in Nat /\ Len(path) + 1 <= Cardinality(Vertex)
    BY <1>5, RetraceStays DEF Retrace
  <2>2. TurnsLeft = Cardinality(Vertex) + 1 - Len(path)
    BY <2>1 DEF TurnsLeft
  <2>3. ~(Len(path) >= Cardinality(Vertex))
    BY <1>1, <2>1
  <2>4. CASE pred[curr] = Root
    <3>1. pc' = "done"
      BY <1>5, <2>1, <2>3, <2>4 DEF Retrace, Return
    <3>2. TurnsLeft' = 0
      BY <3>1 DEF TurnsLeft
    <3>. QED  BY <1>1, <2>1, <2>2, <3>2
  <2>5. CASE pred[curr] # Root
    <3>1. pc' = "retrace" /\ path' = <<curr>> \o path
      BY <1>5, <2>1, <2>3, <2>5 DEF Retrace
    <3>2. Len(path') = Len(path) + 1
      <4>1. path \in Seq(Vertex)
        BY <1>0 DEF Types, TypeOK
      <4>. QED  BY <2>1, <3>1, <4>1
    <3>3. TurnsLeft' = Cardinality(Vertex) + 1 - Len(path')
      BY <3>1 DEF TurnsLeft
    <3>. QED  BY <1>1, <2>1, <2>2, <3>2, <3>3
  <2>. QED  BY <2>4, <2>5
<1>6. CASE pc \in {"call", "scan", "trace"} /\ pc' = "done"
  <2>1. TurnsLeft' = 0
    BY <1>6 DEF TurnsLeft
  <2>2. /\ pc = "call" => TurnsLeft = 4 * Cardinality(Vertex) + 5
        /\ pc = "trace" => TurnsLeft = Cardinality(Vertex) + 2
    BY DEF TurnsLeft
  <2>. QED  BY <1>1, <1>6, <2>1, <2>2
<1>7. CASE StartsAtEnd \/ BfsNoPath \/ DfsNoPath \/ DfsCopy \/ DijkstraNoPath
  <2>1. pc \in {"call", "scan", "trace"} /\ pc' = "done"
    BY <1>7 DEF StartsAtEnd, BfsNoPath, DfsNoPath, DfsGoesOn, DfsCopy, DijkstraNoPath, Return
  <2>. QED  BY <1>6, <2>1
<1>8. CASE BfsFound \/ DijkstraFound
  BY <1>4, <1>8 DEF BfsFound, DijkstraFound
<1>9. CASE BfsFind \/ BfsMoveOn \/ DfsDown \/ DfsBack
  <2>1. pc' = "scan"
    BY <1>9 DEF BfsFind, BfsMoveOn, DfsDown, DfsBack, DfsGoesOn
  <2>. QED  BY <1>3, <1>9, <2>1
<1>10. CASE DijkstraScan \/ AstarScan
  <2>1. /\ pc = "scan" /\ path' = path /\ pc' \in {"scan", "trace", "retrace"}
    BY <1>10 DEF DijkstraScan, AstarScan
  <2>. QED  BY <1>3, <1>4, <1>10, <2>1
<1>. QED  BY <1>2, <1>5, <1>7, <1>8, <1>9, <1>10 DEF PathToPointId, Bfs, Dfs, Dijkstra, Astar
-----------------------------------------------------------------------------
(* What the searches promise. *)

(* The four promises of pathToPointId: bfs hands back a path with as few   *)
(* roads as there can be, dijkstra one as short as there can be and never  *)
(* improves a vertex it is done with, and the path of astar is longer than *)
(* the shortest by less than one for each road it could have.              *)
THEOREM SearchPathIsBest == Spec => []PathIsBest
<1>1. WeightedIInv /\ FewestRoads => PathIsBest
  BY HandedIsShortest, HandedIsAlmostShortest, SettledIsFinal DEF PathIsBest
<1>. QED  BY <1>1, RingInvariant, PTL DEF RingIInv

(* A path that is handed back leads from the start to the end by roads of  *)
(* the map.  bfs, dfs and dijkstra do so even where sums overflow, for     *)
(* every predecessor was reached by a road (RealOnAnyMap).  "No path" is   *)
(* said only where there is none; astar never says it.                     *)
THEOREM SearchAnswersRight == Spec => []RightAnswer
<1>1. WeightedIInv => RightAnswer
  BY WeightedPathIsReal, WeightedNoPath DEF RightAnswer
<1>. QED  BY <1>1, WeightedInvariant, PTL

(* Every turn leaves fewer: no call takes more than 4n + 5 turns on a map  *)
(* of n vertices, and the way back stays within the arrays: no predecessor *)
(* is followed that was not set, and nothing is written behind             *)
(* backwards_path.                                                         *)
THEOREM SearchComesCloser == Spec => ComesCloser
<1>1. RingIInv /\ RingIInv' /\ [PathToPointId]_vars
        => [Answerable => TurnsLeft' \in 0..TurnsLeft - 1]_vars
  BY TurnComesCloser DEF RingIInv, WeightedIInv, SearchInv
<1>. QED  BY <1>1, RingInvariant, PTL DEF Spec, ComesCloser
-----------------------------------------------------------------------------
(* The chaser.                                                             *)

LEMMA FirstIsFirst ==
  ASSUME NEW S, S \subseteq Nat, S # {}
  PROVE  FirstOf(S) \in S /\ \A i \in S : FirstOf(S) <= i
BY Least DEF FirstOf
-----------------------------------------------------------------------------
(* The list of danger points: no point has two places, and the free places *)
(* are the last ones.                                                      *)

Slots == 1..NUM_AVOIDPTS

Point(i) == avoidPoints[i].point

ListInv ==
  /\ avoidPoints \in [Slots -> Places]
  /\ \A i, j \in Slots : Point(i) = Point(j) /\ Point(i) # NoPoint => i = j
  /\ \A i, j \in Slots : i < j /\ Point(i) = NoPoint => Point(j) = NoPoint

LEMMA Slot ==
  ASSUME ListInv, NEW i \in Slots
  PROVE  /\ \/ Point(i) \in Danger /\ avoidPoints[i].r \in Radius
            \/ avoidPoints[i] = Free
         /\ Point(i) = NoPoint <=> avoidPoints[i] = Free
         /\ Point(i) # NoPoint <=> Point(i) \in Danger
<1>1. avoidPoints[i] \in Places
  BY DEF ListInv
<1>. QED  BY <1>1, ChaserAssumption DEF Places, Free, Point

LEMMA SlotsAreNumbers == /\ Slots \subseteq Nat
                         /\ IsFiniteSet(Slots)
                         /\ Cardinality(Slots) = NUM_AVOIDPTS
<1>1. NUM_AVOIDPTS \in Nat
  BY ChaserAssumption
<1>2. 1 \in Int /\ NUM_AVOIDPTS \in Int /\ NUM_AVOIDPTS - 1 + 1 = NUM_AVOIDPTS
  BY <1>1
<1>3. /\ IsFiniteSet(1..NUM_AVOIDPTS)
      /\ Cardinality(1..NUM_AVOIDPTS) = NUM_AVOIDPTS
  BY <1>1, <1>2, FS_Interval
<1>. QED  BY <1>1, <1>3 DEF Slots

LEMMA PlacesAreSlots ==
  ASSUME ListInv, NEW p
  PROVE  /\ PlacesFor(p) = {i \in Slots : Point(i) \in {p, NoPoint}}
         /\ PlacesOf(p) = {i \in Slots : Point(i) = p}
BY DEF ListInv, PlacesFor, PlacesOf, Point

(* Fewer points than places have a radius as long as a place is free. *)
LEMMA RoomLeft ==
  ASSUME ListInv, NEW i \in Slots, Point(i) = NoPoint
  PROVE  Cardinality(Zones!Marked) < NUM_AVOIDPTS
<1>. DEFINE used == {j \in Slots : Point(j) # NoPoint}
            f == [j \in used |-> Point(j)]
<1>1. /\ IsFiniteSet(Slots \ {i})
      /\ Cardinality(Slots \ {i}) = NUM_AVOIDPTS - 1
  BY SlotsAreNumbers, FS_RemoveElement
<1>2. /\ IsFiniteSet(used)
      /\ Cardinality(used) <= NUM_AVOIDPTS - 1
  <2>1. used \in SUBSET (Slots \ {i})
    OBVIOUS
  <2>. QED  BY <1>1, <2>1, FS_Subset
<1>3. f \in Surjection(used, Zones!Marked)
  <2>1. f \in [used -> Zones!Marked]
    <3>1. ASSUME NEW j \in used PROVE Point(j) \in Zones!Marked
      <4>1. Point(j) \in Danger /\ j \in PlacesOf(Point(j))
        BY Slot, PlacesAreSlots
      <4>. QED  BY <4>1 DEF Zones!Marked, Radii
    <3>. QED  BY <3>1
  <2>2. ASSUME NEW p \in Zones!Marked PROVE \E j \in used : f[j] = p
    <3>1. p \in Danger /\ Radii(p) # {}
      BY DEF Zones!Marked
    <3>2. PICK j \in PlacesOf(p) : TRUE
      BY <3>1 DEF Radii
    <3>3. j \in used /\ Point(j) = p
      BY <3>1, <3>2, PlacesAreSlots, ChaserAssumption
    <3>. QED  BY <3>3
  <2>. QED  BY <2>1, <2>2 DEF Surjection
<1>4. /\ IsFiniteSet(Zones!Marked)
      /\ Cardinality(Zones!Marked) <= Cardinality(used)
  BY <1>2, <1>3, FS_Surjection
<1>5. Cardinality(Zones!Marked) \in Nat /\ Cardinality(used) \in Nat
  BY <1>2, <1>4, FS_CardinalityType
<1>. QED  BY <1>2, <1>4, <1>5, ChaserAssumption

Table == [p \in Danger |-> Radii(p)]

(* A message avoid gives the point it names that radius, and no other. *)
LEMMA AvoidMarks ==
  ASSUME ListInv, NEW p \in Danger, NEW r \in Radius, PlacesFor(p) # {},
         avoidPoints' = [avoidPoints EXCEPT ![FirstOf(PlacesFor(p))] = [point |-> p, r |-> r]]
  PROVE  ListInv' /\ Zones!Mark(p, r)
<1>1. PICK i \in Slots :
        /\ i = FirstOf(PlacesFor(p))
        /\ Point(i) \in {p, NoPoint}
        /\ \A j \in Slots : Point(j) \in {p, NoPoint} => i <= j
  BY SlotsAreNumbers, PlacesAreSlots, FirstIsFirst
<1>2. /\ avoidPoints' \in [Slots -> Places]
      /\ Point(i)' = p /\ avoidPoints'[i].r = r
      /\ \A j \in Slots \ {i} : avoidPoints'[j] = avoidPoints[j]
  BY <1>1 DEF ListInv, Places, Point
<1>3. p # NoPoint
  BY ChaserAssumption
<1>4. ASSUME NEW j \in Slots, j # i PROVE Point(j) # p
  <2>1. CASE Point(i) = p
    BY <1>1, <1>3, <1>4, <2>1 DEF ListInv
  <2>2. CASE Point(i) = NoPoint
    <3>1. CASE i < j
      BY <1>1, <1>3, <2>2, <3>1 DEF ListInv
    <3>2. CASE ~(i < j)
      BY <1>1, <1>4, <3>2, SlotsAreNumbers
    <3>. QED  BY <3>1, <3>2
  <2>. QED  BY <1>1, <2>1, <2>2
<1>5. \A j \in Slots \ {i} : Point(j)' = Point(j)
  BY <1>2 DEF Point
<1>6. ListInv'
  <2>1. ASSUME NEW j \in Slots, NEW k \in Slots, Point(j)' = Point(k)', Point(j)' # NoPoint
        PROVE  j = k
    BY <1>1, <1>2, <1>4, <1>5, <2>1 DEF ListInv
  <2>2. ASSUME NEW j \in Slots, NEW k \in Slots, j < k, Point(j)' = NoPoint
        PROVE  Point(k)' = NoPoint
    <3>1. j # i /\ Point(j) = NoPoint
      BY <1>2, <1>3, <1>5, <2>2
    <3>2. i <= j
      BY <1>1, <3>1
    <3>3. k # i
      BY <1>1, <2>2, <3>2, SlotsAreNumbers
    <3>. QED  BY <1>5, <2>2, <3>1, <3>3 DEF ListInv
  <2>3. Slots' = Slots /\ NoPoint' = NoPoint
    BY DEF Slots
  <2>. QED  BY <1>2, <2>1, <2>2, <2>3 DEF ListInv, Places, Free
<1>7. Radii(p)' = {r}
  BY <1>1, <1>2, <1>4, <1>5, <1>6, PlacesAreSlots DEF Radii, PlacesOf, ListInv, Point
<1>8. ASSUME NEW q \in Danger, q # p PROVE Radii(q)' = Radii(q)
  <2>1. q # NoPoint
    BY ChaserAssumption
  <2>2. PlacesOf(q)' = PlacesOf(q) /\ i \notin PlacesOf(q)
    BY <1>1, <1>2, <1>5, <1>8, <2>1 DEF ListInv, PlacesOf, Point
  <2>3. PlacesOf(q) \subseteq Slots
    BY PlacesAreSlots
  <2>. QED  BY <1>2, <2>2, <2>3 DEF Radii
<1>9. p \in Zones!Marked \/ Cardinality(Zones!Marked) < NUM_AVOIDPTS
  <2>1. CASE Point(i) = p
    <3>1. i \in PlacesOf(p)
      BY <1>1, <2>1, PlacesAreSlots
    <3>. QED  BY <3>1 DEF Zones!Marked, Radii
  <2>2. CASE Point(i) = NoPoint
    BY <1>1, <2>2, RoomLeft
  <2>. QED  BY <1>1, <2>1, <2>2
<1>10. Table' = [Table EXCEPT ![p] = {r}]
  BY <1>7, <1>8 DEF Table
<1>. DEFINE few == p \in Zones!Marked \/ Cardinality(Zones!Marked) < NUM_AVOIDPTS
<1>11. few /\ Table' = [Table EXCEPT ![p] = {r}]
  BY <1>9, <1>10
<1>. HIDE DEF few
<1>12. few /\ Table' = [Table EXCEPT ![p] = {r}] => Zones!Mark(p, r)
  BY Zenon DEF Zones!Mark, Table, few, Cardinality, Zones!Cardinality
<1>. QED  BY <1>6, <1>11, <1>12

(* A message remavoid takes the radius away, and the radii of the others   *)
(* move with their places.                                                 *)
LEMMA RemavoidUnmarks ==
  ASSUME ListInv, NEW p \in Danger, PlacesOf(p) # {},
         avoidPoints' = WithoutPlace(FirstOf(PlacesOf(p)))
  PROVE  ListInv' /\ Zones!Unmark(p)
<1>1. PICK i \in Slots : i = FirstOf(PlacesOf(p)) /\ Point(i) = p
  BY SlotsAreNumbers, PlacesAreSlots, FirstIsFirst
<1>. DEFINE From(j) == IF j < i THEN j ELSE j + 1
<1>2. NUM_AVOIDPTS \in Nat /\ Slots \subseteq Nat /\ p # NoPoint
  BY ChaserAssumption, SlotsAreNumbers
<1>3. DOMAIN avoidPoints = Slots
  BY DEF ListInv
<1>4. /\ DOMAIN avoidPoints' = Slots
      /\ \A j \in Slots : avoidPoints'[j] = IF j < i THEN avoidPoints[j]
                                            ELSE IF j < NUM_AVOIDPTS THEN avoidPoints[j + 1] ELSE Free
      /\ avoidPoints' = [j \in Slots |-> IF j < i THEN avoidPoints[j]
                                            ELSE IF j < NUM_AVOIDPTS THEN avoidPoints[j + 1] ELSE Free]
  BY <1>1, <1>3 DEF WithoutPlace
<1>5. ASSUME NEW j \in Slots
      PROVE  IF From(j) \in Slots THEN avoidPoints'[j] = avoidPoints[From(j)]
             ELSE avoidPoints'[j] = Free
  <2>1. CASE j < i
    BY <1>4, <2>1
  <2>2. CASE ~(j < i) /\ j < NUM_AVOIDPTS
    <3>1. j + 1 \in Slots
      BY <1>2, <2>2 DEF Slots
    <3>. QED  BY <1>4, <2>2, <3>1
  <2>3. CASE ~(j < i) /\ ~(j < NUM_AVOIDPTS)
    <3>1. j + 1 \notin Slots
      BY <1>2, <2>3 DEF Slots
    <3>. QED  BY <1>4, <2>3, <3>1
  <2>. QED  BY <2>1, <2>2, <2>3
<1>6. \A j, k \in Slots : /\ From(j) # i
                          /\ From(j) = From(k) => j = k
                          /\ j < k => From(j) < From(k)
                          /\ From(k) \in Slots /\ j < k => From(j) \in Slots
  BY <1>1, <1>2 DEF Slots
<1>7. \A k \in Slots : k # i => \E j \in Slots : From(j) = k
  <2>1. ASSUME NEW k \in Slots, k # i PROVE \E j \in Slots : From(j) = k
    <3>1. CASE k < i
      BY <3>1
    <3>2. CASE ~(k < i)
      <4>1. k - 1 \in Slots /\ From(k - 1) = k
        BY <1>1, <1>2, <2>1, <3>2 DEF Slots
      <4>. QED  BY <4>1
    <3>. QED  BY <3>1, <3>2
  <2>. QED  BY <2>1
<1>. HIDE DEF From
<1>8. avoidPoints' \in [Slots -> Places]
  <2>1. ASSUME NEW j \in Slots PROVE avoidPoints'[j] \in Places
    BY <1>5 DEF ListInv, Places
  <2>. QED  BY <1>4, <2>1
<1>9. Free.point = NoPoint
  BY DEF Free
<1>10. \A j \in Slots : Point(j)' = IF From(j) \in Slots THEN Point(From(j)) ELSE NoPoint
  BY <1>5, <1>9 DEF Point
<1>11. ListInv'
  <2>1. ASSUME NEW j \in Slots, NEW k \in Slots, Point(j)' = Point(k)', Point(j)' # NoPoint
        PROVE  j = k
    BY <1>6, <1>10, <2>1 DEF ListInv
  <2>2. ASSUME NEW j \in Slots, NEW k \in Slots, j < k, Point(j)' = NoPoint
        PROVE  Point(k)' = NoPoint
    BY <1>6, <1>10, <2>2 DEF ListInv
  <2>3. Slots' = Slots
    BY DEF Slots
  <2>. QED  BY <1>8, <2>1, <2>2, <2>3 DEF ListInv, Places, Free
<1>12. Radii(p)' = {}
  <2>1. ASSUME NEW j \in Slots PROVE Point(j)' # p
    <3>1. CASE From(j) \in Slots
      BY <1>1, <1>2, <1>6, <1>10, <3>1 DEF ListInv
    <3>2. CASE From(j) \notin Slots
      BY <1>2, <1>10, <3>2
    <3>. QED  BY <3>1, <3>2
  <2>. QED  BY <1>4, <2>1 DEF Radii, PlacesOf, Point
<1>13. ASSUME NEW q \in Danger, q # p PROVE Radii(q)' = Radii(q)
  <2>1. q # NoPoint
    BY ChaserAssumption
  <2>2. PlacesOf(q) = {j \in Slots : Point(j) = q} /\ PlacesOf(q)' = {j \in Slots : Point(j)' = q}
    BY <1>3, <1>4 DEF PlacesOf, Point
  <2>3. ASSUME NEW x \in Radii(q)' PROVE x \in Radii(q)
    <3>1. PICK j \in Slots : Point(j)' = q /\ x = avoidPoints'[j].r
      BY <2>2, <2>3 DEF Radii
    <3>2. From(j) \in Slots /\ Point(From(j)) = q /\ avoidPoints[From(j)].r = x
      BY <1>5, <1>10, <2>1, <3>1
    <3>. QED  BY <2>2, <3>2 DEF Radii
  <2>4. ASSUME NEW x \in Radii(q) PROVE x \in Radii(q)'
    <3>1. PICK k \in Slots : Point(k) = q /\ x = avoidPoints[k].r
      BY <2>2, <2>4 DEF Radii
    <3>2. PICK j \in Slots : From(j) = k
      BY <1>1, <1>7, <1>13, <3>1
    <3>3. Point(j)' = q /\ avoidPoints'[j].r = x
      BY <1>5, <1>10, <3>1, <3>2
    <3>. QED  BY <2>2, <3>3 DEF Radii
  <2>. QED  BY <2>3, <2>4
<1>14. Table' = [Table EXCEPT ![p] = {}]
  BY <1>12, <1>13 DEF Table
<1>. QED  BY <1>11, <1>14 DEF Zones!Unmark, Table
-----------------------------------------------------------------------------
(* The safe map is the one that the list asks for. *)

LEMMA SafeIsOutOfDanger ==
  ASSUME ListInv
  PROVE  SafeRoads(avoidPoints) = Clear \ RoadsInDanger
<1>1. ASSUME NEW road \in Clear
      PROVE  (\E i \in Slots : avoidPoints[i] # Free /\ road \in Crossed[Point(i)][avoidPoints[i].r])
               <=> (\E p \in Danger : \E r \in Radii(p) : road \in Crossed[p][r])
  <2>1. ASSUME NEW i \in Slots, avoidPoints[i] # Free, road \in Crossed[Point(i)][avoidPoints[i].r]
        PROVE  \E p \in Danger : \E r \in Radii(p) : road \in Crossed[p][r]
    <3>1. Point(i) \in Danger /\ avoidPoints[i].r \in Radii(Point(i))
      BY <2>1, Slot, PlacesAreSlots DEF Radii
    <3>. QED  BY <2>1, <3>1
  <2>2. ASSUME NEW p \in Danger, NEW r \in Radii(p), road \in Crossed[p][r]
        PROVE  \E i \in Slots : avoidPoints[i] # Free /\ road \in Crossed[Point(i)][avoidPoints[i].r]
    <3>1. PICK i \in Slots : Point(i) = p /\ avoidPoints[i].r = r
      BY PlacesAreSlots DEF Radii
    <3>. QED  BY <2>2, <3>1, Slot
  <2>. QED  BY <2>1, <2>2
<1>2. DOMAIN avoidPoints = Slots
  BY DEF ListInv
<1>. QED  BY <1>1, <1>2 DEF SafeRoads, RoadsInDanger, Point

LEMMA RoadsOfMap == SafeRoads(avoidPoints) \subseteq Clear
  BY DEF SafeRoads
-----------------------------------------------------------------------------
(* The call that plans a path. *)

LEMMA StillCalled == Called' => SearchInv'
  BY SearchInvCalled, PTL

LEMMA SearchTurn == SearchInv /\ [PathToPointId]_vars => SearchInv'
  BY TypesStep, PredsStep, TracingStep, ListedStep, ChainedStep, AnsweredStep DEF SearchInv

LEMMA IdleInv ==
  ASSUME alg = "dijkstra", edges \in SUBSET Clear, start \in Vertex, end \in Vertex,
         pc = "done", path = <<>>, Fresh
  PROVE  SearchInv
<1>1. Types
  BY SearchAssumption DEF Fresh, AllUnset, AllInfinite, Types, TypeOK
<1>2. Preds
  BY Vertices DEF Fresh, AllUnset, Preds
<1>. QED  BY <1>1, <1>2 DEF SearchInv, Tracing, Listed, Chained, Answered

(* A search has as many points in its path as there are at most, and leaves *)
(* nothing behind when it returns.                                          *)
CallInv ==
  /\ SearchInv
  /\ alg = "dijkstra"
  /\ edges \subseteq Clear
  /\ pc = "done" => Fresh
  /\ Len(path) <= Cardinality(Vertex)

LEMMA VertexCount == Cardinality(Vertex) \in Nat /\ (start \in Vertex => Cardinality(Vertex) >= 1)
<1>1. Cardinality(Vertex) \in Nat
  BY Vertices, FS_CardinalityType
<1>2. start \in Vertex => Cardinality(Vertex) # 0
  BY Vertices, FS_EmptySet
<1>. QED  BY <1>1, <1>2

LEMMA ReturnInv ==
  ASSUME CallInv, NEW p \in Seq(Vertex), Return(p), Len(p) <= Cardinality(Vertex), SearchInv'
  PROVE  CallInv'
BY DEF CallInv, Return, Fresh, call, AllUnset, AllInfinite

LEMMA SearchStepKeeps ==
  ASSUME CallInv, SearchStep
  PROVE  CallInv'
<1>. USE DEF CallInv
<1>1. PathToPointId /\ (StartsAtEnd \/ Dijkstra \/ Retrace)
  BY DEF SearchStep, PathToPointId
<1>2. SearchInv'
  BY <1>1, SearchTurn
<1>3. path \in Seq(Vertex) /\ start \in Vertex
  BY DEF SearchInv, Types, TypeOK
<1>4. CASE StartsAtEnd
  <2>1. Return(<<start>>) /\ <<start>> \in Seq(Vertex) /\ Len(<<start>>) = 1
    BY <1>3, <1>4 DEF StartsAtEnd
  <2>. QED  BY <1>2, <1>3, <2>1, VertexCount, ReturnInv
<1>5. CASE DijkstraNoPath
  <2>1. Return(<<>>) /\ <<>> \in Seq(Vertex) /\ Len(<<>>) = 0
    BY <1>5 DEF DijkstraNoPath
  <2>2. 0 <= Cardinality(Vertex)
    BY VertexCount
  <2>. QED  BY <1>2, <2>1, <2>2, ReturnInv
<1>6. CASE DijkstraStart \/ DijkstraScan \/ DijkstraFound
  <2>1. pc' # "done" /\ UNCHANGED <<alg, edges, path>>
    BY <1>6 DEF DijkstraStart, DijkstraScan, DijkstraFound, call
  <2>. QED  BY <1>2, <2>1
<1>7. CASE Retrace
  <2>1. CASE Stray
    BY <1>2, <2>1 DEF Stray, call
  <2>2. CASE ~Stray
    <3>1. curr \in Vertex /\ Len(path) < Cardinality(Vertex)
      BY <1>3, <1>7, <2>2, VertexCount DEF Retrace
    <3>2. <<curr>> \o path \in Seq(Vertex) /\ Len(<<curr>> \o path) = Len(path) + 1
      BY <1>3, <3>1
    <3>3. Len(<<curr>> \o path) <= Cardinality(Vertex)
      BY <1>3, <3>1, <3>2, VertexCount
    <3>4. CASE Return(<<curr>> \o path)
      BY <1>2, <3>2, <3>3, <3>4, ReturnInv
    <3>5. CASE ~Return(<<curr>> \o path)
      <4>1. path' = <<curr>> \o path /\ pc' = "retrace" /\ UNCHANGED call
        BY <1>7, <2>2, <3>5 DEF Retrace
      <4>. QED  BY <1>2, <3>3, <4>1 DEF call
    <3>. QED  BY <3>4, <3>5
  <2>. QED  BY <2>1, <2>2
<1>. QED  BY <1>1, <1>4, <1>5, <1>6, <1>7 DEF Dijkstra
-----------------------------------------------------------------------------
(* The inductive invariant.  While a search runs, destId is its end and no *)
(* enemy has been seen; a path in use is the answer of a search that is    *)
(* done, to destId, over the map of its time, which still is one of ours.  *)

Planning ==
  frame = "plan" => /\ end = destId
                    /\ destId \in Vertex
                    /\ enemySpottedRecently = 0

OnPath ==
  Flying => /\ path # <<>>
            /\ end = destId
            /\ pathIndex < Len(path)
            /\ interPointId = path[pathIndex + 1]

MapInUse ==
  /\ safeMap = SafeRoads(avoidPoints)
  /\ Flying \/ frame = "plan" => edges \in {Clear, safeMap}

ChaserIInv ==
  /\ ChaserTypeOK
  /\ ListInv
  /\ CallInv
  /\ frame # "plan" => pc = "done"
  /\ MapInUse
  /\ Planning
  /\ OnPath
  /\ HaltsForEnemies

LEMMA Numbers == /\ NUM_AVOIDPTS \in Nat /\ MinEnemySpottedTime \in Nat
                 /\ Cardinality(Vertex) \in Nat
                 /\ Nowhere \notin Vertex /\ None \notin Vertex
BY ChaserAssumption, Vertices, VertexCount DEF Nowhere

LEMMA ChaserIInvInit == ChaserInit => ChaserIInv
<1>. SUFFICES ASSUME ChaserInit PROVE ChaserIInv
  OBVIOUS
<1>. USE DEF ChaserInit
<1>1. ChaserTypeOK
  BY Numbers DEF ChaserTypeOK, Places
<1>2. ListInv
  BY DEF ListInv, Places, Point, Free, Slots
<1>3. CallInv
  <2>1. SearchInv
    BY IdleInv
  <2>2. Len(path) = 0
    OBVIOUS
  <2>. QED  BY <2>1, <2>2, Numbers DEF CallInv
<1>4. SafeRoads(avoidPoints) = Clear
  BY DEF SafeRoads
<1>. QED  BY <1>1, <1>2, <1>3, <1>4 DEF ChaserIInv, MapInUse, Planning, OnPath, Flying, HaltsForEnemies

LEMMA SearchKept ==
  ASSUME CallInv, UNCHANGED vars
  PROVE  CallInv'
<1>1. SearchInv'
  BY SearchTurn DEF CallInv
<1>. QED  BY <1>1 DEF CallInv, vars, call, locals, Fresh

(* The messages about danger points break off the path. *)
LEMMA MapIsChanged ==
  ASSUME ChaserIInv, frame = "message", frame' = "control",
         UNCHANGED <<vars, target, enemySpottedRecently, traitVars>>,
         ListInv', ModMap, InterruptPath
  PROVE  ChaserIInv'
<1>. USE DEF ChaserIInv, traitVars
<1>1. CallInv' /\ pc' = "done"
  BY SearchKept DEF vars
<1>2. ~Flying' /\ frame' # "plan" /\ destId' = Nowhere
  BY DEF InterruptPath, Flying
<1>3. ChaserTypeOK'
  <2>1. safeMap' \subseteq Clear
    BY DEF ModMap, SafeRoads
  <2>2. avoidPoints' \in [1..NUM_AVOIDPTS -> Places']
    BY DEF ListInv, Slots
  <2>. QED  BY <2>1, <2>2, <1>2 DEF ChaserTypeOK, InterruptPath
<1>. QED  BY <1>1, <1>2, <1>3 DEF MapInUse, ModMap, SafeRoads, Planning, OnPath, HaltsForEnemies

LEMMA MessageKeeps == ChaserIInv /\ HandleMsgBuffer => ChaserIInv'
<1>. SUFFICES ASSUME ChaserIInv, HandleMsgBuffer PROVE ChaserIInv'
  OBVIOUS
<1>0. frame = "message" /\ frame' = "control" /\ UNCHANGED <<vars, target, enemySpottedRecently>>
  BY DEF HandleMsgBuffer
<1>1. CASE HandleTrait
  <2>1. UNCHANGED <<dangerVars, legVars>> /\ avoidant' \in {0, 1} /\ focused' \in {0, 1}
    BY <1>1 DEF HandleTrait
  <2>2. CallInv'
    BY <1>0, SearchKept DEF ChaserIInv
  <2>. QED  BY <1>0, <2>1, <2>2
       DEF ChaserIInv, ChaserTypeOK, ListInv, Point, vars, call, dangerVars, legVars, MapInUse,
           SafeRoads, Planning, OnPath, Flying, HaltsForEnemies
<1>2. ASSUME NEW p \in Danger, HandleRemavoid(p) PROVE ChaserIInv'
  <2>1. ListInv'
    BY <1>2, RemavoidUnmarks DEF ChaserIInv, HandleRemavoid
  <2>. QED  BY <1>0, <1>2, <2>1, MapIsChanged DEF HandleRemavoid
<1>3. ASSUME NEW p \in Danger, NEW r \in Radius, HandleAvoid(p, r) PROVE ChaserIInv'
  <2>1. ListInv'
    BY <1>3, AvoidMarks DEF ChaserIInv, HandleAvoid
  <2>. QED  BY <1>0, <1>3, <2>1, MapIsChanged DEF HandleAvoid
<1>. QED  BY <1>1, <1>2, <1>3 DEF HandleMsgBuffer

(* What a frame leaves alone that does not plan. *)
LEMMA MapKept ==
  ASSUME ChaserIInv, frame # "plan", EndFrame, UNCHANGED vars,
         Flying' => Flying
  PROVE  /\ ListInv' /\ CallInv' /\ pc' = "done" /\ MapInUse' /\ Planning'
         /\ frame' = "message"
         /\ UNCHANGED <<avoidPoints, safeMap, avoidant, focused>>
<1>1. CallInv'
  BY SearchKept DEF ChaserIInv
<1>2. /\ UNCHANGED <<avoidPoints, safeMap, avoidant, focused, edges, pc>>
      /\ frame' = "message"
  BY DEF EndFrame, dangerVars, traitVars, vars, call
<1>. QED  BY <1>1, <1>2 DEF ChaserIInv, ListInv, Point, MapInUse, SafeRoads, Planning

LEMMA NoPlanKeeps == ChaserIInv /\ (EnemySpotted \/ Dead \/ FlyAimlessly) => ChaserIInv'
<1>. SUFFICES ASSUME ChaserIInv, EnemySpotted \/ Dead \/ FlyAimlessly PROVE ChaserIInv'
  OBVIOUS
<1>1. frame = "control" /\ EndFrame /\ UNCHANGED <<vars, target>>
  BY DEF EnemySpotted, Dead, FlyAimlessly, NoEnemy
<1>2. CASE EnemySpotted
  <2>1. destId' = Nowhere /\ ~Flying' /\ UNCHANGED <<interPointId, pathIndex>>
    BY <1>2 DEF EnemySpotted, InterruptPath, Flying
  <2>2. enemySpottedRecently' \in 0..MinEnemySpottedTime
    BY <1>2, Numbers DEF EnemySpotted, CountDown, ChaserIInv, ChaserTypeOK
  <2>. QED  BY <1>1, <2>1, <2>2, MapKept DEF ChaserIInv, ChaserTypeOK, OnPath, HaltsForEnemies
<1>3. CASE Dead \/ FlyAimlessly
  <2>1. UNCHANGED <<destId, interPointId, pathIndex, enemySpottedRecently>>
    BY <1>3 DEF Dead, FlyAimlessly, NoEnemy, legVars
  <2>2. frame' = "message" /\ UNCHANGED <<path, end>>
    BY <1>1 DEF EndFrame, vars, call
  <2>3. Flying' = Flying
    BY <1>1, <2>1, <2>2 DEF Flying
  <2>4. frame # "plan"
    BY <1>1
  <2>5. ListInv' /\ CallInv' /\ pc' = "done" /\ MapInUse' /\ Planning'
        /\ UNCHANGED <<avoidPoints, safeMap, avoidant, focused>>
    BY <1>1, <2>3, <2>4, MapKept
  <2>. QED  BY <1>1, <2>1, <2>2, <2>3, <2>5
       DEF ChaserIInv, ChaserTypeOK, OnPath, HaltsForEnemies
<1>. QED  BY <1>2, <1>3

LEMMA PlanKeeps ==
  ASSUME ChaserIInv, NoEnemy, NEW here \in Vertex, target' \in Vertex, PlanPath(here)
  PROVE  ChaserIInv'
<1>. USE DEF ChaserIInv
<1>1. /\ frame = "control" /\ frame' = "plan" /\ enemySpottedRecently = 0
      /\ destId' = target' /\ end' = target' /\ start' = here
      /\ edges' \in {Clear, safeMap}
      /\ pc' = "call" /\ path' = <<>>
      /\ UNCHANGED <<alg, locals, avoidPoints, safeMap, avoidant, focused, interPointId, pathIndex,
                     enemySpottedRecently>>
  BY DEF NoEnemy, PlanPath, dangerVars, traitVars
<1>2. CallInv'
  <2>1. Fresh'
    BY <1>1 DEF CallInv, Fresh, locals
  <2>2. Called'
    <3>1. edges' \in SUBSET Clear
      BY <1>1 DEF ChaserTypeOK
    <3>. QED  BY <1>1, <2>1, <3>1 DEF Called
  <2>3. Len(path') = 0
    BY <1>1
  <2>. QED  BY <1>1, <2>2, <2>3, StillCalled, Numbers DEF CallInv, Called
<1>. QED  BY <1>1, <1>2
     DEF ChaserTypeOK, ListInv, Point, MapInUse, SafeRoads, Planning, OnPath, Flying, HaltsForEnemies

LEMMA FlyKeeps ==
  ASSUME ChaserIInv, NoEnemy, NEW near \in SUBSET Vertex, target' \in Vertex, FlyPath(near)
  PROVE  ChaserIInv'
<1>. USE DEF ChaserIInv
<1>1. /\ frame = "control" /\ EndFrame /\ UNCHANGED vars
      /\ enemySpottedRecently = 0 /\ enemySpottedRecently' = 0
      /\ destId \in Vertex
      /\ Flying
  BY Numbers DEF NoEnemy, FlyPath, Flying
<1>2. /\ ListInv' /\ CallInv' /\ pc' = "done" /\ MapInUse' /\ Planning' /\ frame' = "message"
      /\ UNCHANGED <<avoidPoints, safeMap, avoidant, focused>>
      /\ UNCHANGED <<path, end>>
  BY <1>1, MapKept DEF vars, call
<1>3. CASE InterruptPath
  BY <1>1, <1>2, <1>3 DEF InterruptPath, ChaserTypeOK, OnPath, Flying, HaltsForEnemies
<1>4. CASE UNCHANGED legVars
  BY <1>1, <1>2, <1>4 DEF legVars, ChaserTypeOK, OnPath, Flying, HaltsForEnemies
<1>5. CASE NextLeg(near)
  <2>1. /\ interPointId # destId /\ interPointId = path[pathIndex + 1]
        /\ pathIndex' = pathIndex + 1
        /\ interPointId' = IF pathIndex' < Len(path) THEN path[pathIndex' + 1] ELSE None
        /\ destId' = destId
        /\ pathIndex < Len(path)
    BY <1>1, <1>5 DEF NextLeg, OnPath
  <2>2. path \in Seq(Vertex) /\ path[Len(path)] = destId
    BY <1>1 DEF CallInv, SearchInv, Types, TypeOK, Answered, Real, OnPath
  <2>3. pathIndex \in Nat /\ Len(path) <= Cardinality(Vertex)
    BY DEF ChaserTypeOK, CallInv
  <2>4. pathIndex + 1 # Len(path)
    BY <2>1, <2>2
  <2>5. pathIndex + 1 < Len(path) /\ pathIndex + 1 \in 0..Cardinality(Vertex)
    BY <2>1, <2>2, <2>3, <2>4, Numbers
  <2>6. interPointId' = path[pathIndex' + 1] /\ path[pathIndex' + 1] \in Vertex
    BY <2>1, <2>2, <2>3, <2>5
  <2>. QED  BY <1>1, <1>2, <2>1, <2>5, <2>6 DEF ChaserTypeOK, OnPath, Flying, HaltsForEnemies
<1>. QED  BY <1>3, <1>4, <1>5 DEF FlyPath

LEMMA PlannedKeeps == ChaserIInv /\ PathPlanned => ChaserIInv'
<1>. SUFFICES ASSUME ChaserIInv, PathPlanned PROVE ChaserIInv'
  OBVIOUS
<1>. USE DEF ChaserIInv
<1>1. /\ frame = "plan" /\ pc = "done"
      /\ destId' = IF path = <<>> THEN Nowhere ELSE destId
      /\ pathIndex' = 0
      /\ interPointId' = IF path = <<>> THEN None ELSE path[1]
      /\ frame' = "message"
      /\ UNCHANGED <<vars, target, enemySpottedRecently, avoidPoints, safeMap, avoidant, focused>>
  BY DEF PathPlanned, EndFrame, dangerVars, traitVars
<1>2. UNCHANGED <<path, end, edges, pc>>
  BY <1>1 DEF vars, call
<1>3. path \in Seq(Vertex)
  BY DEF CallInv, SearchInv, Types, TypeOK
<1>4. path # <<>> => 0 < Len(path) /\ path[1] \in Vertex
  BY <1>3
<1>5. CallInv'
  BY <1>1, SearchKept
<1>6. ChaserTypeOK'
  BY <1>1, <1>4, Numbers DEF ChaserTypeOK
<1>7. OnPath'
  BY <1>1, <1>2, <1>4 DEF OnPath, Flying, Planning
<1>. QED  BY <1>1, <1>2, <1>5, <1>6, <1>7
     DEF ListInv, Point, MapInUse, SafeRoads, Planning, HaltsForEnemies

LEMMA ChaserIInvStep == ChaserIInv /\ [AI_loop]_allVars => ChaserIInv'
<1>. SUFFICES ASSUME ChaserIInv, [AI_loop]_allVars PROVE ChaserIInv'
  OBVIOUS
<1>1. CASE GoToRandom
  <2>1. PICK here \in Vertex :
          \E near \in SUBSET Vertex :
            /\ target' \in IF target \in near \union {None} THEN Vertex ELSE {target}
            /\ PlanPath(here) \/ FlyPath(near)
    BY <1>1 DEF GoToRandom
  <2>2. PICK near \in SUBSET Vertex :
          /\ target' \in IF target \in near \union {None} THEN Vertex ELSE {target}
          /\ PlanPath(here) \/ FlyPath(near)
    BY <2>1
  <2>3. target' \in Vertex
    BY <2>2 DEF ChaserIInv, ChaserTypeOK
  <2>. QED  BY <1>1, <2>2, <2>3, PlanKeeps, FlyKeeps DEF GoToRandom
<1>2. CASE SearchStep
  <2>1. UNCHANGED chaserVars /\ frame = "plan" /\ CallInv'
    BY <1>2, SearchStepKeeps DEF SearchStep, ChaserIInv
  <2>2. UNCHANGED <<edges, end>>
    BY <1>2 DEF SearchStep, StartsAtEnd, Dijkstra, DijkstraStart, DijkstraScan, DijkstraNoPath,
                DijkstraFound, Retrace, Stray, Return, call
  <2>. QED  BY <2>1, <2>2
       DEF ChaserIInv, chaserVars, dangerVars, traitVars, legVars, ChaserTypeOK, ListInv, Point,
           MapInUse, SafeRoads, Planning, OnPath, Flying, HaltsForEnemies
<1>3. CASE UNCHANGED allVars
  <2>1. UNCHANGED vars /\ UNCHANGED chaserVars
    BY <1>3 DEF allVars
  <2>2. CallInv'
    BY <2>1, SearchKept DEF ChaserIInv
  <2>3. UNCHANGED <<edges, end, path, pc>>
    BY <2>1 DEF vars, call
  <2>. QED  BY <2>1, <2>2, <2>3
       DEF ChaserIInv, chaserVars, dangerVars, traitVars, legVars, ChaserTypeOK, ListInv, Point,
           MapInUse, SafeRoads, Planning, OnPath, Flying, HaltsForEnemies
<1>. QED  BY <1>1, <1>2, <1>3, MessageKeeps, NoPlanKeeps, PlannedKeeps DEF AI_loop

LEMMA ChaserInvariant == ChaserSpec => []ChaserIInv
  BY ChaserIInvInit, ChaserIInvStep, PTL DEF ChaserSpec
-----------------------------------------------------------------------------
(* On any map and with any list of danger points, the point a chaser flies *)
(* to is on its path, and the last leg ends at its destination.            *)
THEOREM StaysOnPath == ChaserSpec => []ChaserInv
<1>1. ChaserIInv => ChaserInv
  BY DEF ChaserIInv, OnPath, WaypointAhead, ChaserInv, Flying, CallInv, SearchInv, Answered, Real
<1>. QED  BY <1>1, ChaserInvariant, PTL

(* The path it flies was planned on the whole map or on the safe map as it *)
(* is now, and is one of that map.                                         *)
THEOREM FliesByCurrentMap == ChaserSpec => []FliesCurrentMap
<1>1. ASSUME ChaserIInv PROVE FliesCurrentMap
  <2>1. Flying => Real(path)
    BY <1>1 DEF ChaserIInv, OnPath, Flying, CallInv, SearchInv, Answered
  <2>2. Flying => edges \in {Clear, Clear \ RoadsInDanger}
    BY <1>1, SafeIsOutOfDanger DEF ChaserIInv, MapInUse
  <2>. QED  BY <2>1, <2>2 DEF FliesCurrentMap, Real, IsWalk
<1>. QED  BY <1>1, ChaserInvariant, PTL

(* No path is in use while an enemy has been seen lately. *)
THEOREM StopsForEnemies == ChaserSpec => []HaltsForEnemies
<1>1. ChaserIInv => HaltsForEnemies
  BY DEF ChaserIInv
<1>. QED  BY <1>1, ChaserInvariant, PTL

(* The list of danger points is a table: every message that takes effect   *)
(* changes the radius of the one point it names.                           *)
THEOREM ListIsATable == ChaserSpec => RefinesZones
<1>1. ChaserInit => Zones!ZoneInit
  BY ChaserAssumption DEF ChaserInit, Zones!ZoneInit, Radii, PlacesOf, Free
<1>2. ASSUME ChaserIInv, [AI_loop]_allVars
      PROVE  [Zones!ZoneNext]_Table
  <2>1. CASE UNCHANGED avoidPoints
    BY <2>1 DEF Table, Radii, PlacesOf
  <2>2. CASE \E p \in Danger : HandleRemavoid(p)
    BY <1>2, <2>2, RemavoidUnmarks DEF HandleRemavoid, ChaserIInv, Zones!ZoneNext
  <2>3. CASE \E p \in Danger : \E r \in Radius : HandleAvoid(p, r)
    BY <1>2, <2>3, AvoidMarks DEF HandleAvoid, ChaserIInv, Zones!ZoneNext
  <2>4. UNCHANGED avoidPoints \/ HandleMsgBuffer
    BY <1>2 DEF AI_loop, EnemySpotted, Dead, FlyAimlessly, GoToRandom, PlanPath, FlyPath,
                SearchStep, PathPlanned, EndFrame, allVars, chaserVars, dangerVars
  <2>5. HandleMsgBuffer /\ ~UNCHANGED avoidPoints
          => \/ \E p \in Danger : HandleRemavoid(p)
             \/ \E p \in Danger : \E r \in Radius : HandleAvoid(p, r)
    BY DEF HandleMsgBuffer, HandleTrait, dangerVars
  <2>. QED  BY <2>1, <2>2, <2>3, <2>4, <2>5
<1>. QED  BY <1>1, <1>2, ChaserInvariant, PTL DEF ChaserSpec, RefinesZones, Zones!ZoneSpec, Table
=============================================================================
