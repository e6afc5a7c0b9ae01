------------------------------ MODULE MCChaser ------------------------------
EXTENDS Chaser

(* A square of four points with one diagonal; one danger point lies on the *)
(* road 1-2, and on the diagonal too with the larger radius, another on    *)
(* the road 3-4, the third beside the roads.                               *)
Square4 == <<[x |-> 0, y |-> 0], [x |-> 3, y |-> 0], [x |-> 3, y |-> 3], [x |-> 0, y |-> 3]>>
Roads5 == {{1, 2}, {2, 3}, {3, 4}, {4, 1}, {1, 3}}
CrossedRoads ==
  [p \in Danger |-> [r \in Radius |->
     CASE p = "d1" -> IF r = 1 THEN {{1, 2}} ELSE {{1, 2}, {1, 3}}
       [] p = "d2" -> {{3, 4}}
       [] OTHER -> {}]]
=============================================================================
