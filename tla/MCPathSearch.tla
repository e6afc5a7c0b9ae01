---------------------------- MODULE MCPathSearch ----------------------------
EXTENDS PathSearch

(* Points 4, 2, 3, 1 lie nearly on a diagonal, whose roads are rounded     *)
(* down from 2.8, 5.6 and 6.4; 5 lies beside it.                           *)
At(a, b) == [x |-> a, y |-> b]
FivePoints == <<At(4, 4), At(0, 0), At(2, 2), At(-1, 0), At(1, 3)>>
SevenRoads == {{4, 2}, {2, 3}, {3, 1}, {4, 1}, {4, 5}, {5, 1}, {2, 5}}
=============================================================================
