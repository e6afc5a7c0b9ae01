------------------------------ MODULE MCWaggle ------------------------------
(* The honey is at (7, 10): 7 is danced left, left, right, and 10 has two  *)
(* digits, so a pause follows a left, a right and a pause.                 *)
EXTENDS Waggle

DanceOfX == BuildDance(7)
DanceOfY == BuildDance(10)
=============================================================================
