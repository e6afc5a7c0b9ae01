------------------------------- MODULE Headings -------------------------------
(***************************************************************************)
(* The circle of headings, in eighths: the four headings of a dance, 90    *)
(* degrees apart, and what lies between them.  A heading is at one of the  *)
(* four when it is in the windows of two degrees (dancer) and five         *)
(* degrees (onlooker) around it; between them it is in neither window.     *)
(***************************************************************************)
EXTENDS Integers

Sector == 0..7

(* setDanceHeadings and the set-up of observeDanceMoves: the four headings *)
(* counted from the initial one.                                           *)
LeftOf(h) == (h + 2) % 8
RearOf(h) == (h + 4) % 8
RightOf(h) == (h + 6) % 8

(* turnToDeg and Players_turn: one frame's turn goes the shorter way round *)
(* (either way to the opposite heading), by an eighth or, with a high turn *)
(* speed, by a quarter, and never past its target.                         *)
Turned(h, target) ==
    LET d == (target - h) % 8
        ccw == {(h + s) % 8 : s \in {k \in {1, 2} : k <= d /\ d <= 4}}
        cw == {(h - s) % 8 : s \in {k \in {1, 2} : k <= 8 - d /\ d >= 4}}
    IN  IF d = 0 THEN {h} ELSE ccw \cup cw
=============================================================================
