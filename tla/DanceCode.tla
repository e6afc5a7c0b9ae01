------------------------------ MODULE DanceCode ------------------------------
(***************************************************************************)
(* The waggle dance as a code: how a dancer spells a coordinate in moves   *)
(* (beeDance.c, buildDance) and how an onlooker reads a digit back         *)
(* (beeObserve.c, convertToNumber).  The digits are the nodes of a binary  *)
(* tree without a root: 0 and 1 on top, the children of n at 2n+2 (left)   *)
(* and 2n+3 (right); a digit is danced as the path to its node.            *)
(***************************************************************************)
EXTENDS Integers, Sequences, SequencesExt

left == "l"
right == "r"
endOfSequence == "p"          \* a pause, danced by turning to the rear
endOfWord == "_"              \* the same, as the onlooker writes it down

Digit == 0..9
Noted == {left, right, endOfWord}

(* getParent and the walk of getDepthOfNumber; C division, n >= 0. *)
Parent(n) == n \div 2 - 1

Depth[n \in Digit] == IF Parent(n) >= 0 THEN 1 + Depth[Parent(n)] ELSE 1

(* buildDance, "Get path to idx": from the top of the tree down to n, the  *)
(* parity of each node telling on which side of its parent it hangs.       *)
Path[n \in Digit] ==
    (IF Parent(n) >= 0 THEN Path[Parent(n)] ELSE <<>>)
       \o << IF n % 2 = 0 THEN left ELSE right >>

(* buildDance, units[]: the decimal digits, the highest first. *)
Units[n \in Nat] == IF n < 10 THEN <<n>> ELSE Append(Units[n \div 10], n % 10)

(* buildDance: a pause after every digit and a second one at the end. *)
Spell[digits \in Seq(Digit)] ==
    IF digits = <<>> THEN <<>>
    ELSE Spell[Front(digits)] \o Append(Path[Last(digits)], endOfSequence)

BuildDance(coords) == Append(Spell[Units[coords]], endOfSequence)

(* convertToNumber: at most three moves, from -1 down the tree. *)
ConvertToNumber[moves \in Seq(Noted)] ==
    IF moves = <<>> THEN -1
    ELSE (ConvertToNumber[Front(moves)] + 1) * 2 + (IF Last(moves) = left THEN 0 ELSE 1)

(* How the onlooker writes a danced symbol down. *)
AsHeard(symbol) == IF symbol = endOfSequence THEN endOfWord ELSE symbol

(* A whole dance as danced: foundSource (left), then both coordinates. *)
WholeDance(x, y) == <<left>> \o BuildDance(x) \o BuildDance(y)

(* The array an onlooker has filled after watching all of a dance. *)
Heard(dance) == [i \in DOMAIN dance |-> AsHeard(dance[i])]

Tape(x, y) == Heard(WholeDance(x, y))
=============================================================================
