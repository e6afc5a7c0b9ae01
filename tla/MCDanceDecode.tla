---------------------------- MODULE MCDanceDecode ----------------------------
(* Coordinates for the run of DanceDecode. *)
EXTENDS DanceDecode

(* Every digit in every place of a number of up to three digits. *)
UpToThreeDigits ==
    Digit \cup {10 * d + ((d * 3 + 1) % 10) : d \in 1..9}
          \cup {100 * d + 10 * ((d * 7 + 2) % 10) + ((d + 9) % 10) : d \in 1..9}
=============================================================================
