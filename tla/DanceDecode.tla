----------------------------- MODULE DanceDecode -----------------------------
(***************************************************************************)
(* Reading the coordinates back (beeObserve.c, interpretCoord, called by   *)
(* observeDance for x and then for y).  The loop has fixed buffers and an  *)
(* index into the recorded moves that lives from one call to the next, so  *)
(* it is a state machine here, one action per pass of the loop.            *)
(***************************************************************************)
EXTENDS DanceCode, FiniteSets

CONSTANTS
    Coords,             \* the coordinates a dance may be about
    MaxDanceMoves,      \* max_dance_moves: the recorded moves' array, 25
    NumberSize          \* the array of digits read, 3 (as is that of moves)

ASSUME DecodeAssumption ==
    /\ Coords \subseteq Nat
    /\ MaxDanceMoves \in Nat
    /\ NumberSize \in Nat \ {0}

MovesSize == 3

VARIABLES
    danced,         \* the coordinates that were danced
    dance,          \* the moves the onlooker recorded
    coord,          \* the coordinate being read: 1 (x), 2 (y), 3 (none)
    dance_index,    \* static: the next recorded move, from 0 as in C
    moves,          \* moves of the digit being read
    number,         \* digits read
    honey           \* the coordinates stored

vars == <<danced, dance, coord, dance_index, moves, number, honey>>

(* dance[n] in C; behind the moves recorded the array is zero. *)
At(n) == IF n < Len(dance) THEN dance[n + 1] ELSE "none"

(* The types; only digits are read, and only moves kept                   *)
(* (interpretCoord, convertToNumber).                                      *)
TypeOK ==
    /\ danced \in Coords \X Coords
    /\ dance \in Seq(Noted)
    /\ coord \in 1..3
    /\ dance_index \in Nat
    /\ moves \in Seq(Noted \union {"none"})
    /\ number \in Seq(Digit)
    /\ honey \in Seq(Nat)

(* A dance that overruns the array of recorded moves is not modelled. *)
Init ==
    /\ danced \in {c \in Coords \X Coords :
                      Len(Tape(c[1], c[2])) <= MaxDanceMoves}
    /\ dance = Tape(danced[1], danced[2])
    /\ coord = 1
    /\ dance_index = 1              \* X_COORD_START: behind the dance type
    /\ moves = <<>>
    /\ number = <<>>
    /\ honey = <<>>

(* number[number_index] = convertToNumber(moves).  What lies behind number *)
(* is the array of moves, as gcc lays the two out, which is zeroed next:   *)
(* a digit stored there is gone, and strtol finds the end of the number.   *)
StoreDigit(d) == IF Len(number) < NumberSize THEN Append(number, d) ELSE number

(* strtol over the digits read. *)
Value[digits \in Seq(Nat)] ==
    IF digits = <<>> THEN 0 ELSE 10 * Value[Front(digits)] + Last(digits)

InDigit == At(dance_index + 1) # endOfWord

(* Mutant of ReadDigit: the digits are put down from right to left. *)
ReadDigitBackwards ==
    /\ coord < 3
    /\ Len(moves) < MovesSize
    /\ ~InDigit
    /\ At(dance_index + 2) # endOfWord
    /\ number' = <<ConvertToNumber[Append(moves, At(dance_index))]>> \o number
    /\ moves' = <<>>
    /\ dance_index' = dance_index + 2
    /\ UNCHANGED <<danced, dance, coord, honey>>

(* A pass of the loop that reads one move of a digit. *)
ReadMove ==
    /\ coord < 3
    /\ Len(moves) < MovesSize
    /\ InDigit
    /\ moves' = Append(moves, At(dance_index))
    /\ dance_index' = dance_index + 1
    /\ UNCHANGED <<danced, dance, coord, number, honey>>

(* A pass that reads the last move of a digit, and not of a coordinate. *)
ReadDigit ==
    /\ coord < 3
    /\ Len(moves) < MovesSize
    /\ ~InDigit
    /\ At(dance_index + 2) # endOfWord
    /\ number' = StoreDigit(ConvertToNumber[Append(moves, At(dance_index))])
    /\ moves' = <<>>
    /\ dance_index' = dance_index + 2
    /\ UNCHANGED <<danced, dance, coord, honey>>

(* Mutant of ReadCoord: the second pause is not skipped. *)
ReadCoordShort ==
    /\ coord < 3
    /\ Len(moves) < MovesSize
    /\ ~InDigit
    /\ At(dance_index + 2) = endOfWord
    /\ honey' = Append(honey, Value[StoreDigit(
                    ConvertToNumber[Append(moves, At(dance_index))])])
    /\ moves' = <<>>
    /\ number' = <<>>
    /\ dance_index' = dance_index + 2
    /\ coord' = coord + 1
    /\ UNCHANGED <<danced, dance>>

(* A pass that meets the second pause: the coordinate is complete. *)
ReadCoord ==
    /\ coord < 3
    /\ Len(moves) < MovesSize
    /\ ~InDigit
    /\ At(dance_index + 2) = endOfWord
    /\ honey' = Append(honey, Value[StoreDigit(
                    ConvertToNumber[Append(moves, At(dance_index))])])
    /\ moves' = <<>>
    /\ number' = <<>>
    /\ dance_index' = dance_index + 3
    /\ coord' = coord + 1
    /\ UNCHANGED <<danced, dance>>

(* Both read, or a digit of four moves: nothing more is modelled. *)
Done == (coord = 3 \/ Len(moves) = MovesSize) /\ UNCHANGED vars

Next == ReadMove \/ ReadDigit \/ ReadCoord \/ Done

Spec == Init /\ [][Next]_vars /\ WF_vars(Next)

-----------------------------------------------------------------------------
(* What is read is what was danced: no digit is lost, merged or invented   *)
(* on the way (buildDance against interpretCoord and convertToNumber).     *)
ReadsCoordinates == \A n \in DOMAIN honey : honey[n] = danced[n]

(* The loop never runs off the recorded moves or over its move buffer, and *)
(* having read both coordinates it has used up the moves exactly, so that  *)
(* its static index stands where a next dance would be recorded.           *)
StaysInDance ==
    /\ dance_index <= Len(dance)
    /\ Len(moves) < MovesSize
    /\ coord = 3 => dance_index = Len(dance)

(* With the types: only digits are read, and only moves kept. *)
DecodeInv == TypeOK /\ StaysInDance
=============================================================================
