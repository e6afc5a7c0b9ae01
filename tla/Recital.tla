------------------------------- MODULE Recital -------------------------------
(***************************************************************************)
(* What watching a waggle dance is meant to achieve, with no headings and  *)
(* no frames in it: the dancer performs its symbols one after the other,   *)
(* the onlooker notes each one after it was performed, once and in order,  *)
(* and believes the dance to be over only when it has noted all of it.     *)
(***************************************************************************)
EXTENDS Naturals, Sequences

CONSTANT Text        \* the symbols of the dance, as the onlooker notes them

VARIABLES
    performed,       \* how many symbols the dancer has shown
    noted,           \* the symbols the onlooker has noted
    learned          \* the onlooker has taken the dance as finished

recitalVars == <<performed, noted, learned>>

RecitalInit == performed = 0 /\ noted = <<>> /\ ~learned

Perform ==
    /\ performed < Len(Text)
    /\ performed' = performed + 1
    /\ UNCHANGED <<noted, learned>>

Note ==
    /\ Len(noted) < performed
    /\ noted' = Append(noted, Text[Len(noted) + 1])
    /\ UNCHANGED <<performed, learned>>

Learn ==
    /\ noted = Text
    /\ ~learned
    /\ learned' = TRUE
    /\ UNCHANGED <<performed, noted>>

RecitalSpec == RecitalInit /\ [][Perform \/ Note \/ Learn]_recitalVars
=============================================================================
