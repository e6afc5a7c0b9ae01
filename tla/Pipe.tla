-------------------------------- MODULE Pipe --------------------------------
(***************************************************************************)
(* What the reliable data stream promises over a network that loses,       *)
(* repeats and reorders: what one side writes the other side gets, in      *)
(* order and once, and the writer forgets nothing that did not arrive.     *)
(***************************************************************************)
EXTENDS Naturals, Sequences

VARIABLES written,    \* everything written so far
          got,        \* everything that arrived
          forgotten   \* how much of it the writer no longer keeps

PipeInit == written = <<>> /\ got = <<>> /\ forgotten = 0

Write ==
  /\ \E n \in 1..Len(written') : written = SubSeq(written', 1, Len(written') - n)
  /\ UNCHANGED <<got, forgotten>>

Arrive ==
  /\ Len(got') \in Len(got) + 1..Len(written)
  /\ got' = SubSeq(written, 1, Len(got'))
  /\ UNCHANGED <<written, forgotten>>

Forget ==
  /\ forgotten' \in forgotten + 1..Len(got)
  /\ UNCHANGED <<written, got>>

PipeSpec == PipeInit /\ [][Write \/ Arrive \/ Forget]_<<written, got, forgotten>>
=============================================================================
