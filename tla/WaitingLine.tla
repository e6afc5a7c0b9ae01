---------------------------- MODULE WaitingLine ----------------------------
(***************************************************************************)
(* What the queue in front of a full server promises: whoever may enter    *)
(* has waited in line, the line moves in the order in which its members    *)
(* came, and only a word of the owner lets somebody go first.              *)
(***************************************************************************)
EXTENDS Sequences, Naturals, FiniteSets

CONSTANT Clients

VARIABLES line,     \* who waits, in order
          inside    \* who has got in and is not gone yet

LineInit == line = <<>> /\ inside = {}

Members == {line[i] : i \in 1..Len(line)}

Without(i) == SubSeq(line, 1, i - 1) \o SubSeq(line, i + 1, Len(line))

Join(c) ==
  /\ c \notin Members
  /\ line' = Append(line, c)
  /\ UNCHANGED inside

(* Somebody may have to go for the one who comes. *)
Admit ==
  /\ line # <<>>
  /\ line' = Tail(line)
  /\ Head(line) \in inside' /\ inside' \subseteq inside \union {Head(line)}

GiveUp ==
  /\ \E i \in 1..Len(line) : line' = Without(i)
  /\ inside' \subseteq inside

Favour ==
  /\ \E i \in 1..Len(line) : line' = <<line[i]>> \o Without(i)
  /\ UNCHANGED inside

Depart == inside' \subseteq inside /\ UNCHANGED line

LineNext == (\E c \in Clients : Join(c)) \/ Admit \/ GiveUp \/ Favour \/ Depart

LineSpec == LineInit /\ [][LineNext]_<<line, inside>>
=============================================================================
