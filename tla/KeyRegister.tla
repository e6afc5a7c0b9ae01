----------------------------- MODULE KeyRegister -----------------------------
(***************************************************************************)
(* What the keyboard protocol between an XPilot client and its server      *)
(* promises, with no network in it: the client writes a new version of its *)
(* key vector with every change, and the server's copy only ever jumps     *)
(* forward to a version that was written.                                  *)
(***************************************************************************)
EXTENDS Naturals, Sequences

CONSTANT Keys

VARIABLES
    written,    \* written[n + 1] is the client's key vector of change n
    held        \* the number of the change whose vector the server holds

regVars == <<written, held>>

RegInit == written = << {} >> /\ held = 0

(* The client changes its vector: a new version, whatever keys it holds. *)
Write == /\ \E v \in SUBSET Keys : written' = Append(written, v)
         /\ UNCHANGED held

(* The server takes over a later version; versions between may be skipped. *)
Catchup == /\ held' \in (held + 1)..(Len(written) - 1)
           /\ UNCHANGED written

RegNext == Write \/ Catchup

RegSpec == RegInit /\ [][RegNext]_regVars
=============================================================================
