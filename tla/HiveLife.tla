------------------------------- MODULE HiveLife -------------------------------
(***************************************************************************)
(* The life of one hive, with no bees and no map in it: foragers bring it  *)
(* honey, time and robbers take some away, nurses put some aside, and what *)
(* is put aside raises new bees.  A hive without honey is dead: nothing    *)
(* fills it again.                                                         *)
(***************************************************************************)
EXTENDS Naturals

CONSTANT Threshold      \* the honey it takes to raise a bee

VARIABLES
    honey,              \* in the hive
    aside,              \* put aside for the next bee
    raised              \* bees raised

hiveVars == <<honey, aside, raised>>

HiveInit == honey \in Nat \ {0} /\ aside \in Nat /\ raised = 0

Bring == honey > 0 /\ \E x \in 1..honey : honey' = honey + x
Take == honey > 0 /\ \E x \in 1..honey : honey' = honey - x

BringOrTake == (Bring \/ Take) /\ UNCHANGED <<aside, raised>>

(* What is put aside is what the hive gives; a bee costs Threshold. *)
Nurse ==
    /\ Take
    /\ \E n \in {0, 1} :
         /\ raised' = raised + n
         /\ aside' + n * Threshold = aside + (honey - honey')

HiveNext == BringOrTake \/ Nurse

HiveSpec == HiveInit /\ [][HiveNext]_hiveVars
=============================================================================
