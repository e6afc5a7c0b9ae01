-------------------------------- MODULE MCHive --------------------------------
(* The players of the run of Hive: a bee of one of two hives. *)
EXTENDS Hive

CONSTANTS h1, h2, c1

Lonely == <<h1>>
===============================================================================
