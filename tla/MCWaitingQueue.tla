--------------------------- MODULE MCWaitingQueue ---------------------------
(***************************************************************************)
(* The queue, for four clients: two of one nick, three of one host.        *)
(***************************************************************************)
EXTENDS WaitingQueue

CONSTANTS anna, anna2, bert, carl

MCClients == {anna, anna2, bert, carl}
MCNickOf  == [c \in MCClients |-> IF c = anna2 THEN anna ELSE c]
MCHostOf  == [c \in MCClients |-> IF c = anna2 THEN "away" ELSE "home"]
=============================================================================
