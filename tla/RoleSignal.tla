------------------------------ MODULE RoleSignal ------------------------------
(***************************************************************************)
(* How a bee's role reaches the server.  Every AI frame the bot presses a  *)
(* key for its role (sendSelfState, client/x11/cAI.c), the keyboard        *)
(* protocol of KeyboardLink carries the key vector, and the server takes   *)
(* the role from keys newly down (Handle_keyboard, server/event.c).        *)
(***************************************************************************)
EXTENDS KeyboardLink

CONSTANT Roles        \* the roles the bot goes through, a subset of 0..8

(* The roles whose X key is bound to a KEY_STATE_n key by default: the     *)
(* keypad keys pressed for roles 1 and 2 are not, and role 0 has none.     *)
BoundRoles == 3..8

ASSUME RoleAssumption ==
    /\ Roles \subseteq 0..8
    /\ Keys \subseteq 1..8        \* of KEY_STATE_1 to KEY_STATE_8
    /\ Roles \intersect BoundRoles \subseteq Keys

(* Position of KEY_STATE_n in the enumeration of common/keys.h. *)
KeyOrder(n) == IF n \in {7, 8} THEN n - 7 ELSE n + 1

VARIABLES
    role,        \* the bot's state
    announced,   \* the roles given to sendSelfState so far, newest last
    alive,       \* Player_is_alive on the server
    aiState,     \* the role the server shows, 0 at first
    dropped      \* history: roles whose key came while the player was dead,
                 \* since it last came home

roleVars == <<role, announced, alive, aiState, dropped>>
allVars == <<vars, roleVars>>

(* The types; the role shown is one there is a KEY_STATE key for, or none. *)
RoleTypeOK ==
    /\ TypeOK
    /\ role \in Roles
    /\ announced \in Seq(Roles)
    /\ alive \in BOOLEAN
    /\ aiState \in 0..8
    /\ dropped \subseteq Keys

RoleInit ==
    /\ Init
    /\ role \in Roles
    /\ announced = <<>>
    /\ alive = TRUE
    /\ aiState = 0
    /\ dropped = {}

-----------------------------------------------------------------------------
(* sendSelfState: the role's key is pressed and never released; a role     *)
(* without a bound key changes nothing.                                    *)
SendSelfState(r) ==
    /\ IF r \in BoundRoles
       THEN Press(r)
       ELSE UNCHANGED vars
    /\ announced' = IF announced # <<>> /\ announced[Len(announced)] = r
                    THEN announced ELSE Append(announced, r)

(* AI_loop: the role is announced in every frame. *)
Announce ==
    /\ inFrame
    /\ SendSelfState(role)
    /\ UNCHANGED <<role, alive, aiState, dropped>>

(* A role's controller changes the role and announces it at once. *)
SwitchRole(r) ==
    /\ inFrame
    /\ r # role
    /\ role' = r
    /\ SendSelfState(r)
    /\ UNCHANGED <<alive, aiState, dropped>>

LinkStep ==
    /\ \/ \E i \in DOMAIN frames : ReceiveFrame(i)
       \/ FinishFrame
       \/ SendFrame
       \/ \E d \in keyboards : LoseKeyboard(d)
    /\ UNCHANGED roleVars

(* Mutants of ShownAfter: the role before it, and no regard to whether    *)
(* the player is alive.                                                    *)
ShownAfterOff(down) ==
    IF alive /\ down # {} THEN (CHOOSE n \in down : TRUE) - 1 ELSE aiState

ShownAfterDead(down) ==
    IF ~alive /\ down # {} THEN CHOOSE n \in down : TRUE ELSE aiState

(* Handle_keyboard: keys newly down are handled in the order of keys.h, so *)
(* the last of them decides; a dead player's key is used up unheeded, and  *)
(* a key going up does nothing.                                            *)
ShownAfter(down) ==
    IF alive /\ down # {}
    THEN CHOOSE n \in down : \A m \in down : KeyOrder(m) <= KeyOrder(n)
    ELSE aiState

HandleKeyboard(d) ==
    /\ ReceiveKeyboard(d)
    /\ aiState' = ShownAfter(last_keyv' \ last_keyv)
    /\ dropped' = IF alive THEN dropped
                  ELSE dropped \cup (last_keyv' \ last_keyv)
    /\ UNCHANGED <<role, announced, alive>>

(* Kill_player; and Update_players when the player has recovered: for the  *)
(* server all its keys are up then, so those still down at the client come *)
(* as new ones with its next change.                                       *)
Die ==
    /\ alive
    /\ alive' = FALSE
    /\ UNCHANGED <<vars, role, announced, aiState, dropped>>

Recover ==
    /\ ~alive
    /\ alive' = TRUE
    /\ GoHome
    /\ dropped' = {}
    /\ UNCHANGED <<role, announced, aiState>>

RoleNext ==
    \/ Announce
    \/ \E r \in Roles : SwitchRole(r)
    \/ LinkStep
    \/ \E d \in keyboards : HandleKeyboard(d)
    \/ Die
    \/ Recover

RoleSpec == RoleInit /\ [][RoleNext]_allVars

-----------------------------------------------------------------------------
(* The role the server shows is one the bot did announce, however          *)
(* datagrams are lost or reordered (Handle_keyboard's KEY_STATE cases).    *)
ShownWasAnnounced ==
    aiState # 0 => \E i \in DOMAIN announced : announced[i] = aiState

(* With the types: the role shown is one that others can be told of, and   *)
(* one of the bot's own.                                                   *)
RoleInv == RoleTypeOK /\ ShownWasAnnounced

(* A bee that has announced a single bound role is shown in it once its    *)
(* key is acknowledged, unless the key arrived while the player was dead,  *)
(* and even then from its first change after it is home again (AI_loop's   *)
(* repeated presses, Go_home's clearing of the keys).                      *)
FirstRoleKnown ==
    \A r \in BoundRoles :
        /\ {announced[i] : i \in DOMAIN announced} \cap BoundRoles = {r}
        /\ ~Unacked /\ ~wiped
        => aiState = r \/ r \in dropped

(* "Sends state enum to server so that it can propagate it to the other    *)
(* clients" (cAI.h:128): once the server has acknowledged the bot's last   *)
(* key change, it shows the role the bot announced last.  It does not: a   *)
(* role's key is never released, so a role taken up again makes no edge.   *)
AnnouncedRoleKnown ==
    (announced # <<>> /\ ~Unacked /\ ~wiped /\ dropped = {})
        => aiState = announced[Len(announced)]
=============================================================================
