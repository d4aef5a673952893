---------------------------- MODULE UpdateSwitch ----------------------------
(***************************************************************************)
(* What Provider::Controller promises in the comments of provider.h        *)
(* (lines 73-79, 89-97, 106-109) to observers: a feature counts as wanted  *)
(* while at least one of them requests it, a disabled feature accepts no   *)
(* request, an enabled one accepts every request and starts with none.     *)
(***************************************************************************)
EXTENDS Naturals

CONSTANTS Users, Channels

VARIABLES
  users,    \* [Channels -> SUBSET Users]: who requests the updates
  open      \* [Channels -> BOOLEAN]: does the channel accept requests?

switchVars == <<users, open>>

SwitchTypeOK ==
  /\ users \in [Channels -> SUBSET Users]
  /\ open \in [Channels -> BOOLEAN]

SwitchInit ==
  /\ users = [c \in Channels |-> {}]
  /\ open = [c \in Channels |-> TRUE]

Request(u, c) ==
  /\ open[c]
  /\ u \notin users[c]
  /\ users' = [users EXCEPT ![c] = @ \union {u}]
  /\ UNCHANGED open

Release(u, c) ==
  /\ u \in users[c]
  /\ users' = [users EXCEPT ![c] = @ \ {u}]
  /\ UNCHANGED open

\* Disabling a channel evicts its users.
Close(c) ==
  /\ open[c]
  /\ users' = [users EXCEPT ![c] = {}]
  /\ open' = [open EXCEPT ![c] = FALSE]

\* So does enabling one that is enabled already: it starts afresh.
Open(c) ==
  /\ users' = [users EXCEPT ![c] = {}]
  /\ open' = [open EXCEPT ![c] = TRUE]

SwitchNext ==
  \E c \in Channels :
    \/ \E u \in Users : Request(u, c) \/ Release(u, c)
    \/ Close(c)
    \/ Open(c)

SwitchSpec == SwitchInit /\ [][SwitchNext]_switchVars
=============================================================================
