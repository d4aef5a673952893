------------------------- MODULE SessionProperties -------------------------
(***************************************************************************)
(* What sessions promise to clients, and what the service promises itself  *)
(* about the sessions of clients that are gone.                            *)
(***************************************************************************)
EXTENDS SessionService

\* The service will still hear that c is gone.
LostPending(c) == \E i \in 1 .. Len(inbox) : inbox[i] = [op |-> "lost", from |-> c]

\* No call of c is under way, answered late or not.
Settled(c) == c \in alive \ waiting /\ Outstanding(c) = 0

(***************************************************************************)
(* When no call is under way, the status a Stub shows is the status of its *)
(* session at the service, with the client as owner, whatever happened to  *)
(* other clients and sessions, and to calls that timed out and were        *)
(* handled late (session/stub.cpp 71-94, session/skeleton.cpp 108-278).    *)
(* Holds as long as no client uses heading updates, and the service does   *)
(* not restart under the Stubs.                                            *)
(***************************************************************************)
StatusAgrees ==
  ~restarted => \A c \in Clients, p \in Paths :
    Settled(c) /\ p \in mine[c] => /\ p \in DOMAIN store
                     /\ store[p].owner = c
                     /\ store[p].enabled = wants[c][p]

(***************************************************************************)
(* A client may go while the permission check for its session runs, and    *)
(* the service then stores a session nobody will ever remove (service/     *)
(* skeleton.cpp 134-168).  Such a session never has updates enabled, so no *)
(* provider is kept running for a client that is gone.                     *)
(***************************************************************************)
OrphansAreIdle ==
  ~restarted => \A p \in DOMAIN store :
    store[p].owner \notin alive /\ ~LostPending(store[p].owner) => store[p].enabled = {}

(***************************************************************************)
(* Nobody but its owner switches the updates of a session: the handlers do *)
(* not look at the sender, but paths are not handed out twice in one life  *)
(* of the service (service/skeleton.cpp 59-65).                            *)
(***************************************************************************)
OnlyOwnerSwitches ==
  [][~restarted =>
       \A p \in DOMAIN store \intersect DOMAIN store' :
         store'[p].enabled # store[p].enabled => Message.from = store[p].owner]_vars

(***************************************************************************)
(* The updates a client leaves enabled when it goes end (service/skeleton  *)
(* .cpp 162-166), provided every permission check ends: the check blocks   *)
(* the dispatch of everything else.  After a restart of the service a      *)
(* stale Stub may have enabled them for a client that was gone before.     *)
(***************************************************************************)
DeadClientsAreReleased ==
  []<>(prompt = NoClient) =>
    \A p \in Paths, c \in Clients :
      (p \in DOMAIN store /\ store[p].owner = c /\ store[p].enabled # {} /\ c \notin alive)
        ~> p \notin DOMAIN store \/ restarted

(***************************************************************************)
(* Every call of a client is answered, also a rejected one, one to a       *)
(* session that is gone and one that waits behind another client's prompt  *)
(* (service/skeleton.cpp 180-201), provided every permission check ends;   *)
(* and a restart of the service leaves no client waiting.                  *)
(***************************************************************************)
CallsReturn ==
  []<>(prompt = NoClient) => \A c \in Clients : c \in waiting ~> c \notin waiting

(***************************************************************************)
(* "Updates are enabled and delivered to this session" (session/interface  *)
(* .h 73): what a client enabled on its session is enabled at the service. *)
(***************************************************************************)
EnabledDelivered ==
  \A c \in Clients, p \in Paths :
    Settled(c) /\ p \in mine[c] /\ p \in DOMAIN store /\ store[p].owner = c
      => wants[c][p] \subseteq store[p].enabled
=============================================================================
