--------------------------- MODULE SessionService ---------------------------
(***************************************************************************)
(* Sessions of clients with the service: service/skeleton.cpp and its      *)
(* session store, session/skeleton.cpp and session/implementation.cpp on   *)
(* the service's side, session/stub.cpp on the client's.                   *)
(*                                                                         *)
(* The service dispatches the messages of its incoming bus connection one  *)
(* at a time, in the order in which the bus daemon forwarded them, and it  *)
(* hears that a client is gone only if a watcher of the client's name      *)
(* existed when the client went.  A client makes one call at a time and    *)
(* waits for the reply; a reply takes effect at the client when the        *)
(* handler sends it.                                                       *)
(***************************************************************************)
EXTENDS Naturals, Sequences, FiniteSets

CONSTANTS
  Clients,      \* bus connections, by unique name (never reused by the bus)
  NoClient,     \* not a client
  Features,     \* the features clients use, among position, heading, velocity
  MaxSessions,  \* bound: sessions created in one life of the service
  MaxLate,      \* bound: calls given up by a client and still to be handled
  Restarts      \* may the service crash and come up again?

ASSUME SessionAssumption ==
  /\ IsFiniteSet(Clients)
  /\ NoClient \notin Clients
  /\ Features \subseteq {"position", "heading", "velocity"}
  /\ MaxSessions \in Nat \ {0} /\ MaxLate \in Nat
  /\ Restarts \in BOOLEAN

Paths == 0 .. MaxSessions - 1   \* "/sessions/<index>"

VARIABLES
  alive,      \* the clients connected to the bus
  waiting,    \* the clients waiting for a reply
  mine,       \* [Clients -> SUBSET Paths]: the Stubs a client holds
  wants,      \* [Clients -> [Paths -> SUBSET Features]]: *_status of the Stubs
  inbox,      \* messages the incoming connection has still to dispatch
  prompt,     \* the client for whose session the permission check runs
  index,      \* the static counter of ObjectPathGenerator
  store,      \* session_store: [a set of paths -> Session]
  restarted   \* has the service come up again? (history)

clientVars == <<alive, waiting, mine, wants>>
serviceVars == <<inbox, prompt, index, store, restarted>>
vars == <<clientVars, serviceVars>>

\* enabled: the *_status of the implementation.
Session == [owner : Clients, enabled : SUBSET Features]

Messages ==
  [op : {"create", "lost"}, from : Clients]
  \union [op : {"start", "stop"}, from : Clients, path : Paths, feature : Features]

TypeOK ==
  /\ alive \subseteq Clients
  /\ waiting \subseteq alive
  /\ mine \in [Clients -> SUBSET Paths]
  /\ wants \in [Clients -> [Paths -> SUBSET Features]]
  /\ inbox \in Seq(Messages)
  /\ prompt \in Clients \union {NoClient}
  /\ index \in 0 .. MaxSessions
  /\ DOMAIN store \subseteq 0 .. index - 1
  /\ store \in [DOMAIN store -> Session]
  /\ restarted \in BOOLEAN

NoStubs == [c \in Clients |-> {}]
NothingWanted == [c \in Clients |-> [p \in Paths |-> {}]]

Init ==
  /\ alive = Clients
  /\ waiting = {}
  /\ mine = NoStubs
  /\ wants = NothingWanted
  /\ inbox = <<>>
  /\ prompt = NoClient
  /\ index = 0
  /\ store = [p \in {} |-> 0]
  /\ restarted = FALSE

SessionsOf(c) == {p \in DOMAIN store : store[p].owner = c}
Without(paths) == [p \in DOMAIN store \ paths |-> store[p]]

-----------------------------------------------------------------------------
(* Clients. *)

Send(m) == inbox' = Append(inbox, m)

\* Sessions asked for and not yet answered.
Asked ==
  Cardinality({i \in 1 .. Len(inbox) : inbox[i].op = "create"})
    + (IF prompt = NoClient THEN 0 ELSE 1)

\* The calls of c the service has not answered yet.
Outstanding(c) ==
  Cardinality({i \in 1 .. Len(inbox) : inbox[i].from = c /\ inbox[i].op # "lost"})
    + (IF prompt = c THEN 1 ELSE 0)

ClientCreates(c) ==
  /\ c \in alive \ waiting
  /\ index + Asked < MaxSessions
  /\ waiting' = waiting \union {c}
  /\ Send([op |-> "create", from |-> c])
  /\ UNCHANGED <<alive, mine, wants, prompt, index, store, restarted>>

\* Writing a status of the Stub: the property changes, then the call is made.
ClientEnables(c, p, f) ==
  /\ c \in alive \ waiting
  /\ p \in mine[c]
  /\ f \notin wants[c][p]
  /\ wants' = [wants EXCEPT ![c][p] = @ \union {f}]
  /\ waiting' = waiting \union {c}
  /\ Send([op |-> "start", from |-> c, path |-> p, feature |-> f])
  /\ UNCHANGED <<alive, mine, prompt, index, store, restarted>>

ClientDisables(c, p, f) ==
  /\ c \in alive \ waiting
  /\ p \in mine[c]
  /\ f \in wants[c][p]
  /\ wants' = [wants EXCEPT ![c][p] = @ \ {f}]
  /\ waiting' = waiting \union {c}
  /\ Send([op |-> "stop", from |-> c, path |-> p, feature |-> f])
  /\ UNCHANGED <<alive, mine, prompt, index, store, restarted>>

\* ~Stub: nothing is sent, the calls that stopped the updates are commented out.
ClientDrops(c, p) ==
  /\ c \in alive \ waiting
  /\ p \in mine[c]
  /\ mine' = [mine EXCEPT ![c] = @ \ {p}]
  /\ wants' = [wants EXCEPT ![c][p] = {}]
  /\ UNCHANGED <<alive, waiting, serviceVars>>

\* A call has waited for its 5 or 25 seconds, which only a user who does not
\* answer a prompt makes it do: the client goes on, with the status it has
\* set, and the service knows nothing of it.
TimesOut(c) ==
  /\ c \in waiting
  /\ prompt # NoClient
  /\ Outstanding(c) <= MaxLate
  /\ waiting' = waiting \ {c}
  /\ UNCHANGED <<alive, mine, wants, serviceVars>>

\* A client exits or crashes, at any time.  The bus daemon reports it to the
\* service if a rule of a ServiceWatcher matches.
ClientGoes(c) ==
  /\ c \in alive
  /\ alive' = alive \ {c}
  /\ waiting' = waiting \ {c}
  /\ mine' = [mine EXCEPT ![c] = {}]
  /\ wants' = [wants EXCEPT ![c] = [p \in Paths |-> {}]]
  /\ IF SessionsOf(c) # {} THEN Send([op |-> "lost", from |-> c]) ELSE UNCHANGED inbox
  /\ UNCHANGED <<prompt, index, store, restarted>>

-----------------------------------------------------------------------------
(* The service. *)

\* The incoming connection is free, and this is its next message.
Dispatching(op) == prompt = NoClient /\ inbox # <<>> /\ Head(inbox).op = op
Message == Head(inbox)

\* A client waits for its last call alone: a reply to one it has given up,
\* with another of its calls in the rest of the inbox, is dropped.
Awaits(c, rest) == c \in waiting /\ \A i \in 1 .. Len(rest) : rest[i].from # c
ReplyTo(c, rest) == waiting' = IF Awaits(c, rest) THEN waiting \ {c} ELSE waiting

\* handle_create_session_for_criteria up to the permission check.  For a
\* client that is gone the credentials cannot be resolved.
BeginCreate ==
  /\ Dispatching("create")
  /\ inbox' = Tail(inbox)
  /\ prompt' = IF Message.from \in alive THEN Message.from ELSE NoClient
  /\ UNCHANGED <<clientVars, index, store, restarted>>

\* Mutant: the exception leaves the handler before a reply is made.
RejectCreate_Silent ==
  /\ prompt # NoClient
  /\ prompt' = NoClient
  /\ UNCHANGED <<clientVars, inbox, index, store, restarted>>

RejectCreate ==
  /\ prompt # NoClient
  /\ ReplyTo(prompt, inbox)
  /\ prompt' = NoClient
  /\ UNCHANGED <<alive, mine, wants, inbox, index, store, restarted>>

NewPath == index

\* From the granted permission to the reply: path, watcher, store.  A Stub
\* starts with everything disabled; it takes the place of one the client may
\* hold for that path from a former life of the service.
GrantCreate ==
  /\ prompt # NoClient
  /\ index' = index + 1
  /\ store' = [p \in DOMAIN store \union {NewPath} |->
                 IF p = NewPath THEN [owner |-> prompt, enabled |-> {}]
                                ELSE store[p]]
  /\ IF Awaits(prompt, inbox)
       THEN /\ mine' = [mine EXCEPT ![prompt] = @ \union {NewPath}]
            /\ wants' = [wants EXCEPT ![prompt][NewPath] = {}]
       ELSE UNCHANGED <<mine, wants>>
  /\ ReplyTo(prompt, inbox)
  /\ prompt' = NoClient
  /\ UNCHANGED <<alive, inbox, restarted>>

\* Mutant: the handlers of all sessions hang on one object.
Addressed_All(p) == DOMAIN store

\* The sessions whose object has the path p; none once it is removed.
Addressed(p) == DOMAIN store \intersect {p}

\* on_start_heading_updates sets position_status (session/skeleton.cpp 174).
Started(f) == IF f = "heading" THEN "position" ELSE f

HandleStart ==
  LET m == Message IN
  /\ Dispatching("start")
  /\ inbox' = Tail(inbox)
  /\ store' = [p \in DOMAIN store |->
                 IF p \in Addressed(m.path)
                   THEN [store[p] EXCEPT !.enabled = @ \union {Started(m.feature)}]
                   ELSE store[p]]
  /\ ReplyTo(m.from, Tail(inbox))
  /\ UNCHANGED <<alive, mine, wants, prompt, index, restarted>>

HandleStop ==
  LET m == Message IN
  /\ Dispatching("stop")
  /\ inbox' = Tail(inbox)
  /\ store' = [p \in DOMAIN store |->
                 IF p \in Addressed(m.path)
                   THEN [store[p] EXCEPT !.enabled = @ \ {m.feature}]
                   ELSE store[p]]
  /\ ReplyTo(m.from, Tail(inbox))
  /\ UNCHANGED <<alive, mine, wants, prompt, index, restarted>>

\* Mutant: the first watcher to fire removes its session, the others do not.
HandleLost_First ==
  /\ Dispatching("lost")
  /\ inbox' = Tail(inbox)
  /\ \E p \in SessionsOf(Message.from) : store' = Without({p})
  /\ UNCHANGED <<clientVars, prompt, index, restarted>>

\* owner_changed of every watcher of that name removes its session, and
\* ~Implementation stops the session's updates.
HandleLost ==
  /\ Dispatching("lost")
  /\ inbox' = Tail(inbox)
  /\ store' = Without(SessionsOf(Message.from))
  /\ UNCHANGED <<clientVars, prompt, index, restarted>>

\* The service comes up again under the same name, with no session.  Clients
\* that waited get an error, their Stubs and the status they show remain.
Restart ==
  /\ Restarts
  /\ inbox' = <<>>
  /\ prompt' = NoClient
  /\ index' = 0
  /\ store' = [p \in {} |-> 0]
  /\ waiting' = {}
  /\ restarted' = TRUE
  /\ UNCHANGED <<alive, mine, wants>>

-----------------------------------------------------------------------------
ClientStep(c) ==
  \/ ClientCreates(c)
  \/ \E p \in Paths :
       \/ \E f \in Features : ClientEnables(c, p, f) \/ ClientDisables(c, p, f)
       \/ ClientDrops(c, p)
  \/ TimesOut(c)
  \/ ClientGoes(c)

Dispatch == BeginCreate \/ HandleStart \/ HandleStop \/ HandleLost
Answer == GrantCreate \/ RejectCreate

Next ==
  \/ \E c \in Clients : ClientStep(c)
  \/ Dispatch
  \/ Answer
  \/ Restart

Spec == Init /\ [][Next]_vars

\* The bus thread keeps dispatching.  Nobody makes the user answer a prompt.
FairSpec == Spec /\ WF_vars(Dispatch)
=============================================================================
