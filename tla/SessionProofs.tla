---------------------------- MODULE SessionProofs ----------------------------
(***************************************************************************)
(* What SessionProperties says of the sessions of one life of the service, *)
(* for every number of clients, sessions and calls given up, as long as no *)
(* client uses heading updates (which the service books as position        *)
(* updates, so that nothing here holds of them).                           *)
(*                                                                         *)
(* The argument follows a switch through the inbox.  The switches of one   *)
(* feature of one session are kept as two sets of places, and the set      *)
(* whose last place comes last is what the session will show: it agrees    *)
(* with the Stub (Shown).  Switches come from the owner, as paths are not  *)
(* handed out twice (Fresh, Owned), and before the report that the owner   *)
(* is gone, which ends the session (Reported).                             *)
(***************************************************************************)
EXTENDS SessionProperties, FiniteSetTheorems, TLAPS

-----------------------------------------------------------------------------
(* The inbox, as sets of places. *)

Creates == {i \in 1 .. Len(inbox) : inbox[i].op = "create"}
Places(op, p, f) ==
  {i \in 1 .. Len(inbox) : inbox[i].op = op /\ inbox[i].path = p /\ inbox[i].feature = f}
Starts(p, f) == Places("start", p, f)
Stops(p, f) == Places("stop", p, f)
Losts(c) == {i \in 1 .. Len(inbox) : inbox[i].op = "lost" /\ inbox[i].from = c}
From(c) == {i \in 1 .. Len(inbox) : inbox[i].from = c}

\* What is left of a set of places when the first message is taken.
Rest(A) == {i \in Nat \ {0} : i + 1 \in A}

Followed(A, B) == \A i \in A : \E j \in B : i < j

\* Taking the first message keeps the order of two kinds of messages, and a
\* message that must be followed is not the last.
LEMMA RestKeeps ==
  ASSUME NEW A \in SUBSET (Nat \ {0}), NEW B \in SUBSET (Nat \ {0})
  PROVE  /\ Followed(A, B) => Followed(Rest(A), Rest(B))
         /\ A \subseteq B => Rest(A) \subseteq Rest(B)
         /\ 1 \notin A => (A = {} <=> Rest(A) = {})
         /\ 1 \in A /\ Followed(A, B) => Rest(B) # {}
<1>1. /\ \A i \in A : i = 1 \/ i - 1 \in Rest(A)
      /\ \A i \in B : i = 1 \/ i - 1 \in Rest(B)
  BY DEF Rest
<1>2. /\ \A i \in Rest(A) : i \in Nat \ {0} /\ i + 1 \in A
      /\ \A i \in Rest(B) : i \in Nat \ {0} /\ i + 1 \in B
  BY DEF Rest
<1>3. Followed(A, B) => Followed(Rest(A), Rest(B))
  <2> SUFFICES ASSUME Followed(A, B), NEW i \in Rest(A)
               PROVE  \E j \in Rest(B) : i < j
    BY DEF Followed
  <2>1. PICK j \in B : i + 1 < j
    BY <1>2 DEF Followed
  <2> QED
    BY <2>1, <1>1, <1>2
<1>4. A \subseteq B => Rest(A) \subseteq Rest(B)
  BY DEF Rest
<1>5. 1 \notin A => (A = {} <=> Rest(A) = {})
  BY <1>1, <1>2
<1>6. 1 \in A /\ Followed(A, B) => Rest(B) # {}
  <2> SUFFICES ASSUME 1 \in A, Followed(A, B) PROVE Rest(B) # {}
    OBVIOUS
  <2>1. PICK j \in B : 1 < j
    BY DEF Followed
  <2> QED
    BY <2>1, <1>1
<1> QED
  BY <1>3, <1>4, <1>5, <1>6

\* The first message counted once is not counted again.
LEMMA RestIsFewer ==
  ASSUME NEW A \in SUBSET (Nat \ {0}), IsFiniteSet(A)
  PROVE  /\ IsFiniteSet(Rest(A))
         /\ Cardinality(Rest(A)) <= Cardinality(A)
         /\ 1 \in A => Cardinality(Rest(A)) + 1 <= Cardinality(A)
<1> DEFINE up == [i \in Rest(A) |-> i + 1]
<1>1. /\ IsFiniteSet(A \ {1})
      /\ Cardinality(A \ {1}) = IF 1 \in A THEN Cardinality(A) - 1 ELSE Cardinality(A)
      /\ Cardinality(A) \in Nat
  BY FS_RemoveElement, FS_CardinalityType
<1>2. up \in Injection(Rest(A), A \ {1})
  BY DEF Injection, IsInjective, Rest
<1>3. IsFiniteSet(Rest(A)) /\ Cardinality(Rest(A)) <= Cardinality(A \ {1})
  BY <1>1, <1>2, FS_Injection
<1>4. Cardinality(Rest(A)) \in Nat
  BY <1>3, FS_CardinalityType
<1> QED
  BY <1>1, <1>3, <1>4

-----------------------------------------------------------------------------
(* The inbox, as the steps change it. *)

\* Places of calls that create are places of the inbox.
LEMMA CreatesArePositive ==
  ASSUME TypeOK
  PROVE  /\ Creates \in SUBSET (Nat \ {0}) /\ IsFiniteSet(Creates)
         /\ \A i \in Creates : i < Len(inbox) + 1
<1>1. Len(inbox) \in Nat /\ IsFiniteSet(1 .. Len(inbox))
  BY FS_Interval DEF TypeOK
<1>2. IsFiniteSet(Creates)
  BY <1>1, FS_Subset DEF Creates
<1> QED
  BY <1>1, <1>2 DEF Creates

\* Places of other messages are places of the inbox.
LEMMA PlacesArePositive ==
  ASSUME TypeOK
  PROVE  /\ \A op, p, f : Places(op, p, f) \in SUBSET (Nat \ {0})
         /\ \A c : Losts(c) \in SUBSET (Nat \ {0}) /\ From(c) \in SUBSET (Nat \ {0})
         /\ \A op, p, f : \A i \in Places(op, p, f) : i < Len(inbox) + 1
         /\ \A c : \A i \in Losts(c) \union From(c) : i < Len(inbox) + 1
<1>1. Len(inbox) \in Nat
  BY DEF TypeOK
<1> QED
  BY <1>1 DEF Places, Losts, From

\* What the sets of places are after a dispatch.
LEMMA FirstIsTaken ==
  ASSUME TypeOK, inbox # <<>>, inbox' = Tail(inbox)
  PROVE  /\ Creates' = Rest(Creates)
         /\ \A op, p, f : Places(op, p, f)' = Rest(Places(op, p, f))
         /\ \A c : Losts(c)' = Rest(Losts(c))
         /\ \A c : From(c)' = Rest(From(c))
<1>1. /\ Len(inbox) \in Nat \ {0}
      /\ Len(inbox') = Len(inbox) - 1
      /\ \A i \in 1 .. Len(inbox) - 1 : inbox'[i] = inbox[i + 1]
  BY DEF TypeOK
<1>2. \A i \in Nat \ {0} : i + 1 \in 1 .. Len(inbox) <=> i \in 1 .. Len(inbox')
  BY <1>1
<1> QED
  BY <1>1, <1>2 DEF Creates, Places, Losts, From, Rest

\* What the sets of places are after a message is sent.
LEMMA LastIsAdded ==
  ASSUME TypeOK, NEW m \in Messages, inbox' = Append(inbox, m),
         NEW n, n = Len(inbox) + 1
  PROVE  /\ Creates' = IF m.op = "create" THEN Creates \union {n} ELSE Creates
         /\ \A op, p, f :
              Places(op, p, f)' = IF m.op = op /\ m.path = p /\ m.feature = f
                THEN Places(op, p, f) \union {n} ELSE Places(op, p, f)
         /\ \A c : Losts(c)' = IF m.op = "lost" /\ m.from = c
                THEN Losts(c) \union {n} ELSE Losts(c)
         /\ \A c : From(c)' = IF m.from = c THEN From(c) \union {n} ELSE From(c)
<1>1. /\ Len(inbox) \in Nat /\ n \in Nat
      /\ \A i \in 1 .. Len(inbox) : inbox'[i] = inbox[i] /\ i # n
      /\ inbox'[n] = m
      /\ 1 .. Len(inbox') = (1 .. Len(inbox)) \union {n}
  BY DEF TypeOK
<1>2. Creates' = IF m.op = "create" THEN Creates \union {n} ELSE Creates
  BY <1>1 DEF Creates
<1>3. ASSUME NEW op, NEW p, NEW f
      PROVE  Places(op, p, f)' = IF m.op = op /\ m.path = p /\ m.feature = f
               THEN Places(op, p, f) \union {n} ELSE Places(op, p, f)
  BY <1>1 DEF Places
<1>4. ASSUME NEW c
      PROVE  /\ Losts(c)' = IF m.op = "lost" /\ m.from = c
                  THEN Losts(c) \union {n} ELSE Losts(c)
             /\ From(c)' = IF m.from = c THEN From(c) \union {n} ELSE From(c)
  BY <1>1 DEF Losts, From
<1> QED
  BY <1>2, <1>3, <1>4

\* What the sets of places are when nothing is sent or dispatched.
LEMMA InboxIsSame ==
  ASSUME inbox' = inbox
  PROVE  /\ Creates' = Creates
         /\ \A op, p, f : Places(op, p, f)' = Places(op, p, f)
         /\ \A c : Losts(c)' = Losts(c)
         /\ \A c : From(c)' = From(c)
BY DEF Creates, Places, Losts, From

-----------------------------------------------------------------------------
(* Types.  Heading updates, which the service enables as position updates, *)
(* would need "position" among the features.                               *)

Counted ==
  index + Cardinality(Creates) + (IF prompt = NoClient THEN 0 ELSE 1) <= MaxSessions

\* Types of the pieces of the inbox.
LEMMA InboxIsTyped ==
  ASSUME TypeOK
  PROVE  /\ inbox # <<>> => /\ Head(inbox) \in Messages
                             /\ Tail(inbox) \in Seq(Messages)
                             /\ Head(inbox) = inbox[1]
                             /\ 1 \in 1 .. Len(inbox)
         /\ \A m \in Messages : Append(inbox, m) \in Seq(Messages)
BY DEF TypeOK

\* Sessions made, and sessions asked for, stay within the bound.
LEMMA CountingStep ==
  ASSUME TypeOK, Counted, SessionAssumption,
         \/ UNCHANGED <<inbox, prompt, index>>
         \/ /\ UNCHANGED <<prompt, index>>
            /\ \E m \in Messages : Send(m) /\ (m.op = "create" => index + Asked < MaxSessions)
         \/ /\ inbox # <<>> /\ inbox' = Tail(inbox)
            /\ UNCHANGED <<prompt, index>>
         \/ BeginCreate
         \/ prompt # NoClient /\ prompt' = NoClient /\ index' \in {index, index + 1} /\ UNCHANGED inbox
         \/ index' = 0 /\ inbox' = <<>> /\ prompt' = NoClient
  PROVE  Counted'
<1>1. /\ Creates \in SUBSET (Nat \ {0}) /\ IsFiniteSet(Creates)
      /\ Cardinality(Creates) \in Nat /\ index \in Nat /\ Len(inbox) \in Nat
      /\ MaxSessions \in Nat
      /\ \A i \in Creates : i < Len(inbox) + 1
  BY CreatesArePositive, FS_CardinalityType DEF TypeOK, SessionAssumption
<1>2. CASE UNCHANGED <<inbox, prompt, index>>
  <2>1. Creates' = Creates
    BY <1>2, InboxIsSame
  <2> QED
    BY <2>1, <1>2 DEF Counted
<1>3. ASSUME UNCHANGED <<prompt, index>>, NEW m \in Messages, Send(m),
             m.op = "create" => index + Asked < MaxSessions
      PROVE  Counted'
  <2>1. PICK n \in Nat : n = Len(inbox) + 1
    BY <1>1
  <2>2. Creates' = IF m.op = "create" THEN Creates \union {n} ELSE Creates
    BY <2>1, <1>3, LastIsAdded DEF Send
  <2>3. n \notin Creates
    BY <2>1, <1>1
  <2>4. Cardinality(Creates \union {n}) = Cardinality(Creates) + 1
    BY <2>3, <1>1, FS_AddElement
  <2>5. Asked = Cardinality(Creates) + (IF prompt = NoClient THEN 0 ELSE 1)
    BY DEF Asked, Creates
  <2> QED
    BY <2>2, <2>4, <2>5, <1>3, <1>1 DEF Counted
<1>4. CASE inbox # <<>> /\ inbox' = Tail(inbox) /\ UNCHANGED <<prompt, index>>
  <2>1. Creates' = Rest(Creates)
    BY <1>4, FirstIsTaken
  <2>2. Cardinality(Rest(Creates)) <= Cardinality(Creates)
    BY <1>1, RestIsFewer
  <2>3. Cardinality(Rest(Creates)) \in Nat
    BY <1>1, RestIsFewer, FS_CardinalityType
  <2> QED
    BY <2>1, <2>2, <2>3, <1>4, <1>1 DEF Counted
<1>5. CASE BeginCreate
  <2>1. inbox # <<>> /\ inbox' = Tail(inbox) /\ prompt = NoClient /\ index' = index
    BY <1>5 DEF BeginCreate, Dispatching
  <2>2. Creates' = Rest(Creates)
    BY <2>1, FirstIsTaken
  <2>3. 1 \in Creates
    BY <1>5, InboxIsTyped DEF BeginCreate, Dispatching, Creates
  <2>4. Cardinality(Rest(Creates)) + 1 <= Cardinality(Creates)
    BY <2>3, <1>1, RestIsFewer
  <2>5. Cardinality(Rest(Creates)) \in Nat
    BY <1>1, RestIsFewer, FS_CardinalityType
  <2> QED
    BY <2>1, <2>2, <2>4, <2>5, <1>1 DEF Counted
<1>6. CASE prompt # NoClient /\ prompt' = NoClient /\ index' \in {index, index + 1} /\ UNCHANGED inbox
  <2>1. Creates' = Creates
    BY <1>6, InboxIsSame
  <2> QED
    BY <2>1, <1>6, <1>1 DEF Counted
<1>7. CASE index' = 0 /\ inbox' = <<>> /\ prompt' = NoClient
  <2>1. Creates' = {}
    BY <1>7 DEF Creates
  <2>2. Cardinality(Creates') = 0
    BY <2>1, FS_EmptySet
  <2> QED
    BY <2>2, <1>7, <1>1 DEF Counted
<1> QED
  BY <1>2, <1>3, <1>4, <1>5, <1>6, <1>7

\* A status a client writes changes that status only.
LEMMA WantsChange ==
  ASSUME TypeOK, NEW c \in Clients, NEW p \in Paths, NEW fs \in SUBSET Features,
         wants' = [wants EXCEPT ![c][p] = fs]
  PROVE  /\ wants' \in [Clients -> [Paths -> SUBSET Features]]
         /\ \A d \in Clients, q \in Paths :
              wants'[d][q] = IF d = c /\ q = p THEN fs ELSE wants[d][q]
<1>1. wants \in [Clients -> [Paths -> SUBSET Features]]
  BY DEF TypeOK
<1>2. wants[c] \in [Paths -> SUBSET Features]
  BY <1>1
<1>3. [wants[c] EXCEPT ![p] = fs] \in [Paths -> SUBSET Features]
  BY <1>2
<1>4. wants' = [wants EXCEPT ![c] = [wants[c] EXCEPT ![p] = fs]]
  OBVIOUS
<1>5. wants' \in [Clients -> [Paths -> SUBSET Features]]
  BY <1>1, <1>3, <1>4
<1>6. \A d \in Clients : wants'[d] = IF d = c THEN [wants[c] EXCEPT ![p] = fs] ELSE wants[d]
  BY <1>1, <1>4
<1>7. \A q \in Paths : [wants[c] EXCEPT ![p] = fs][q] = IF q = p THEN fs ELSE wants[c][q]
  BY <1>2
<1> QED
  BY <1>5, <1>6, <1>7

\* What handle_start_* and handle_stop_* change.
LEMMA SwitchChanges ==
  ASSUME TypeOK, "heading" \notin Features, NEW m, m = Message,
         HandleStart \/ HandleStop
  PROVE  /\ m \in Messages /\ m = inbox[1] /\ m.op \in {"start", "stop"}
         /\ m.path \in Paths /\ m.feature \in Features /\ m.from \in Clients
         /\ inbox # <<>> /\ inbox' = Tail(inbox) /\ 1 \in 1 .. Len(inbox)
         /\ waiting' \subseteq waiting
         /\ UNCHANGED <<alive, mine, wants, prompt, index, restarted>>
         /\ DOMAIN store' = DOMAIN store
         /\ \A q \in DOMAIN store :
              /\ store'[q] \in Session
              /\ store'[q].owner = store[q].owner
              /\ store'[q].enabled =
                   IF q # m.path THEN store[q].enabled
                   ELSE IF m.op = "start" THEN store[q].enabled \union {m.feature}
                        ELSE store[q].enabled \ {m.feature}
<1>1. /\ m \in Messages /\ m = inbox[1] /\ 1 \in 1 .. Len(inbox)
      /\ inbox # <<>> /\ inbox' = Tail(inbox)
      /\ m.op = IF HandleStart THEN "start" ELSE "stop"
      /\ waiting' \subseteq waiting
      /\ UNCHANGED <<alive, mine, wants, prompt, index, restarted>>
  BY InboxIsTyped DEF HandleStart, HandleStop, Dispatching, Message, ReplyTo
<1>2. m.path \in Paths /\ m.feature \in Features /\ m.from \in Clients
  BY <1>1 DEF Messages
<1>3. Started(m.feature) = m.feature
  BY <1>2 DEF Started
<1>4. store' = [q \in DOMAIN store |->
                 IF q \in Addressed(m.path)
                   THEN [store[q] EXCEPT !.enabled =
                           IF m.op = "start" THEN @ \union {m.feature} ELSE @ \ {m.feature}]
                   ELSE store[q]]
  <2>1. CASE HandleStart
    BY <2>1, <1>1, <1>3 DEF HandleStart
  <2>2. CASE ~HandleStart
    BY <2>2, <1>1 DEF HandleStop
  <2> QED
    BY <2>1, <2>2
<1>5. DOMAIN store' = DOMAIN store
  BY <1>4
<1>6. ASSUME NEW q \in DOMAIN store
      PROVE  /\ store'[q] \in Session
             /\ store'[q].owner = store[q].owner
             /\ store'[q].enabled =
                  IF q # m.path THEN store[q].enabled
                  ELSE IF m.op = "start" THEN store[q].enabled \union {m.feature}
                       ELSE store[q].enabled \ {m.feature}
  <2>1. store[q] \in Session
    BY DEF TypeOK
  <2>2. q \in Addressed(m.path) <=> q = m.path
    BY DEF Addressed
  <2> DEFINE on == store[q].enabled
             next == IF m.op = "start" THEN on \union {m.feature} ELSE on \ {m.feature}
  <2>3. store'[q] = IF q = m.path THEN [store[q] EXCEPT !.enabled = next] ELSE store[q]
    BY <1>4, <2>2
  <2>4. next \in SUBSET Features
    BY <2>1, <1>2 DEF Session
  <2> HIDE DEF next
  <2>5. /\ [store[q] EXCEPT !.enabled = next] \in Session
        /\ [store[q] EXCEPT !.enabled = next].owner = store[q].owner
        /\ [store[q] EXCEPT !.enabled = next].enabled = next
    BY <2>1, <2>4 DEF Session
  <2> QED
    BY <2>1, <2>3, <2>5 DEF next
<1> QED
  BY <1>1, <1>2, <1>5, <1>6

\* Every step keeps the types and the bound.
LEMMA StepIsTyped ==
  ASSUME "heading" \notin Features, SessionAssumption, TypeOK, Counted, [Next]_vars
  PROVE  TypeOK' /\ Counted'
<1> USE SessionAssumption
<1>0. /\ \A c \in Clients : [op |-> "create", from |-> c] \in Messages
      /\ \A c \in Clients : [op |-> "lost", from |-> c] \in Messages
      /\ \A c \in Clients, p \in Paths, f \in Features :
           /\ [op |-> "start", from |-> c, path |-> p, feature |-> f] \in Messages
           /\ [op |-> "stop", from |-> c, path |-> p, feature |-> f] \in Messages
      /\ \A m \in Messages : m.op \in {"start", "stop"}
           => m.path \in Paths /\ m.feature \in Features
      /\ \A m \in Messages : m.from \in Clients
  BY DEF Messages
<1>1. ASSUME NEW c \in Clients, ClientCreates(c) PROVE TypeOK' /\ Counted'
  <2>1. Counted'
    BY <1>1, <1>0, CountingStep DEF ClientCreates
  <2>2. TypeOK'
    BY <1>1, <1>0, InboxIsTyped DEF ClientCreates, Send, TypeOK
  <2> QED
    BY <2>1, <2>2
<1>2. ASSUME NEW c \in Clients, NEW p \in Paths, NEW f \in Features,
             ClientEnables(c, p, f) \/ ClientDisables(c, p, f)
      PROVE  TypeOK' /\ Counted'
  <2>1. /\ waiting' = waiting \union {c} /\ c \in alive
        /\ UNCHANGED <<alive, mine, prompt, index, store, restarted>>
        /\ \E m \in Messages : Send(m) /\ m.op # "create"
    BY <1>2, <1>0 DEF ClientEnables, ClientDisables
  <2>2. Counted'
    BY <2>1, CountingStep
  <2>3. wants' \in [Clients -> [Paths -> SUBSET Features]]
    <3>1. \E fs \in SUBSET Features : wants' = [wants EXCEPT ![c][p] = fs]
      <4>1. wants[c][p] \in SUBSET Features
        BY DEF TypeOK
      <4>2. /\ wants[c][p] \union {f} \in SUBSET Features
            /\ wants[c][p] \ {f} \in SUBSET Features
        BY <4>1
      <4>3. \/ wants' = [wants EXCEPT ![c][p] = wants[c][p] \union {f}]
            \/ wants' = [wants EXCEPT ![c][p] = wants[c][p] \ {f}]
        BY <1>2 DEF ClientEnables, ClientDisables
      <4> QED
        BY <4>2, <4>3
    <3> QED
      BY <3>1, WantsChange
  <2>4. inbox' \in Seq(Messages)
    BY <2>1, InboxIsTyped DEF Send
  <2> QED
    BY <2>1, <2>2, <2>3, <2>4 DEF TypeOK
<1>3. ASSUME NEW c \in Clients, NEW p \in Paths, ClientDrops(c, p)
      PROVE  TypeOK' /\ Counted'
  <2>1. Counted'
    BY <1>3, CountingStep DEF ClientDrops, serviceVars
  <2>2. TypeOK'
    BY <1>3 DEF ClientDrops, serviceVars, TypeOK
  <2> QED
    BY <2>1, <2>2
<1>4. ASSUME NEW c \in Clients, TimesOut(c) PROVE TypeOK' /\ Counted'
  <2>1. Counted'
    BY <1>4, CountingStep DEF TimesOut, serviceVars
  <2>2. TypeOK'
    BY <1>4 DEF TimesOut, serviceVars, TypeOK
  <2> QED
    BY <2>1, <2>2
<1>5. ASSUME NEW c \in Clients, ClientGoes(c) PROVE TypeOK' /\ Counted'
  <2>1. UNCHANGED inbox \/ \E m \in Messages : Send(m) /\ m.op # "create"
    BY <1>5, <1>0 DEF ClientGoes
  <2>2. Counted'
    BY <2>1, <1>5, CountingStep DEF ClientGoes
  <2>3. inbox' \in Seq(Messages)
    BY <2>1, InboxIsTyped DEF Send, TypeOK
  <2>4. TypeOK'
    BY <2>3, <1>5 DEF ClientGoes, TypeOK
  <2> QED
    BY <2>2, <2>4
<1>6. CASE BeginCreate
  <2>1. Counted'
    BY <1>6, CountingStep
  <2>2. TypeOK'
    BY <1>6, <1>0, InboxIsTyped DEF BeginCreate, Dispatching, Message, clientVars, TypeOK
  <2> QED
    BY <2>1, <2>2
<1>7. CASE RejectCreate
  <2>1. Counted'
    BY <1>7, CountingStep DEF RejectCreate
  <2>2. TypeOK'
    BY <1>7 DEF RejectCreate, ReplyTo, TypeOK
  <2> QED
    BY <2>1, <2>2
<1>8. CASE GrantCreate
  <2>1. Counted'
    BY <1>8, CountingStep DEF GrantCreate
  <2>2. /\ index \in Paths /\ index' = index + 1 /\ index' \in 0 .. MaxSessions
        /\ prompt \in Clients
    <3>1. Cardinality(Creates) \in Nat
      BY CreatesArePositive, FS_CardinalityType
    <3> QED
      BY <1>8, <3>1 DEF GrantCreate, Counted, TypeOK, Paths
  <2>3. /\ mine' \in [Clients -> SUBSET Paths]
        /\ wants' \in [Clients -> [Paths -> SUBSET Features]]
    <3>1. CASE Awaits(prompt, inbox)
      <4>1. mine' \in [Clients -> SUBSET Paths]
        BY <1>8, <2>2, <3>1 DEF GrantCreate, NewPath, TypeOK
      <4>2. wants' = [wants EXCEPT ![prompt][index] = {}] /\ {} \in SUBSET Features
        BY <1>8, <3>1 DEF GrantCreate, NewPath
      <4> QED
        BY <4>1, <4>2, <2>2, WantsChange
    <3>2. CASE ~Awaits(prompt, inbox)
      BY <1>8, <3>2 DEF GrantCreate, TypeOK
    <3> QED
      BY <3>1, <3>2
  <2>4. /\ DOMAIN store' \subseteq 0 .. index' - 1
        /\ store' \in [DOMAIN store' -> Session]
    <3>1. DOMAIN store' = DOMAIN store \union {index}
      BY <1>8 DEF GrantCreate, NewPath
    <3>2. DOMAIN store' \subseteq 0 .. index' - 1
      BY <3>1, <2>2 DEF TypeOK, Paths
    <3>3. [owner |-> prompt, enabled |-> {}] \in Session
      BY <2>2 DEF Session
    <3>4. store' \in [DOMAIN store' -> Session]
      BY <1>8, <3>1, <3>3 DEF GrantCreate, NewPath, TypeOK
    <3> QED
      BY <3>2, <3>4
  <2>5. /\ waiting' \subseteq alive' /\ alive' \subseteq Clients
        /\ inbox' \in Seq(Messages) /\ prompt' \in Clients \union {NoClient}
        /\ restarted' \in BOOLEAN
    BY <1>8 DEF GrantCreate, ReplyTo, TypeOK
  <2> QED
    BY <2>1, <2>2, <2>3, <2>4, <2>5 DEF TypeOK
<1>9. CASE HandleStart \/ HandleStop
  <2>1. Counted'
    BY <1>9, CountingStep DEF HandleStart, HandleStop, Dispatching
  <2>2. /\ inbox' \in Seq(Messages)
        /\ waiting' \subseteq waiting
        /\ UNCHANGED <<alive, mine, wants, prompt, index, restarted>>
        /\ DOMAIN store' = DOMAIN store
        /\ \A q \in DOMAIN store : store'[q] \in Session
    BY <1>9, SwitchChanges, InboxIsTyped
  <2>3. store' = [q \in DOMAIN store |-> store'[q]]
    BY <1>9 DEF HandleStart, HandleStop
  <2> QED
    BY <2>1, <2>2, <2>3 DEF TypeOK
<1>10. CASE HandleLost
  <2>1. Counted'
    BY <1>10, CountingStep DEF HandleLost, Dispatching
  <2>2. TypeOK'
    BY <1>10, InboxIsTyped
       DEF HandleLost, Dispatching, Without, SessionsOf, clientVars, TypeOK
  <2> QED
    BY <2>1, <2>2
<1>11. CASE Restart
  <2>1. Counted'
    BY <1>11, CountingStep DEF Restart
  <2>2. TypeOK'
    BY <1>11 DEF Restart, TypeOK
  <2> QED
    BY <2>1, <2>2
<1>12. CASE UNCHANGED vars
  <2>1. Counted'
    BY <1>12, CountingStep DEF vars, serviceVars
  <2>2. TypeOK'
    BY <1>12 DEF vars, clientVars, serviceVars, TypeOK
  <2> QED
    BY <2>1, <2>2
<1> QED
  BY <1>1, <1>2, <1>3, <1>4, <1>5, <1>6, <1>7, <1>8, <1>9, <1>10, <1>11, <1>12
     DEF Next, ClientStep, Dispatch, Answer

-----------------------------------------------------------------------------
(* One life of the service.                                                *)

\* A client that is connected has not been reported lost.
Here(c) == c \in alive => Losts(c) = {}

\* Nobody uses a path that has not been handed out.
Fresh(p, f) == p >= index => Starts(p, f) = {} /\ Stops(p, f) = {}

\* Switches of a session come from its owner.
Owned(p, f) ==
  p \in DOMAIN store => Starts(p, f) \union Stops(p, f) \subseteq From(store[p].owner)

\* A Stub has its session, and they agree on the owner.
Held(c, p) == p \in mine[c] => p \in DOMAIN store /\ store[p].owner = c /\ c \in alive

\* The end of an owner is reported after all it enabled, or left nothing on.
Reported(p) ==
  p \in DOMAIN store /\ store[p].owner \notin alive =>
    /\ \A f \in Features : Followed(Starts(p, f), Losts(store[p].owner))
    /\ Losts(store[p].owner) = {} => store[p].enabled = {}

\* The last switch on its way, or the session if there is none, agrees with
\* the status the Stub shows.
Shown(c, p, f) ==
  p \in mine[c] =>
    IF f \in wants[c][p]
      THEN /\ Followed(Stops(p, f), Starts(p, f))
           /\ Starts(p, f) = {} => f \in store[p].enabled
      ELSE /\ Followed(Starts(p, f), Stops(p, f))
           /\ Stops(p, f) = {} => f \notin store[p].enabled

Kept ==
  /\ \A c \in Clients : Here(c)
  /\ \A p \in Paths : Reported(p)
  /\ \A p \in Paths, f \in Features : Fresh(p, f) /\ Owned(p, f)
  /\ \A c \in Clients, p \in Paths : Held(c, p)
  /\ \A c \in Clients, p \in Paths, f \in Features : Shown(c, p, f)

\* Who holds what, and the sessions, when the inbox grows or stays.
LEMMA QuietStep ==
  ASSUME TypeOK, Kept,
         UNCHANGED <<alive, mine, wants, index, store>>,
         \A p, f : Starts(p, f)' = Starts(p, f) /\ Stops(p, f)' = Stops(p, f),
         \A c : Losts(c)' = Losts(c) /\ From(c) \subseteq From(c)'
  PROVE  Kept'
BY DEF Kept, Here, Reported, Fresh, Owned, Held, Shown, Followed

\* A client writes a status of its Stub.
LEMMA SwitchIsSent ==
  ASSUME TypeOK, Kept, SessionAssumption, NEW c \in Clients, NEW p \in Paths, NEW f \in Features,
         ClientEnables(c, p, f) \/ ClientDisables(c, p, f)
  PROVE  Kept'
<1>1. PICK m \in Messages :
        /\ Send(m) /\ m.from = c /\ m.path = p /\ m.feature = f
        /\ m.op = IF ClientEnables(c, p, f) THEN "start" ELSE "stop"
  BY DEF ClientEnables, ClientDisables, Messages
<1>2. PICK n \in Nat : n = Len(inbox) + 1
  BY DEF TypeOK
<1>3. /\ c \in alive /\ p \in mine[c]
      /\ UNCHANGED <<alive, mine, index, store>>
  BY DEF ClientEnables, ClientDisables
<1>4. /\ \A q, g : Starts(q, g)' = IF m.op = "start" /\ q = p /\ g = f
                       THEN Starts(q, g) \union {n} ELSE Starts(q, g)
      /\ \A q, g : Stops(q, g)' = IF m.op = "stop" /\ q = p /\ g = f
                       THEN Stops(q, g) \union {n} ELSE Stops(q, g)
      /\ \A d : Losts(d)' = Losts(d)
      /\ \A d : From(d)' = IF d = c THEN From(d) \union {n} ELSE From(d)
  BY <1>1, <1>2, LastIsAdded DEF Send, Starts, Stops
<1>5. /\ \A q, g : \A i \in Starts(q, g) \union Stops(q, g) : i < n
      /\ p \in DOMAIN store /\ store[p].owner = c
  BY <1>2, <1>3, PlacesArePositive DEF Starts, Stops, Kept, Held
<1>6. p < index
  BY <1>5 DEF TypeOK, Paths
<1>7. \A d \in Clients, q \in Paths, g \in Features :
        g \in wants'[d][q] <=>
          IF d = c /\ q = p /\ g = f THEN m.op = "start" ELSE g \in wants[d][q]
  <2>1. wants[c][p] \in SUBSET Features
    BY DEF TypeOK
  <2>2. CASE ClientEnables(c, p, f)
    <3>1. wants' = [wants EXCEPT ![c][p] = wants[c][p] \union {f}]
      BY <2>2 DEF ClientEnables
    <3>2. wants[c][p] \union {f} \in SUBSET Features
      BY <2>1
    <3>3. \A d \in Clients, q \in Paths :
            wants'[d][q] = IF d = c /\ q = p THEN wants[c][p] \union {f} ELSE wants[d][q]
      BY <3>1, <3>2, WantsChange
    <3> QED
      BY <3>3, <2>2, <1>1
  <2>3. CASE ~ClientEnables(c, p, f)
    <3>1. wants' = [wants EXCEPT ![c][p] = wants[c][p] \ {f}]
      BY <2>3 DEF ClientDisables
    <3>2. wants[c][p] \ {f} \in SUBSET Features
      BY <2>1
    <3>3. \A d \in Clients, q \in Paths :
            wants'[d][q] = IF d = c /\ q = p THEN wants[c][p] \ {f} ELSE wants[d][q]
      BY <3>1, <3>2, WantsChange
    <3> QED
      BY <3>3, <2>3, <1>1
  <2> QED
    BY <2>2, <2>3
<1>8. \A d \in Clients : Here(d)'
  BY <1>3, <1>4 DEF Kept, Here
<1>9. \A q \in Paths : Reported(q)'
  BY <1>3, <1>4, <1>5 DEF Kept, Reported
<1>10. \A q \in Paths, g \in Features : Fresh(q, g)' /\ Owned(q, g)'
  <2>1. \A q \in Paths, g \in Features : Fresh(q, g)'
    <3> SUFFICES ASSUME NEW q \in Paths, NEW g \in Features, q >= index
                 PROVE  Starts(q, g)' = {} /\ Stops(q, g)' = {}
      BY <1>3 DEF Fresh
    <3>1. q # p
      BY <1>6 DEF Paths, TypeOK, SessionAssumption
    <3> QED
      BY <3>1, <1>4 DEF Kept, Fresh
  <2>2. \A q \in Paths, g \in Features : Owned(q, g)'
    BY <1>3, <1>4, <1>5 DEF Kept, Owned
  <2> QED
    BY <2>1, <2>2
<1>11. \A d \in Clients, q \in Paths : Held(d, q)'
  BY <1>3 DEF Kept, Held
<1>12. ASSUME NEW d \in Clients, NEW q \in Paths, NEW g \in Features
       PROVE  Shown(d, q, g)'
  <2>1. CASE q = p /\ g = f /\ d = c
    BY <2>1, <1>1, <1>3, <1>4, <1>5, <1>7, <1>2 DEF Shown, Followed
  <2>2. CASE q = p /\ d # c
    BY <2>2, <1>3, <1>5 DEF Kept, Held, Shown
  <2>3. CASE q # p \/ g # f
    BY <2>3, <1>3, <1>4, <1>7 DEF Kept, Shown
  <2> QED
    BY <2>1, <2>2, <2>3
<1> QED
  BY <1>8, <1>9, <1>10, <1>11, <1>12 DEF Kept

\* The service handles a switch; it is the owner's.
LEMMA SwitchIsHandled ==
  ASSUME TypeOK, Kept, "heading" \notin Features, HandleStart \/ HandleStop
  PROVE  /\ Kept'
         /\ Message.path \in DOMAIN store => Message.from = store[Message.path].owner
<1>1. PICK m : m = Message
  OBVIOUS
<1>2. /\ m \in Messages /\ m = inbox[1] /\ m.op \in {"start", "stop"}
      /\ m.path \in Paths /\ m.feature \in Features /\ m.from \in Clients
      /\ inbox # <<>> /\ inbox' = Tail(inbox) /\ 1 \in 1 .. Len(inbox)
      /\ UNCHANGED <<alive, mine, wants, index>>
      /\ DOMAIN store' = DOMAIN store
      /\ \A q \in DOMAIN store :
           /\ store'[q].owner = store[q].owner
           /\ store'[q].enabled =
                IF q # m.path THEN store[q].enabled
                ELSE IF m.op = "start" THEN store[q].enabled \union {m.feature}
                     ELSE store[q].enabled \ {m.feature}
  BY <1>1, SwitchChanges
<1>3. /\ \A q, g : Starts(q, g)' = Rest(Starts(q, g)) /\ Stops(q, g)' = Rest(Stops(q, g))
      /\ \A d : Losts(d)' = Rest(Losts(d)) /\ From(d)' = Rest(From(d))
  BY <1>2, FirstIsTaken DEF Starts, Stops
<1>4. /\ \A q, g : Starts(q, g) \in SUBSET (Nat \ {0}) /\ Stops(q, g) \in SUBSET (Nat \ {0})
      /\ \A d : Losts(d) \in SUBSET (Nat \ {0}) /\ From(d) \in SUBSET (Nat \ {0})
  BY PlacesArePositive DEF Starts, Stops
<1>5. /\ \A d : 1 \notin Losts(d)
      /\ \A q, g : 1 \in Starts(q, g) <=> m.op = "start" /\ q = m.path /\ g = m.feature
      /\ \A q, g : 1 \in Stops(q, g) <=> m.op = "stop" /\ q = m.path /\ g = m.feature
      /\ \A d : 1 \in From(d) <=> d = m.from
  BY <1>2 DEF Losts, Starts, Stops, Places, From
<1>6. m.path \in DOMAIN store => m.from = store[m.path].owner
  BY <1>2, <1>5 DEF Kept, Owned
<1>7. \A d : Losts(d) = {} <=> Losts(d)' = {}
  BY <1>3, <1>4, <1>5, RestKeeps
<1>8. \A d \in Clients : Here(d)'
  BY <1>2, <1>7 DEF Kept, Here
<1>9. ASSUME NEW q \in Paths PROVE Reported(q)'
  <2> SUFFICES ASSUME q \in DOMAIN store, store[q].owner \notin alive PROVE Reported(q)'
    BY <1>2 DEF Reported
  <2>1. PICK o : o = store[q].owner /\ o = store'[q].owner
    BY <1>2
  <2>2. /\ \A f \in Features : Followed(Starts(q, f), Losts(o))
        /\ Losts(o) = {} => store[q].enabled = {}
    BY <2>1 DEF Kept, Reported
  <2>3. \A f \in Features : Followed(Starts(q, f)', Losts(o)')
    BY <2>2, <1>3, <1>4, RestKeeps
  <2>4. ASSUME Losts(o)' = {} PROVE store'[q].enabled = {}
    <3>1. Losts(o) = {} /\ store[q].enabled = {}
      BY <2>4, <2>2, <1>7
    <3>2. \A f \in Features : Starts(q, f) = {}
      BY <3>1, <2>2 DEF Followed
    <3>3. ~(m.op = "start" /\ m.path = q)
      BY <3>2, <1>5, <1>2
    <3> QED
      BY <3>1, <3>3, <1>2
  <2> QED
    BY <2>1, <2>3, <2>4 DEF Reported
<1>10. ASSUME NEW q \in Paths, NEW g \in Features PROVE Fresh(q, g)' /\ Owned(q, g)'
  <2>1. Fresh(q, g)'
    BY <1>2, <1>3 DEF Kept, Fresh, Rest
  <2>2. Owned(q, g)'
    BY <1>2, <1>3 DEF Kept, Owned, Rest
  <2> QED
    BY <2>1, <2>2
<1>11. \A d \in Clients, q \in Paths : Held(d, q)'
  BY <1>2 DEF Kept, Held
<1>12. ASSUME NEW d \in Clients, NEW q \in Paths, NEW g \in Features
       PROVE  Shown(d, q, g)'
  <2> SUFFICES ASSUME q \in mine[d] PROVE Shown(d, q, g)'
    BY <1>2 DEF Shown
  <2>0. q \in DOMAIN store
    BY DEF Kept, Held
  <2>1. CASE g \in wants[d][q]
    <3>1. Followed(Stops(q, g), Starts(q, g)) /\ (Starts(q, g) = {} => g \in store[q].enabled)
      BY <2>1 DEF Kept, Shown
    <3>2. Followed(Stops(q, g)', Starts(q, g)')
      BY <3>1, <1>3, <1>4, RestKeeps
    <3>3. ASSUME Starts(q, g)' = {} PROVE g \in store'[q].enabled
      <4>1. 1 \notin Stops(q, g)
        BY <3>3, <3>1, <1>3, <1>4, RestKeeps
      <4>2. CASE 1 \in Starts(q, g)
        <5>1. m.op = "start" /\ q = m.path /\ g = m.feature
          BY <4>2, <1>5
        <5>2. store'[q].enabled = store[q].enabled \union {m.feature}
          BY <5>1, <1>2, <2>0
        <5> QED
          BY <5>1, <5>2
      <4>3. CASE 1 \notin Starts(q, g)
        <5>1. g \in store[q].enabled
          BY <4>3, <3>3, <3>1, <1>3, <1>4, RestKeeps
        <5> QED
          BY <5>1, <4>1, <1>5, <1>2, <2>0
      <4> QED
        BY <4>2, <4>3
    <3> QED
      BY <2>1, <1>2, <3>2, <3>3 DEF Shown
  <2>2. CASE g \notin wants[d][q]
    <3>1. Followed(Starts(q, g), Stops(q, g)) /\ (Stops(q, g) = {} => g \notin store[q].enabled)
      BY <2>2 DEF Kept, Shown
    <3>2. Followed(Starts(q, g)', Stops(q, g)')
      BY <3>1, <1>3, <1>4, RestKeeps
    <3>3. ASSUME Stops(q, g)' = {} PROVE g \notin store'[q].enabled
      <4>1. 1 \notin Starts(q, g)
        BY <3>3, <3>1, <1>3, <1>4, RestKeeps
      <4>2. CASE 1 \in Stops(q, g)
        <5>1. m.op = "stop" /\ q = m.path /\ g = m.feature
          BY <4>2, <1>5
        <5>2. store'[q].enabled = store[q].enabled \ {m.feature}
          BY <5>1, <1>2, <2>0
        <5> QED
          BY <5>1, <5>2
      <4>3. CASE 1 \notin Stops(q, g)
        <5>1. g \notin store[q].enabled
          BY <4>3, <3>3, <3>1, <1>3, <1>4, RestKeeps
        <5>2. ~(m.op = "start" /\ q = m.path /\ g = m.feature)
          BY <4>1, <1>5
        <5>3. CASE q # m.path
          BY <5>1, <5>3, <1>2, <2>0
        <5>4. CASE q = m.path /\ m.op = "start"
          <6>1. store'[q].enabled = store[q].enabled \union {m.feature} /\ g # m.feature
            BY <5>2, <5>4, <1>2, <2>0
          <6> QED
            BY <5>1, <6>1
        <5>5. CASE q = m.path /\ m.op # "start"
          <6>1. store'[q].enabled = store[q].enabled \ {m.feature}
            BY <5>5, <1>2, <2>0
          <6> QED
            BY <5>1, <6>1
        <5> QED
          BY <5>3, <5>4, <5>5
      <4> QED
        BY <4>2, <4>3
    <3> QED
      BY <2>2, <1>2, <3>2, <3>3 DEF Shown
  <2> QED
    BY <2>1, <2>2
<1> QED
  BY <1>1, <1>6, <1>8, <1>9, <1>10, <1>11, <1>12 DEF Kept

\* The service handles a message that is no switch, or hears of a loss.
LEMMA OtherIsTaken ==
  ASSUME TypeOK, Kept, inbox # <<>>, inbox' = Tail(inbox),
         inbox[1].op \in {"create", "lost"},
         UNCHANGED <<alive, mine, wants, index>>,
         \A p : p \in DOMAIN store' <=>
           /\ p \in DOMAIN store
           /\ ~(inbox[1].op = "lost" /\ inbox[1].from = store[p].owner),
         \A p \in DOMAIN store' : store'[p] = store[p]
  PROVE  Kept'
<1>1. /\ \A q, g : Starts(q, g)' = Rest(Starts(q, g)) /\ Stops(q, g)' = Rest(Stops(q, g))
      /\ \A d : Losts(d)' = Rest(Losts(d)) /\ From(d)' = Rest(From(d))
  BY FirstIsTaken DEF Starts, Stops
<1>2. /\ \A q, g : Starts(q, g) \in SUBSET (Nat \ {0}) /\ Stops(q, g) \in SUBSET (Nat \ {0})
      /\ \A d : Losts(d) \in SUBSET (Nat \ {0}) /\ From(d) \in SUBSET (Nat \ {0})
  BY PlacesArePositive DEF Starts, Stops
<1>3. /\ \A q, g : 1 \notin Starts(q, g) /\ 1 \notin Stops(q, g)
      /\ \A d : 1 \in Losts(d) <=> inbox[1].op = "lost" /\ inbox[1].from = d
  BY InboxIsTyped DEF Losts, Starts, Stops, Places
<1>4. \A q, g : /\ Starts(q, g) = {} <=> Starts(q, g)' = {}
                /\ Stops(q, g) = {} <=> Stops(q, g)' = {}
  BY <1>1, <1>2, <1>3, RestKeeps
<1>5. \A d \in Clients : Here(d)'
  BY <1>1 DEF Kept, Here, Rest
<1>6. ASSUME NEW q \in Paths PROVE Reported(q)'
  <2> SUFFICES ASSUME q \in DOMAIN store', store[q].owner \notin alive PROVE Reported(q)'
    BY DEF Reported
  <2>1. PICK o : o = store[q].owner /\ o = store'[q].owner
    OBVIOUS
  <2>2. /\ \A f \in Features : Followed(Starts(q, f), Losts(o))
        /\ Losts(o) = {} => store[q].enabled = {}
    BY <2>1 DEF Kept, Reported
  <2>3. \A f \in Features : Followed(Starts(q, f)', Losts(o)')
    BY <2>2, <1>1, <1>2, RestKeeps
  <2>4. Losts(o)' = {} => Losts(o) = {}
    BY <2>1, <1>1, <1>2, <1>3, RestKeeps
  <2> QED
    BY <2>1, <2>2, <2>3, <2>4 DEF Reported
<1>7. ASSUME NEW q \in Paths, NEW g \in Features PROVE Fresh(q, g)' /\ Owned(q, g)'
  <2>1. Fresh(q, g)'
    BY <1>4 DEF Kept, Fresh
  <2>2. Owned(q, g)'
    BY <1>1 DEF Kept, Owned, Rest
  <2> QED
    BY <2>1, <2>2
<1>8. ASSUME NEW d \in Clients, NEW q \in Paths, q \in mine[d]
      PROVE  q \in DOMAIN store' /\ store'[q].owner = d /\ d \in alive
  <2>1. q \in DOMAIN store /\ store[q].owner = d /\ d \in alive /\ Losts(d) = {}
    BY <1>8 DEF Kept, Held, Here
  <2> QED
    BY <2>1, <1>3
<1>9. \A d \in Clients, q \in Paths : Held(d, q)'
  BY <1>8 DEF Held
<1>10. ASSUME NEW d \in Clients, NEW q \in Paths, NEW g \in Features
       PROVE  Shown(d, q, g)'
  <2> SUFFICES ASSUME q \in mine[d] PROVE Shown(d, q, g)'
    BY DEF Shown
  <2>1. store'[q] = store[q]
    BY <1>8
  <2>2. CASE g \in wants[d][q]
    <3>1. Followed(Stops(q, g), Starts(q, g)) /\ (Starts(q, g) = {} => g \in store[q].enabled)
      BY <2>2 DEF Kept, Shown
    <3>2. Followed(Stops(q, g)', Starts(q, g)')
      BY <3>1, <1>1, <1>2, RestKeeps
    <3> QED
      BY <2>1, <2>2, <3>1, <3>2, <1>4 DEF Shown
  <2>3. CASE g \notin wants[d][q]
    <3>1. Followed(Starts(q, g), Stops(q, g)) /\ (Stops(q, g) = {} => g \notin store[q].enabled)
      BY <2>3 DEF Kept, Shown
    <3>2. Followed(Starts(q, g)', Stops(q, g)')
      BY <3>1, <1>1, <1>2, RestKeeps
    <3> QED
      BY <2>1, <2>3, <3>1, <3>2, <1>4 DEF Shown
  <2> QED
    BY <2>2, <2>3
<1> QED
  BY <1>5, <1>6, <1>7, <1>9, <1>10 DEF Kept

\* A client goes.
LEMMA OwnerGoes ==
  ASSUME TypeOK, Kept, NEW c \in Clients, ClientGoes(c)
  PROVE  Kept'
<1>1. /\ c \in alive /\ alive' = alive \ {c}
      /\ mine' = [mine EXCEPT ![c] = {}]
      /\ UNCHANGED <<index, store>>
      /\ \A d \in Clients : mine'[d] = IF d = c THEN {} ELSE mine[d]
      /\ \A d \in Clients : d # c => wants'[d] = wants[d]
  BY DEF ClientGoes, TypeOK
<1>2. PICK n \in Nat : n = Len(inbox) + 1
  BY DEF TypeOK
<1>3. /\ \A q, g : Starts(q, g)' = Starts(q, g) /\ Stops(q, g)' = Stops(q, g)
      /\ \A d : From(d) \subseteq From(d)'
      /\ \A d : Losts(d)' = IF d = c /\ SessionsOf(c) # {}
                THEN Losts(d) \union {n} ELSE Losts(d)
  <2>1. CASE SessionsOf(c) # {}
    <3>1. PICK m \in Messages : m.op = "lost" /\ m.from = c /\ Send(m)
      BY <2>1 DEF ClientGoes, Messages
    <3> QED
      BY <2>1, <3>1, <1>2, LastIsAdded DEF Send, Starts, Stops
  <2>2. CASE SessionsOf(c) = {}
    <3>1. inbox' = inbox
      BY <2>2 DEF ClientGoes
    <3> QED
      BY <2>2, <3>1, InboxIsSame DEF Starts, Stops
  <2> QED
    BY <2>1, <2>2
<1>4. \A q, g : \A i \in Starts(q, g) : i < n
  BY <1>2, PlacesArePositive DEF Starts
<1>5. \A d \in Clients : Here(d)'
  BY <1>1, <1>3 DEF Kept, Here
<1>6. ASSUME NEW q \in Paths PROVE Reported(q)'
  <2> SUFFICES ASSUME q \in DOMAIN store, store[q].owner \notin alive' PROVE Reported(q)'
    BY <1>1 DEF Reported
  <2>1. CASE store[q].owner = c
    <3>1. Losts(c)' = Losts(c) \union {n}
      BY <2>1, <1>3 DEF SessionsOf
    <3> QED
      BY <2>1, <3>1, <1>1, <1>3, <1>4 DEF Reported, Followed
  <2>2. CASE store[q].owner # c
    BY <2>2, <1>1, <1>3 DEF Kept, Reported
  <2> QED
    BY <2>1, <2>2
<1>7. \A q \in Paths, g \in Features : Fresh(q, g)' /\ Owned(q, g)'
  BY <1>1, <1>3 DEF Kept, Fresh, Owned
<1>8. \A d \in Clients, q \in Paths : Held(d, q)'
  BY <1>1 DEF Kept, Held
<1>9. \A d \in Clients, q \in Paths, g \in Features : Shown(d, q, g)'
  BY <1>1, <1>3 DEF Kept, Shown
<1> QED
  BY <1>5, <1>6, <1>7, <1>8, <1>9 DEF Kept

\* A session is made.
LEMMA SessionIsGranted ==
  ASSUME SessionAssumption, TypeOK, TypeOK', Kept, GrantCreate
  PROVE  Kept'
<1>1. /\ index \in Nat /\ index' = index + 1 /\ index \in Paths /\ alive' = alive
      /\ prompt \in Clients /\ index \notin DOMAIN store
      /\ DOMAIN store' = DOMAIN store \union {index}
      /\ store'[index].owner = prompt /\ store'[index].enabled = {}
      /\ \A q \in DOMAIN store : store'[q] = store[q]
      /\ inbox' = inbox
  <2>1. /\ index \in Nat /\ index' = index + 1 /\ index' <= MaxSessions /\ alive' = alive
        /\ prompt \in Clients /\ inbox' = inbox
    BY DEF GrantCreate, TypeOK
  <2>2. index \in Paths /\ index \notin DOMAIN store
    BY <2>1 DEF TypeOK, Paths, SessionAssumption
  <2>3. store' = [q \in DOMAIN store \union {index} |->
                   IF q = index THEN [owner |-> prompt, enabled |-> {}] ELSE store[q]]
    BY DEF GrantCreate, NewPath
  <2> QED
    BY <2>1, <2>2, <2>3
<1>2. /\ \A q, g : Starts(q, g)' = Starts(q, g) /\ Stops(q, g)' = Stops(q, g)
      /\ \A d : Losts(d)' = Losts(d) /\ From(d)' = From(d)
  BY <1>1, InboxIsSame DEF Starts, Stops
<1>3. \A g \in Features : Starts(index, g) = {} /\ Stops(index, g) = {}
  BY <1>1 DEF Kept, Fresh
<1>4. \A d \in Clients, q \in Paths :
        q # index => /\ q \in mine'[d] <=> q \in mine[d]
                     /\ wants'[d][q] = wants[d][q]
  <2>1. CASE Awaits(prompt, inbox)
    <3>1. \A d \in Clients : mine'[d] = IF d = prompt THEN mine[d] \union {index} ELSE mine[d]
      BY <2>1, <1>1 DEF GrantCreate, NewPath, TypeOK
    <3>2. wants' = [wants EXCEPT ![prompt][index] = {}] /\ {} \in SUBSET Features
      BY <2>1 DEF GrantCreate, NewPath
    <3>3. prompt \in Clients /\ index \in Paths
      BY <1>1
    <3>4. \A d \in Clients, q \in Paths :
            wants'[d][q] = IF d = prompt /\ q = index THEN {} ELSE wants[d][q]
      BY <3>2, <3>3, WantsChange
    <3> QED
      BY <3>1, <3>4
  <2>2. CASE ~Awaits(prompt, inbox)
    BY <2>2 DEF GrantCreate
  <2> QED
    BY <2>1, <2>2
<1>5. ASSUME NEW d \in Clients, index \in mine'[d]
      PROVE  d = prompt /\ d \in alive /\ wants'[d][index] = {}
  <2>1. index \notin mine[d]
    BY <1>1 DEF Kept, Held
  <2>2. Awaits(prompt, inbox) /\ prompt \in alive
    BY <1>5, <2>1 DEF GrantCreate, Awaits, TypeOK
  <2>3. d = prompt
    BY <2>1, <2>2, <1>5, <1>1 DEF GrantCreate, TypeOK
  <2>4. wants' = [wants EXCEPT ![prompt][index] = {}] /\ {} \in SUBSET Features
    BY <2>2 DEF GrantCreate, NewPath
  <2>5. prompt \in Clients /\ index \in Paths
    BY <1>1
  <2>6. \A e \in Clients, q \in Paths :
          wants'[e][q] = IF e = prompt /\ q = index THEN {} ELSE wants[e][q]
    BY <2>4, <2>5, WantsChange
  <2>7. wants'[d][index] = {}
    BY <2>3, <2>5, <2>6
  <2> QED
    BY <2>2, <2>3, <2>7
<1>6. \A d \in Clients : Here(d)'
  BY <1>1, <1>2 DEF Kept, Here
<1>7. ASSUME NEW q \in Paths PROVE Reported(q)'
  <2>1. CASE q = index
    BY <2>1, <1>1, <1>2, <1>3 DEF Reported, Followed
  <2>2. CASE q # index
    BY <2>2, <1>1, <1>2 DEF Kept, Reported
  <2> QED
    BY <2>1, <2>2
<1>8. ASSUME NEW q \in Paths, NEW g \in Features PROVE Fresh(q, g)' /\ Owned(q, g)'
  <2>1. Fresh(q, g)'
    BY <1>1, <1>2 DEF Kept, Fresh, Paths
  <2>2. CASE q = index
    BY <2>1, <2>2, <1>1, <1>2, <1>3 DEF Owned
  <2>3. CASE q # index
    BY <2>1, <2>3, <1>1, <1>2 DEF Kept, Owned
  <2> QED
    BY <2>2, <2>3
<1>9. ASSUME NEW d \in Clients, NEW q \in Paths PROVE Held(d, q)'
  <2>1. CASE q = index
    BY <2>1, <1>1, <1>5 DEF Held
  <2>2. CASE q # index
    BY <2>2, <1>1, <1>4 DEF Kept, Held
  <2> QED
    BY <2>1, <2>2
<1>10. ASSUME NEW d \in Clients, NEW q \in Paths, NEW g \in Features
       PROVE  Shown(d, q, g)'
  <2>1. CASE q = index
    BY <2>1, <1>1, <1>2, <1>3, <1>5 DEF Shown, Followed
  <2>2. CASE q # index
    <3> SUFFICES ASSUME q \in mine[d] PROVE Shown(d, q, g)'
      BY <2>2, <1>4 DEF Shown
    <3>1. q \in DOMAIN store /\ store'[q] = store[q]
      BY <1>1 DEF Kept, Held
    <3> QED
      BY <2>2, <3>1, <1>1, <1>2, <1>4 DEF Kept, Shown
  <2> QED
    BY <2>1, <2>2
<1> QED
  BY <1>6, <1>7, <1>8, <1>9, <1>10 DEF Kept

\* Every step of one life of the service keeps what holds of it.
LEMMA StepKeeps ==
  ASSUME "heading" \notin Features, SessionAssumption,
         TypeOK, TypeOK', Kept, ~restarted', [Next]_vars
  PROVE  Kept'
<1>1. ASSUME NEW c \in Clients, ClientCreates(c) PROVE Kept'
  <2>1. PICK m \in Messages : m.op = "create" /\ Send(m)
    BY <1>1 DEF ClientCreates, Messages
  <2>2. PICK n \in Nat : n = Len(inbox) + 1
    BY DEF TypeOK
  <2>3. /\ \A p, f : Starts(p, f)' = Starts(p, f) /\ Stops(p, f)' = Stops(p, f)
        /\ \A d : Losts(d)' = Losts(d) /\ From(d) \subseteq From(d)'
    BY <2>1, <2>2, LastIsAdded DEF Send, Starts, Stops
  <2> QED
    BY <1>1, <2>3, QuietStep DEF ClientCreates
<1>2. ASSUME NEW c \in Clients, NEW p \in Paths, NEW f \in Features,
             ClientEnables(c, p, f) \/ ClientDisables(c, p, f)
      PROVE  Kept'
  BY <1>2, SwitchIsSent
<1>3. ASSUME NEW c \in Clients, NEW p \in Paths, ClientDrops(c, p) PROVE Kept'
  <2>1. /\ UNCHANGED <<alive, inbox, index, store>>
        /\ \A d \in Clients : mine'[d] \subseteq mine[d]
        /\ p \notin mine'[c]
    BY <1>3 DEF ClientDrops, serviceVars, TypeOK
  <2>2. \A d \in Clients, q \in Paths :
          wants'[d][q] = IF d = c /\ q = p THEN {} ELSE wants[d][q]
    <3>1. wants' = [wants EXCEPT ![c][p] = {}] /\ {} \in SUBSET Features
      BY <1>3 DEF ClientDrops
    <3> QED
      BY <3>1, WantsChange
  <2>3. /\ \A q, g : Starts(q, g)' = Starts(q, g) /\ Stops(q, g)' = Stops(q, g)
        /\ \A d : Losts(d)' = Losts(d) /\ From(d)' = From(d)
    BY <2>1, InboxIsSame DEF Starts, Stops
  <2>4. /\ \A d \in Clients : Here(d)'
        /\ \A q \in Paths : Reported(q)'
        /\ \A q \in Paths, g \in Features : Fresh(q, g)' /\ Owned(q, g)'
    BY <2>1, <2>3 DEF Kept, Here, Reported, Fresh, Owned
  <2>5. \A d \in Clients, q \in Paths : Held(d, q)'
    BY <2>1 DEF Kept, Held
  <2>6. \A d \in Clients, q \in Paths, g \in Features : Shown(d, q, g)'
    BY <2>1, <2>2, <2>3 DEF Kept, Shown
  <2> QED
    BY <2>4, <2>5, <2>6 DEF Kept
<1>4. ASSUME UNCHANGED <<alive, mine, wants, index, store, inbox>> PROVE Kept'
  <2>1. /\ \A p, f : Starts(p, f)' = Starts(p, f) /\ Stops(p, f)' = Stops(p, f)
        /\ \A d : Losts(d)' = Losts(d) /\ From(d) \subseteq From(d)'
    BY <1>4, InboxIsSame DEF Starts, Stops
  <2> QED
    BY <1>4, <2>1, QuietStep
<1>5. ASSUME NEW c \in Clients, ClientGoes(c) PROVE Kept'
  BY <1>5, OwnerGoes
<1>6. CASE BeginCreate
  <2>1. /\ inbox # <<>> /\ inbox' = Tail(inbox) /\ inbox[1].op = "create"
        /\ UNCHANGED <<alive, mine, wants, index, store>>
    BY <1>6, InboxIsTyped DEF BeginCreate, Dispatching, clientVars
  <2> QED
    BY <2>1, OtherIsTaken
<1>7. CASE HandleStart \/ HandleStop
  BY <1>7, SwitchIsHandled
<1>8. CASE HandleLost
  <2>1. /\ inbox # <<>> /\ inbox' = Tail(inbox) /\ inbox[1].op = "lost"
        /\ Message = inbox[1]
        /\ UNCHANGED <<alive, mine, wants, index>>
    BY <1>8, InboxIsTyped DEF HandleLost, Dispatching, clientVars, Message
  <2>2. store' = [q \in DOMAIN store \ SessionsOf(Message.from) |-> store[q]]
    BY <1>8 DEF HandleLost, Without
  <2>3. /\ \A q : q \in DOMAIN store' <=>
             q \in DOMAIN store /\ ~(inbox[1].op = "lost" /\ inbox[1].from = store[q].owner)
        /\ \A q \in DOMAIN store' : store'[q] = store[q]
    BY <2>1, <2>2 DEF SessionsOf
  <2> QED
    BY <2>1, <2>3, OtherIsTaken
<1>9. CASE GrantCreate
  BY <1>9, SessionIsGranted
<1> QED
  BY <1>1, <1>2, <1>3, <1>4, <1>5, <1>6, <1>7, <1>8, <1>9
     DEF Next, ClientStep, Dispatch, Answer, Restart, TimesOut, RejectCreate,
         vars, clientVars, serviceVars

-----------------------------------------------------------------------------
(* The theorems. *)

InStepWithStubs == TypeOK /\ Counted /\ (~restarted => Kept)

\* The invariant holds at the start.
LEMMA StartsInStep ==
  ASSUME SessionAssumption, Init PROVE InStepWithStubs
<1>1. Creates = {} /\ Cardinality({}) = 0
  BY FS_EmptySet DEF Init, Creates
<1>2. Counted
  BY <1>1 DEF Init, Counted, SessionAssumption
<1>3. TypeOK
  <2>1. /\ mine \in [Clients -> SUBSET Paths]
        /\ wants \in [Clients -> [Paths -> SUBSET Features]]
    BY DEF Init, NoStubs, NothingWanted
  <2>2. inbox \in Seq(Messages)
    BY DEF Init
  <2>3. DOMAIN store = {} /\ store \in [DOMAIN store -> Session]
    BY DEF Init
  <2>4. /\ alive \subseteq Clients /\ waiting \subseteq alive
        /\ prompt \in Clients \union {NoClient} /\ restarted \in BOOLEAN
    BY DEF Init
  <2>5. index \in 0 .. MaxSessions
    BY DEF Init, SessionAssumption
  <2> QED
    BY <2>1, <2>2, <2>3, <2>4, <2>5 DEF TypeOK
<1>4. /\ \A p, f : Starts(p, f) = {} /\ Stops(p, f) = {}
      /\ \A c : Losts(c) = {}
  BY DEF Init, Starts, Stops, Places, Losts
<1>5. Kept
  BY <1>4 DEF Init, Kept, Here, Reported, Fresh, Owned, Held, Shown, Followed, NoStubs
<1> QED
  BY <1>2, <1>3, <1>5 DEF InStepWithStubs

\* Every step keeps the invariant.
LEMMA StepsKeepInStep ==
  ASSUME SessionAssumption, "heading" \notin Features, InStepWithStubs, [Next]_vars
  PROVE  InStepWithStubs'
<1>1. TypeOK' /\ Counted'
  BY StepIsTyped DEF InStepWithStubs
<1>2. restarted => restarted'
  BY DEF Next, ClientStep, ClientCreates, ClientEnables, ClientDisables, ClientDrops,
         TimesOut, ClientGoes, Dispatch, BeginCreate, HandleStart, HandleStop, HandleLost,
         Answer, GrantCreate, RejectCreate, Restart, vars, clientVars, serviceVars
<1> QED
  BY <1>1, <1>2, StepKeeps DEF InStepWithStubs

\* The inductive invariant of the sessions, as long as no client uses heading
\* updates.
THEOREM SessionsKeepInStep == "heading" \notin Features => (Spec => []InStepWithStubs)
<1> SUFFICES ASSUME "heading" \notin Features PROVE Spec => []InStepWithStubs
  OBVIOUS
<1>1. Init => InStepWithStubs
  BY SessionAssumption, StartsInStep
<1>2. InStepWithStubs /\ [Next]_vars => InStepWithStubs'
  BY SessionAssumption, StepsKeepInStep
<1> QED
  BY <1>1, <1>2, PTL DEF Spec

\* Clients, inbox and session store keep their types (TypeOK), as long as no
\* client uses heading updates, which the service books as position updates.
THEOREM SessionsAreTyped == "heading" \notin Features => (Spec => []TypeOK)
<1>1. InStepWithStubs => TypeOK
  BY DEF InStepWithStubs
<1> QED
  BY <1>1, SessionsKeepInStep, PTL

\* A client without outstanding calls has nothing but its loss in the inbox.
LEMMA NothingOutstanding ==
  ASSUME TypeOK, NEW c \in Clients, Outstanding(c) = 0
  PROVE  /\ prompt # c
         /\ \A i \in From(c) : inbox[i].op = "lost"
<1> DEFINE calls == {i \in 1 .. Len(inbox) : inbox[i].from = c /\ inbox[i].op # "lost"}
<1>1. IsFiniteSet(calls) /\ Cardinality(calls) \in Nat
  <2>1. Len(inbox) \in Nat /\ IsFiniteSet(1 .. Len(inbox))
    BY FS_Interval DEF TypeOK
  <2> QED
    BY <2>1, FS_Subset, FS_CardinalityType
<1>2. Outstanding(c) = Cardinality(calls) + (IF prompt = c THEN 1 ELSE 0)
  BY DEF Outstanding
<1> HIDE DEF calls
<1>3. Cardinality(calls) = 0 /\ prompt # c
  BY <1>1, <1>2
<1>4. calls = {}
  BY <1>1, <1>3, FS_EmptySet
<1> QED
  BY <1>3, <1>4 DEF calls, From

\* The Stub and the session behind it show the same status whenever no call
\* of the client is under way (StatusAgrees).
THEOREM StubsShowTheirSessions == "heading" \notin Features => (Spec => []StatusAgrees)
<1>1. InStepWithStubs => StatusAgrees
  <2> SUFFICES ASSUME InStepWithStubs, ~restarted, NEW c \in Clients, NEW p \in Paths,
                      Settled(c), p \in mine[c]
               PROVE  p \in DOMAIN store /\ store[p].owner = c /\ store[p].enabled = wants[c][p]
    BY DEF StatusAgrees
  <2>1. TypeOK /\ Kept
    BY DEF InStepWithStubs
  <2>2. p \in DOMAIN store /\ store[p].owner = c
    BY <2>1 DEF Kept, Held
  <2>3. \A f \in Features : Starts(p, f) = {} /\ Stops(p, f) = {}
    <3>1. \A i \in From(c) : inbox[i].op = "lost"
      BY <2>1, NothingOutstanding DEF Settled
    <3>2. \A f \in Features : Starts(p, f) \union Stops(p, f) \subseteq From(c)
      BY <2>1, <2>2 DEF Kept, Owned
    <3>3. \A f \in Features : /\ \A i \in Starts(p, f) : inbox[i].op = "start"
                              /\ \A i \in Stops(p, f) : inbox[i].op = "stop"
      BY DEF Starts, Stops, Places
    <3> QED
      BY <3>1, <3>2, <3>3
  <2>4. \A f \in Features : f \in wants[c][p] <=> f \in store[p].enabled
    BY <2>1, <2>3 DEF Kept, Shown
  <2>5. wants[c][p] \subseteq Features /\ store[p].enabled \subseteq Features
    BY <2>1, <2>2 DEF TypeOK, Session
  <2>6. store[p].enabled = wants[c][p]
    BY <2>4, <2>5
  <2> QED
    BY <2>2, <2>6
<1> QED
  BY <1>1, SessionsKeepInStep, PTL

\* A session left over by a client that went while its session was being
\* made never has updates enabled (OrphansAreIdle).
THEOREM LeftoverSessionsAreIdle == "heading" \notin Features => (Spec => []OrphansAreIdle)
<1>1. InStepWithStubs => OrphansAreIdle
  <2> SUFFICES ASSUME InStepWithStubs, ~restarted, NEW p \in DOMAIN store,
                      store[p].owner \notin alive, ~LostPending(store[p].owner)
               PROVE  store[p].enabled = {}
    BY DEF OrphansAreIdle
  <2>1. TypeOK /\ Kept
    BY DEF InStepWithStubs
  <2>2. p \in Paths
    BY <2>1, SessionAssumption DEF TypeOK, Paths
  <2>3. Losts(store[p].owner) = {}
    <3> SUFFICES ASSUME NEW i \in 1 .. Len(inbox), inbox[i].op = "lost",
                        inbox[i].from = store[p].owner
                 PROVE  FALSE
      BY DEF Losts
    <3>1. inbox[i] \in Messages
      BY <2>1 DEF TypeOK
    <3>2. inbox[i] = [op |-> "lost", from |-> store[p].owner]
      BY <3>1 DEF Messages
    <3> QED
      BY <3>2 DEF LostPending
  <2> QED
    BY <2>1, <2>2, <2>3 DEF Kept, Reported
<1> QED
  BY <1>1, SessionsKeepInStep, PTL

\* The updates of a session change at a call of its owner alone, although
\* the handlers do not look at the sender (OnlyOwnerSwitches).
THEOREM OwnersAloneSwitch == "heading" \notin Features => (Spec => OnlyOwnerSwitches)
<1> DEFINE Switches ==
      ~restarted =>
        \A p \in DOMAIN store \intersect DOMAIN store' :
          store'[p].enabled # store[p].enabled => Message.from = store[p].owner
<1> SUFFICES ASSUME "heading" \notin Features PROVE Spec => [][Switches]_vars
  BY DEF OnlyOwnerSwitches
<1>1. InStepWithStubs /\ [Next]_vars => [Switches]_vars
  <2> SUFFICES ASSUME InStepWithStubs, Next, ~restarted,
                      NEW p \in DOMAIN store \intersect DOMAIN store',
                      store'[p].enabled # store[p].enabled
               PROVE  Message.from = store[p].owner
    OBVIOUS
  <2>1. TypeOK /\ Kept
    BY DEF InStepWithStubs
  <2>2. CASE HandleStart \/ HandleStop
    <3>1. Message.path = p
      BY <2>1, <2>2, SwitchChanges
    <3> QED
      BY <2>1, <2>2, <3>1, SwitchIsHandled
  <2>3. CASE GrantCreate
    <3>1. index \notin DOMAIN store
      BY <2>1 DEF TypeOK
    <3> QED
      BY <2>3, <3>1 DEF GrantCreate, NewPath
  <2>4. CASE HandleLost
    BY <2>4 DEF HandleLost, Without
  <2>5. CASE Restart
    BY <2>5 DEF Restart
  <2>6. CASE store' = store
    BY <2>6
  <2> QED
    BY <2>2, <2>3, <2>4, <2>5, <2>6
       DEF Next, ClientStep, ClientCreates, ClientEnables, ClientDisables, ClientDrops,
           TimesOut, ClientGoes, Dispatch, BeginCreate, Answer, RejectCreate, serviceVars
<1> QED
  BY <1>1, SessionsKeepInStep, PTL DEF Spec
=============================================================================
