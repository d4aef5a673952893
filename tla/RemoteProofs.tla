---------------------------- MODULE RemoteProofs ----------------------------
(***************************************************************************)
(* What RemoteProperties says of a Stub and its daemon, for every number   *)
(* of remote providers and features, every length of the shared queue, and *)
(* whatever crashes and comes up again.                                    *)
(***************************************************************************)
EXTENDS RemoteProperties, TLAPS

Ops == {"start", "stop"}

\* The places at which calls of one feature wait: 0 for the call under way,
\* then those of the queue.
At(op, p, f, i) ==
  IF i = 0 THEN Called(op, p, f) ELSE tasks[i] = [op |-> op, p |-> p, f |-> f]
Places(op, p, f) == {i \in 0 .. Len(tasks) : At(op, p, f, i)}
Starts(p, f) == Places("start", p, f)
Stops(p, f) == Places("stop", p, f)

Alternate(A, B) == \A i, j \in A : i < j => \E k \in B : i < k /\ k < j
Followed(A, B) == \A i \in A : \E j \in B : i < j
Preceded(A, B) == \A i \in A : \E j \in B : j < i

\* Starts and stops of a feature take turns in the queue, and the last of them
\* is what the Stub's controller counts.
InTurn(p, f) ==
  /\ counter[p][f] \in {0, 1}
  /\ Alternate(Starts(p, f), Stops(p, f))
  /\ Alternate(Stops(p, f), Starts(p, f))
  /\ counter[p][f] = 1 => Followed(Stops(p, f), Starts(p, f))
  /\ counter[p][f] = 0 => Followed(Starts(p, f), Stops(p, f))

Settled(p, f) == Starts(p, f) = {} /\ Stops(p, f) = {}

\* The controller in the daemon: a stop that follows a crash disables it.
Source(p, f) ==
  /\ remoteCounter[p][f] \in {-1, 0, 1}
  /\ hardware[p][f] <=> remoteCounter[p][f] = 1
  /\ remoteCounter[p][f] # 0 => p \in up

\* A source that runs is stopped before it is started again.
RunningStops(p, f) ==
  remoteCounter[p][f] = 1 =>
    /\ Preceded(Starts(p, f), Stops(p, f))
    /\ Settled(p, f) => counter[p][f] = 1

\* A source that does not run is started before it is stopped.
IdleStarts(p, f) ==
  p \notin crashed /\ remoteCounter[p][f] # 1 =>
    /\ remoteCounter[p][f] = 0
    /\ Preceded(Stops(p, f), Starts(p, f))
    /\ Settled(p, f) => counter[p][f] = 0

\* Nothing is asked of a daemon that never came up.
Unasked(p) ==
  p \notin up \union crashed =>
    /\ phase[p] # "ready"
    /\ \A f \in Features : Settled(p, f)

Ordered(p, f) ==
  InTurn(p, f) /\ Source(p, f) /\ RunningStops(p, f) /\ IdleStarts(p, f)

IInv ==
  /\ TypeOK
  /\ \A p \in Remotes, f \in Features : Ordered(p, f)
  /\ \A p \in Remotes : Unasked(p)

-----------------------------------------------------------------------------
(* Sets of places, as the line moves. *)

LEMMA TurnsPass ==
  ASSUME NEW A \in SUBSET Nat, NEW B \in SUBSET Nat
  PROVE  /\ Alternate(A, B) => Alternate(A \ {0}, B \ {0})
         /\ Followed(A, B) => Followed(A \ {0}, B \ {0})
         /\ 0 \in A /\ Alternate(A, B) => Preceded(A \ {0}, B \ {0})
         /\ 0 \in A => ~Preceded(A, B)
         /\ 0 \in A /\ Followed(A, B) => B \ {0} # {}
         /\ 0 \notin B => (Preceded(A, B) => Preceded(A \ {0}, B \ {0}))
BY DEF Alternate, Followed, Preceded

Up(A) == {i \in Nat : i + 1 \in A}

LEMMA TurnsMoveUp ==
  ASSUME NEW A \in SUBSET Nat, NEW B \in SUBSET Nat, 0 \notin A, 0 \notin B
  PROVE  /\ Alternate(A, B) => Alternate(Up(A), Up(B))
         /\ Followed(A, B) => Followed(Up(A), Up(B))
         /\ Preceded(A, B) => Preceded(Up(A), Up(B))
         /\ A = {} <=> Up(A) = {}
<1>1. \A i \in A : i - 1 \in Up(A)
  BY DEF Up
<1>2. \A i \in B : i - 1 \in Up(B)
  BY DEF Up
<1>3. /\ \A i \in Up(A) : i \in Nat /\ i + 1 \in A
      /\ \A i \in Up(B) : i \in Nat /\ i + 1 \in B
  BY DEF Up
<1>4. Alternate(A, B) => Alternate(Up(A), Up(B))
  <2> SUFFICES ASSUME Alternate(A, B), NEW i \in Up(A), NEW j \in Up(A), i < j
               PROVE  \E k \in Up(B) : i < k /\ k < j
    BY DEF Alternate
  <2>1. PICK k \in B : i + 1 < k /\ k < j + 1
    BY <1>3 DEF Alternate
  <2> QED
    BY <2>1, <1>2, <1>3
<1>5. Followed(A, B) => Followed(Up(A), Up(B))
  <2> SUFFICES ASSUME Followed(A, B), NEW i \in Up(A)
               PROVE  \E j \in Up(B) : i < j
    BY DEF Followed
  <2>1. PICK j \in B : i + 1 < j
    BY <1>3 DEF Followed
  <2> QED
    BY <2>1, <1>2, <1>3
<1>6. Preceded(A, B) => Preceded(Up(A), Up(B))
  <2> SUFFICES ASSUME Preceded(A, B), NEW i \in Up(A)
               PROVE  \E j \in Up(B) : j < i
    BY DEF Preceded
  <2>1. PICK j \in B : j < i + 1
    BY <1>3 DEF Preceded
  <2> QED
    BY <2>1, <1>2, <1>3
<1> QED
  BY <1>1, <1>3, <1>4, <1>5, <1>6

LEMMA TurnsGrow ==
  ASSUME NEW A \in SUBSET Nat, NEW B \in SUBSET Nat, NEW n \in Nat,
         \A i \in A \union B : i < n
  PROVE  /\ Alternate(A, B) /\ Followed(A, B) => Alternate(A \union {n}, B)
         /\ Alternate(B, A) => Alternate(B, A \union {n})
         /\ Followed(B, A \union {n})
         /\ Preceded(A, B) /\ B # {} => Preceded(A \union {n}, B)
         /\ Preceded(B, A) => Preceded(B, A \union {n})
<1>1. Alternate(A, B) /\ Followed(A, B) => Alternate(A \union {n}, B)
  <2> SUFFICES ASSUME Alternate(A, B), Followed(A, B),
                      NEW i \in A \union {n}, NEW j \in A \union {n}, i < j
               PROVE  \E k \in B : i < k /\ k < j
    BY DEF Alternate
  <2>1. CASE j = n
    <3>1. i \in A
      BY <2>1
    <3> QED
      BY <2>1, <3>1 DEF Followed
  <2>2. CASE j # n
    <3>1. i \in A /\ j \in A
      BY <2>2
    <3> QED
      BY <3>1 DEF Alternate
  <2> QED
    BY <2>1, <2>2
<1>2. Alternate(B, A) => Alternate(B, A \union {n})
  BY DEF Alternate
<1>3. Followed(B, A \union {n})
  BY DEF Followed
<1>4. Preceded(A, B) /\ B # {} => Preceded(A \union {n}, B)
  BY DEF Preceded
<1>5. Preceded(B, A) => Preceded(B, A \union {n})
  BY DEF Preceded
<1> QED
  BY <1>1, <1>2, <1>3, <1>4, <1>5

-----------------------------------------------------------------------------
(* The line, as the steps change it. *)

LEMMA PlacesAreNumbers ==
  ASSUME TypeOK, NEW op, NEW p, NEW f
  PROVE  /\ Places(op, p, f) \in SUBSET Nat
         /\ \A i \in Places(op, p, f) : i < Len(tasks) + 1
BY DEF TypeOK, Places

LEMMA SameLine ==
  ASSUME UNCHANGED <<call, tasks>>, NEW op, NEW p, NEW f
  PROVE  Places(op, p, f)' = Places(op, p, f)
BY DEF Places, At, Called

LEMMA MovesUp ==
  ASSUME TypeOK, RunTask, NEW op, NEW p, NEW f
  PROVE  /\ 0 \notin Places(op, p, f)
         /\ Places(op, p, f)' = Up(Places(op, p, f))
<1> DEFINE t == [op |-> op, p |-> p, f |-> f]
<1>1. tasks \in Seq(Task) /\ tasks # <<>>
  BY DEF TypeOK, RunTask
<1>2. call' = <<tasks[1]>> /\ call = <<>>
  BY <1>1 DEF RunTask
<1>3. /\ Len(tasks') = Len(tasks) - 1
      /\ Len(tasks) \in Nat \ {0}
      /\ \A i \in 1 .. Len(tasks) - 1 : tasks'[i] = tasks[i + 1]
  BY <1>1 DEF RunTask
<1>4. 0 \notin Places(op, p, f)
  BY <1>2 DEF Places, At, Called
<1>5. Called(op, p, f)' <=> tasks[1] = t
  BY <1>2 DEF Called
<1>6. \A i \in 0 .. Len(tasks) - 1 : At(op, p, f, i)' <=> At(op, p, f, i + 1)
  BY <1>3, <1>5 DEF At
<1> QED
  BY <1>3, <1>4, <1>6 DEF Places, Up

LEMMA CallEnds ==
  ASSUME TypeOK, call' = <<>>, tasks' = tasks, NEW op, NEW p, NEW f
  PROVE  Places(op, p, f)' = Places(op, p, f) \ {0}
BY DEF Places, At, Called, TypeOK

LEMMA LineGrows ==
  ASSUME TypeOK, NEW op \in Ops, NEW p \in Remotes, NEW f \in Features,
         Post(op, p, f), call' = call
  PROVE  /\ Places(op, p, f)' = Places(op, p, f) \union {Len(tasks) + 1}
         /\ \A o, q, g : ~(o = op /\ q = p /\ g = f) =>
              Places(o, q, g)' = Places(o, q, g)
<1> DEFINE t == [op |-> op, p |-> p, f |-> f]
<1>1. tasks \in Seq(Task) /\ Len(tasks) \in Nat
  BY DEF TypeOK
<1>2. /\ Len(tasks') = Len(tasks) + 1
      /\ \A i \in 1 .. Len(tasks) : tasks'[i] = tasks[i]
      /\ tasks'[Len(tasks) + 1] = t
  BY <1>1 DEF Post, Task, Ops
<1>3. \A o, q, g : \A i \in 0 .. Len(tasks) : At(o, q, g, i)' <=> At(o, q, g, i)
  <2>1. \A o, q, g : Called(o, q, g)' <=> Called(o, q, g)
    BY DEF Called
  <2> QED
    BY <1>1, <1>2, <2>1 DEF At
<1>4. PICK n \in Nat : n = Len(tasks) + 1
  BY <1>1
<1>5. \A o, q, g : At(o, q, g, n)' <=> t = [op |-> o, p |-> q, f |-> g]
  BY <1>1, <1>2, <1>4 DEF At
<1>6. \A o, q, g : t = [op |-> o, p |-> q, f |-> g] <=> o = op /\ q = p /\ g = f
  OBVIOUS
<1>7. 0 .. Len(tasks') = (0 .. Len(tasks)) \union {n}
  BY <1>1, <1>2, <1>4
<1>8. ASSUME NEW o, NEW q, NEW g
      PROVE  Places(o, q, g)' = IF o = op /\ q = p /\ g = f
               THEN Places(o, q, g) \union {n} ELSE Places(o, q, g)
  <2>1. Places(o, q, g)' = {i \in (0 .. Len(tasks)) \union {n} : At(o, q, g, i)'}
    BY <1>7 DEF Places
  <2>2. At(o, q, g, n)' <=> o = op /\ q = p /\ g = f
    BY <1>5, <1>6
  <2> HIDE DEF t
  <2> QED
    BY <2>1, <2>2, <1>1, <1>3, <1>4 DEF Places
<1> QED
  BY <1>4, <1>8

LEMMA CrashCutsOff ==
  ASSUME TypeOK, NEW p \in Remotes, Crash(p), NEW op \in Ops, NEW q \in Remotes, NEW f \in Features
  PROVE  Places(op, q, f)' = IF q = p THEN Places(op, q, f) \ {0} ELSE Places(op, q, f)
<1>1. CASE \E g \in Features : Called("start", p, g) \/ Called("stop", p, g)
  <2>1. call' = <<>> /\ tasks' = tasks
    BY <1>1 DEF Crash
  <2>2. Places(op, q, f)' = Places(op, q, f) \ {0}
    BY <2>1, CallEnds
  <2>3. q # p => ~Called(op, q, f)
    BY <1>1 DEF Called
  <2>4. q # p => 0 \notin Places(op, q, f)
    BY <2>3 DEF Places, At
  <2> QED
    BY <2>2, <2>4
<1>2. CASE ~\E g \in Features : Called("start", p, g) \/ Called("stop", p, g)
  <2>1. UNCHANGED <<call, tasks>>
    BY <1>2 DEF Crash
  <2>2. Places(op, q, f)' = Places(op, q, f)
    BY <2>1, SameLine
  <2>3. q = p => 0 \notin Places(op, q, f)
    BY <1>2 DEF Places, At, Ops
  <2> QED
    BY <2>2, <2>3
<1> QED
  BY <1>1, <1>2

-----------------------------------------------------------------------------
(* Typing. *)

LEMMA TypedInit == Init => TypeOK
BY DEF Init, TypeOK, Zero, Silent, Phase, Task

LEMMA TypedStep == TypeOK /\ [Next]_vars => TypeOK'
<1> SUFFICES ASSUME TypeOK, [Next]_vars PROVE TypeOK'
  OBVIOUS
<1> USE DEF TypeOK, stubVars, daemonVars, loadVars, remoteVars
<1>1. CASE RunTask
  <2>1. Head(tasks) \in Task /\ Tail(tasks) \in Seq(Task)
    BY <1>1 DEF RunTask
  <2>2. call' \in Seq(Task) /\ Len(call') <= 1
    BY <1>1, <2>1 DEF RunTask
  <2> QED
    BY <1>1, <2>1, <2>2 DEF RunTask
<1>2. ASSUME NEW p \in Remotes, Load(p) PROVE TypeOK'
  BY <1>2 DEF Load, CheckOwner, Watch, Registered, WaitTimesOut, Ping, GoTo,
              LoadUnchanged, Phase
<1>3. ASSUME NEW p \in Remotes, NEW f \in Features, NEW op \in Ops, Post(op, p, f)
      PROVE  tasks' \in Seq(Task)
  <2>1. [op |-> op, p |-> p, f |-> f] \in Task
    BY DEF Task, Ops
  <2> QED
    BY <1>3, <2>1 DEF Post
<1>4. ASSUME NEW p \in Remotes, NEW f \in Features, StartUpdates(p, f)
      PROVE  TypeOK'
  BY <1>3, <1>4 DEF StartUpdates, Ops
<1>5. ASSUME NEW p \in Remotes, NEW f \in Features, StopUpdates(p, f)
      PROVE  TypeOK'
  BY <1>3, <1>5 DEF StopUpdates, Ops
<1>6. ASSUME NEW p \in Remotes, NEW f \in Features, HandleStart(p, f)
       PROVE  TypeOK'
  BY <1>6 DEF HandleStart, Incremented
<1>7. ASSUME NEW p \in Remotes, NEW f \in Features, HandleStop(p, f)
       PROVE  TypeOK'
  BY <1>7 DEF HandleStop, Decremented
<1>8. ASSUME NEW p \in Remotes, CallFails(p) PROVE TypeOK'
  BY <1>8 DEF CallFails
<1>9. ASSUME NEW p \in Remotes, ComesUp(p) PROVE TypeOK'
  BY <1>9 DEF ComesUp
<1>10. ASSUME NEW p \in Remotes, Crash(p) PROVE TypeOK'
  BY <1>10 DEF Crash, Zero, Silent
<1>11. CASE UNCHANGED vars
  BY <1>11 DEF vars
<1> QED
  BY <1>1, <1>2, <1>3, <1>4, <1>8, <1>9, <1>10, <1>11, <1>5, <1>6, <1>7
     DEF Next, Handle

-----------------------------------------------------------------------------
(* What each step does to the order of starts and stops. *)

LEMMA LineMoves ==
  ASSUME TypeOK, RunTask, NEW p \in Remotes, NEW f \in Features, Ordered(p, f)
  PROVE  Ordered(p, f)' /\ (Settled(p, f) <=> Settled(p, f)')
<1> DEFINE S == Starts(p, f)
           T == Stops(p, f)
<1>1. /\ S \in SUBSET Nat /\ 0 \notin S /\ S' = Up(S)
      /\ T \in SUBSET Nat /\ 0 \notin T /\ T' = Up(T)
  BY PlacesAreNumbers, MovesUp DEF Starts, Stops
<1> HIDE DEF S, T
<1>2. /\ Alternate(S, T) => Alternate(S', T')
      /\ Followed(S, T) => Followed(S', T')
      /\ Preceded(S, T) => Preceded(S', T')
      /\ S = {} <=> S' = {}
  BY <1>1, TurnsMoveUp
<1>3. /\ Alternate(T, S) => Alternate(T', S')
      /\ Followed(T, S) => Followed(T', S')
      /\ Preceded(T, S) => Preceded(T', S')
      /\ T = {} <=> T' = {}
  BY <1>1, TurnsMoveUp
<1>4. UNCHANGED <<counter, remoteCounter, hardware, up, crashed>>
  BY DEF RunTask, daemonVars, remoteVars
<1>5. (Settled(p, f) <=> S = {} /\ T = {}) /\ (Settled(p, f)' <=> S' = {} /\ T' = {})
  BY DEF Settled, S, T
<1>6. InTurn(p, f)'
  BY <1>2, <1>3, <1>4 DEF Ordered, InTurn, S, T
<1>7. Source(p, f)'
  BY <1>4 DEF Ordered, Source
<1>8. RunningStops(p, f)'
  BY <1>2, <1>3, <1>4, <1>5 DEF Ordered, RunningStops, S, T
<1>9. IdleStarts(p, f)'
  BY <1>2, <1>3, <1>4, <1>5 DEF Ordered, IdleStarts, S, T
<1> QED
  BY <1>2, <1>3, <1>5, <1>6, <1>7, <1>8, <1>9 DEF Ordered

LEMMA StartIsPosted ==
  ASSUME TypeOK, NEW q \in Remotes, NEW g \in Features, StartUpdates(q, g),
         NEW p \in Remotes, NEW f \in Features, Ordered(p, f)
  PROVE  Ordered(p, f)' /\ (p # q => Settled(p, f)' = Settled(p, f))
<1> DEFINE S == Starts(p, f)
           T == Stops(p, f)
           n == Len(tasks) + 1
<1>1. /\ S \in SUBSET Nat /\ T \in SUBSET Nat /\ n \in Nat
      /\ \A i \in S \union T : i < n
  BY PlacesAreNumbers DEF Starts, Stops, TypeOK
<1>2. /\ S' = IF p = q /\ f = g THEN S \union {n} ELSE S
      /\ T' = T
  BY LineGrows DEF Starts, Stops, StartUpdates, Ops
<1>3. /\ UNCHANGED <<remoteCounter, hardware, up, crashed>>
      /\ counter[q][g] = 0 /\ counter' = [counter EXCEPT ![q][g] = 1]
  BY DEF StartUpdates, daemonVars, remoteVars
<1>4. (Settled(p, f) <=> S = {} /\ T = {}) /\ (Settled(p, f)' <=> S' = {} /\ T' = {})
  BY DEF Settled
<1>5. Source(p, f)'
  BY <1>3 DEF Ordered, Source
<1>6. CASE p = q /\ f = g
  <2>1. counter[p][f] = 0 /\ counter'[p][f] = 1 /\ S' = S \union {n} /\ T' = T
    BY <1>2, <1>3, <1>6 DEF TypeOK
  <2> HIDE DEF S, T, n
  <2>2. Followed(S, T) /\ Alternate(S, T) /\ Alternate(T, S)
    BY <2>1 DEF Ordered, InTurn, S, T
  <2>3. /\ Alternate(S', T') /\ Alternate(T', S') /\ Followed(T', S')
        /\ Preceded(T, S) => Preceded(T', S')
        /\ Preceded(S, T) /\ T # {} => Preceded(S', T')
        /\ S' # {}
    BY <1>1, <2>1, <2>2, TurnsGrow
  <2>4. InTurn(p, f)'
    BY <2>1, <2>3 DEF InTurn, S, T
  <2>5. RunningStops(p, f)'
    <3> SUFFICES ASSUME remoteCounter[p][f] = 1
                 PROVE  Preceded(S', T') /\ ~Settled(p, f)'
      BY <1>3 DEF RunningStops, S, T
    <3>1. Preceded(S, T) /\ ~Settled(p, f)
      BY <2>1 DEF Ordered, RunningStops, S, T
    <3>2. T # {}
      BY <3>1, <1>4, <2>2 DEF Followed
    <3> QED
      BY <3>1, <3>2, <2>3, <1>4
  <2>6. IdleStarts(p, f)'
    BY <2>3, <1>3, <1>4 DEF Ordered, IdleStarts, S, T
  <2> QED
    BY <2>4, <2>5, <2>6, <1>5, <1>6 DEF Ordered
<1>7. CASE ~(p = q /\ f = g)
  <2>1. counter'[p][f] = counter[p][f] /\ S' = S /\ T' = T
    BY <1>2, <1>3, <1>7 DEF TypeOK
  <2>2. Settled(p, f)' = Settled(p, f)
    BY <2>1 DEF Settled
  <2> QED
    BY <2>1, <2>2, <1>3, <1>5
       DEF Ordered, InTurn, RunningStops, IdleStarts
<1> QED
  BY <1>6, <1>7

LEMMA StopIsPosted ==
  ASSUME TypeOK, NEW q \in Remotes, NEW g \in Features, StopUpdates(q, g),
         NEW p \in Remotes, NEW f \in Features, Ordered(p, f)
  PROVE  Ordered(p, f)' /\ (p # q => Settled(p, f)' = Settled(p, f))
<1> DEFINE S == Starts(p, f)
           T == Stops(p, f)
           n == Len(tasks) + 1
<1>1. /\ S \in SUBSET Nat /\ T \in SUBSET Nat /\ n \in Nat
      /\ \A i \in S \union T : i < n
  BY PlacesAreNumbers DEF Starts, Stops, TypeOK
<1>2. /\ T' = IF p = q /\ f = g THEN T \union {n} ELSE T
      /\ S' = S
  BY LineGrows DEF Starts, Stops, StopUpdates, Ops
<1>3. /\ UNCHANGED <<remoteCounter, hardware, up, crashed>>
      /\ counter[q][g] = 1 /\ counter' = [counter EXCEPT ![q][g] = 0]
  BY DEF StopUpdates, daemonVars, remoteVars
<1>4. (Settled(p, f) <=> S = {} /\ T = {}) /\ (Settled(p, f)' <=> S' = {} /\ T' = {})
  BY DEF Settled
<1>5. Source(p, f)'
  BY <1>3 DEF Ordered, Source
<1>6. CASE p = q /\ f = g
  <2>1. counter[p][f] = 1 /\ counter'[p][f] = 0 /\ T' = T \union {n} /\ S' = S
    BY <1>2, <1>3, <1>6 DEF TypeOK
  <2> HIDE DEF S, T, n
  <2>2. Followed(T, S) /\ Alternate(S, T) /\ Alternate(T, S)
    BY <2>1 DEF Ordered, InTurn, S, T
  <2>3. /\ Alternate(S', T') /\ Alternate(T', S') /\ Followed(S', T')
        /\ Preceded(S, T) => Preceded(S', T')
        /\ Preceded(T, S) /\ S # {} => Preceded(T', S')
        /\ T' # {}
    BY <1>1, <2>1, <2>2, TurnsGrow
  <2>4. InTurn(p, f)'
    BY <2>1, <2>3 DEF InTurn, S, T
  <2>5. RunningStops(p, f)'
    BY <2>3, <1>3, <1>4 DEF Ordered, RunningStops, S, T
  <2>6. IdleStarts(p, f)'
    <3> SUFFICES ASSUME p \notin crashed, remoteCounter[p][f] # 1
                 PROVE  /\ remoteCounter[p][f] = 0
                        /\ Preceded(T', S') /\ ~Settled(p, f)'
      BY <1>3 DEF IdleStarts, S, T
    <3>1. remoteCounter[p][f] = 0 /\ Preceded(T, S) /\ ~Settled(p, f)
      BY <2>1 DEF Ordered, IdleStarts, S, T
    <3>2. S # {}
      BY <3>1, <1>4, <2>2 DEF Followed
    <3> QED
      BY <3>1, <3>2, <2>3, <1>4
  <2> QED
    BY <2>4, <2>5, <2>6, <1>5, <1>6 DEF Ordered
<1>7. CASE ~(p = q /\ f = g)
  <2>1. counter'[p][f] = counter[p][f] /\ S' = S /\ T' = T
    BY <1>2, <1>3, <1>7 DEF TypeOK
  <2>2. Settled(p, f)' = Settled(p, f)
    BY <2>1 DEF Settled
  <2> QED
    BY <2>1, <2>2, <1>3, <1>5
       DEF Ordered, InTurn, RunningStops, IdleStarts
<1> QED
  BY <1>6, <1>7

\* The call under way is the first of its feature, so that what follows it is
\* the opposite call, or nothing if the Stub's controller agrees with it.
LEMMA FirstIsMade ==
  ASSUME TypeOK, NEW p \in Remotes, NEW f \in Features, InTurn(p, f)
  PROVE  /\ Called("start", p, f) <=> 0 \in Starts(p, f)
         /\ Called("stop", p, f) <=> 0 \in Stops(p, f)
         /\ 0 \in Starts(p, f) =>
              /\ 0 \notin Stops(p, f)
              /\ Preceded(Starts(p, f) \ {0}, Stops(p, f) \ {0})
              /\ counter[p][f] = 0 => Stops(p, f) \ {0} # {}
         /\ 0 \in Stops(p, f) =>
              /\ 0 \notin Starts(p, f)
              /\ Preceded(Stops(p, f) \ {0}, Starts(p, f) \ {0})
              /\ counter[p][f] = 1 => Starts(p, f) \ {0} # {}
<1>1. /\ Called("start", p, f) <=> 0 \in Starts(p, f)
      /\ Called("stop", p, f) <=> 0 \in Stops(p, f)
  BY DEF Starts, Stops, Places, At, TypeOK
<1>2. ~(Called("start", p, f) /\ Called("stop", p, f))
  BY DEF Called
<1>3. Starts(p, f) \in SUBSET Nat /\ Stops(p, f) \in SUBSET Nat
  BY PlacesAreNumbers DEF Starts, Stops
<1> QED
  BY <1>1, <1>2, <1>3, TurnsPass DEF InTurn

\* A call that ends, in whatever way, leaves the turns as they are.
LEMMA TurnsRemain ==
  ASSUME TypeOK, NEW p \in Remotes, NEW f \in Features, InTurn(p, f),
         counter' = counter,
         Starts(p, f)' = Starts(p, f) \ {0}, Stops(p, f)' = Stops(p, f) \ {0}
  PROVE  InTurn(p, f)'
<1> DEFINE S == Starts(p, f)
           T == Stops(p, f)
<1>1. S \in SUBSET Nat /\ T \in SUBSET Nat
  BY PlacesAreNumbers DEF Starts, Stops
<1>2. S' = S \ {0} /\ T' = T \ {0}
  OBVIOUS
<1> HIDE DEF S, T
<1>3. /\ Alternate(S, T) => Alternate(S', T')
      /\ Alternate(T, S) => Alternate(T', S')
      /\ Followed(S, T) => Followed(S', T')
      /\ Followed(T, S) => Followed(T', S')
  BY <1>1, <1>2, TurnsPass
<1> QED
  BY <1>3 DEF InTurn, S, T

LEMMA LineShortens ==
  ASSUME TypeOK, call' = <<>>, tasks' = tasks, NEW p \in Remotes, NEW f \in Features
  PROVE  /\ Starts(p, f)' = Starts(p, f) \ {0}
         /\ Stops(p, f)' = Stops(p, f) \ {0}
         /\ Settled(p, f) => Settled(p, f)'
BY CallEnds DEF Starts, Stops, Settled

\* The end of another feature's call changes nothing.
LEMMA OthersCallEnds ==
  ASSUME TypeOK, NEW p \in Remotes, NEW f \in Features, Ordered(p, f),
         call' = <<>>, tasks' = tasks, ~Called("start", p, f), ~Called("stop", p, f),
         UNCHANGED <<counter, up, crashed, remoteCounter[p][f], hardware[p][f]>>
  PROVE  Ordered(p, f)'
<1>1. 0 \notin Starts(p, f) /\ 0 \notin Stops(p, f)
  BY FirstIsMade DEF Ordered
<1>2. Starts(p, f)' = Starts(p, f) /\ Stops(p, f)' = Stops(p, f)
  <2>1. Starts(p, f) \ {0} = Starts(p, f) /\ Stops(p, f) \ {0} = Stops(p, f)
    BY <1>1
  <2> QED
    BY <2>1, LineShortens
<1>3. Settled(p, f)' = Settled(p, f)
  BY <1>2 DEF Settled
<1> QED
  BY <1>2, <1>3 DEF Ordered, InTurn, Source, RunningStops, IdleStarts

LEMMA StartIsHandled ==
  ASSUME TypeOK, NEW q \in Remotes, NEW g \in Features, HandleStart(q, g),
         NEW p \in Remotes, NEW f \in Features, Ordered(p, f)
  PROVE  Ordered(p, f)'
<1>1. /\ UNCHANGED <<counter, up, crashed, tasks>> /\ call' = <<>>
      /\ Called("start", q, g) /\ q \in up
  BY DEF HandleStart, daemonVars
<1>2. CASE p = q /\ f = g
  <2>1. 0 \in Starts(p, f) /\ InTurn(p, f)
    BY <1>1, <1>2, FirstIsMade DEF Ordered
  <2>2. /\ Starts(p, f)' = Starts(p, f) \ {0}
        /\ Stops(p, f)' = Stops(p, f) \ {0}
    BY <1>1, LineShortens
  <2>3. ~Preceded(Starts(p, f), Stops(p, f))
    BY <2>1, PlacesAreNumbers, TurnsPass DEF Starts, Stops
  <2>4. remoteCounter[p][f] \in {-1, 0}
    BY <2>3 DEF Ordered, RunningStops, Source
  <2>5. /\ remoteCounter'[p][f] = IF remoteCounter[p][f] = 0 THEN 1 ELSE -1
        /\ hardware'[p][f] <=> remoteCounter[p][f] = 0
    <3>1. /\ remoteCounter'[p][f] = Incremented(remoteCounter[p][f])
          /\ hardware'[p][f] = (hardware[p][f] \/ remoteCounter[p][f] = 0)
      BY <1>2 DEF HandleStart, TypeOK
    <3>2. hardware[p][f] <=> remoteCounter[p][f] = 1
      BY DEF Ordered, Source
    <3>3. remoteCounter'[p][f] = IF remoteCounter[p][f] = 0 THEN 1 ELSE -1
      BY <2>4, <3>1 DEF Incremented
    <3>4. ~hardware[p][f]
      BY <2>4, <3>2
    <3> QED
      BY <3>1, <3>3, <3>4
  <2>6. InTurn(p, f)'
    BY <2>1, <2>2, <1>1, TurnsRemain
  <2>7. Source(p, f)'
    BY <2>4, <2>5, <1>1, <1>2 DEF Source
  <2>8. RunningStops(p, f)'
    BY <2>1, <2>2, <1>1, FirstIsMade DEF RunningStops, Settled, InTurn
  <2>9. IdleStarts(p, f)'
    BY <2>4, <2>5, <1>1 DEF IdleStarts, Ordered
  <2> QED
    BY <2>6, <2>7, <2>8, <2>9 DEF Ordered
<1>3. CASE ~(p = q /\ f = g)
  <2>1. ~Called("start", p, f) /\ ~Called("stop", p, f)
    BY <1>1, <1>3 DEF Called
  <2>2. UNCHANGED <<remoteCounter[p][f], hardware[p][f]>>
    BY <1>3 DEF HandleStart, TypeOK
  <2> QED
    BY <1>1, <2>1, <2>2, OthersCallEnds
<1> QED
  BY <1>2, <1>3

LEMMA StopIsHandled ==
  ASSUME TypeOK, NEW q \in Remotes, NEW g \in Features, HandleStop(q, g),
         NEW p \in Remotes, NEW f \in Features, Ordered(p, f)
  PROVE  Ordered(p, f)'
<1>1. /\ UNCHANGED <<counter, up, crashed, tasks>> /\ call' = <<>>
      /\ Called("stop", q, g) /\ q \in up
  BY DEF HandleStop, daemonVars
<1>2. CASE p = q /\ f = g
  <2>1. 0 \in Stops(p, f) /\ InTurn(p, f)
    BY <1>1, <1>2, FirstIsMade DEF Ordered
  <2>2. /\ Starts(p, f)' = Starts(p, f) \ {0}
        /\ Stops(p, f)' = Stops(p, f) \ {0}
    BY <1>1, LineShortens
  <2>3. ~Preceded(Stops(p, f), Starts(p, f))
    BY <2>1, PlacesAreNumbers, TurnsPass DEF Starts, Stops
  <2>4. p \notin crashed => remoteCounter[p][f] = 1
    BY <2>3 DEF Ordered, IdleStarts
  <2>5. /\ remoteCounter[p][f] \in {-1, 0, 1}
        /\ remoteCounter'[p][f] = IF remoteCounter[p][f] = 1 THEN 0 ELSE -1
        /\ ~hardware'[p][f]
    <3>1. /\ remoteCounter'[p][f] = Decremented(remoteCounter[p][f])
          /\ hardware'[p][f] = (hardware[p][f] /\ remoteCounter[p][f] # 1)
      BY <1>2 DEF HandleStop, TypeOK
    <3>2. /\ hardware[p][f] <=> remoteCounter[p][f] = 1
          /\ remoteCounter[p][f] \in {-1, 0, 1}
      BY DEF Ordered, Source
    <3>3. remoteCounter'[p][f] = IF remoteCounter[p][f] = 1 THEN 0 ELSE -1
      BY <3>1, <3>2 DEF Decremented
    <3> QED
      BY <3>1, <3>2, <3>3
  <2>6. InTurn(p, f)'
    BY <2>1, <2>2, <1>1, TurnsRemain
  <2>7. Source(p, f)'
    BY <2>5, <1>1, <1>2 DEF Source
  <2>8. RunningStops(p, f)'
    BY <2>5 DEF RunningStops
  <2>9. IdleStarts(p, f)'
    BY <2>1, <2>2, <2>4, <2>5, <1>1, FirstIsMade DEF IdleStarts, Settled, InTurn
  <2> QED
    BY <2>6, <2>7, <2>8, <2>9 DEF Ordered
<1>3. CASE ~(p = q /\ f = g)
  <2>1. ~Called("start", p, f) /\ ~Called("stop", p, f)
    BY <1>1, <1>3 DEF Called
  <2>2. UNCHANGED <<remoteCounter[p][f], hardware[p][f]>>
    BY <1>3 DEF HandleStop, TypeOK
  <2> QED
    BY <1>1, <2>1, <2>2, OthersCallEnds
<1> QED
  BY <1>2, <1>3

\* Only a daemon that has crashed misses a call.
LEMMA CallIsMissed ==
  ASSUME TypeOK, NEW q \in Remotes, CallFails(q), Unasked(q),
         NEW p \in Remotes, NEW f \in Features, Ordered(p, f)
  PROVE  Ordered(p, f)'
<1>1. /\ UNCHANGED <<counter, up, crashed, tasks, remoteCounter, hardware>>
      /\ call' = <<>> /\ q \notin up
  BY DEF CallFails, daemonVars, remoteVars
<1>2. CASE ~Called("start", p, f) /\ ~Called("stop", p, f)
  BY <1>1, <1>2, OthersCallEnds
<1>3. CASE Called("start", p, f) \/ Called("stop", p, f)
  <2>1. p = q
    BY <1>3 DEF CallFails, Called
  <2>2. ~Settled(p, f)
    BY <1>3, FirstIsMade DEF Settled, Ordered
  <2>3. p \in crashed
    BY <1>1, <2>1, <2>2 DEF Unasked
  <2>4. remoteCounter[p][f] = 0
    BY <1>1, <2>1 DEF Ordered, Source
  <2>5. InTurn(p, f)'
    BY <1>1, LineShortens, TurnsRemain DEF Ordered
  <2> QED
    BY <1>1, <2>3, <2>4, <2>5 DEF Ordered, Source, RunningStops, IdleStarts
<1> QED
  BY <1>2, <1>3

LEMMA DaemonCrashes ==
  ASSUME TypeOK, NEW q \in Remotes, Crash(q),
         NEW p \in Remotes, NEW f \in Features, Ordered(p, f)
  PROVE  Ordered(p, f)' /\ (Settled(p, f) => Settled(p, f)')
<1>1. /\ counter' = counter /\ up' = up \ {q} /\ crashed' = crashed \union {q}
      /\ remoteCounter' = [remoteCounter EXCEPT ![q] = Zero]
      /\ hardware' = [hardware EXCEPT ![q] = Silent]
  BY DEF Crash
<1>2. /\ Starts(p, f)' = IF p = q THEN Starts(p, f) \ {0} ELSE Starts(p, f)
      /\ Stops(p, f)' = IF p = q THEN Stops(p, f) \ {0} ELSE Stops(p, f)
  BY CrashCutsOff DEF Starts, Stops, Ops
<1>3. CASE p = q
  <2>1. remoteCounter'[p][f] = 0 /\ ~hardware'[p][f] /\ p \in crashed'
    BY <1>1, <1>3 DEF Zero, Silent, TypeOK
  <2>2. InTurn(p, f)'
    BY <1>1, <1>2, <1>3, TurnsRemain DEF Ordered
  <2> QED
    BY <1>2, <2>1, <2>2 DEF Ordered, Source, RunningStops, IdleStarts, Settled
<1>4. CASE p # q
  <2>1. /\ remoteCounter'[p][f] = remoteCounter[p][f]
        /\ hardware'[p][f] = hardware[p][f]
        /\ p \in up' <=> p \in up
        /\ p \in crashed' <=> p \in crashed
    BY <1>1, <1>4 DEF TypeOK
  <2>2. /\ Starts(p, f)' = Starts(p, f) /\ Stops(p, f)' = Stops(p, f)
        /\ Settled(p, f)' = Settled(p, f)
    BY <1>2, <1>4 DEF Settled
  <2> QED
    BY <1>1, <2>1, <2>2 DEF Ordered, InTurn, Source, RunningStops, IdleStarts
<1> QED
  BY <1>3, <1>4

\* Steps that leave Stub, line and source alone; a daemon may come up.
LEMMA NothingIsCalled ==
  ASSUME UNCHANGED <<counter, tasks, call, crashed, remoteCounter, hardware>>,
         up \subseteq up', NEW p \in Remotes, NEW f \in Features, Ordered(p, f)
  PROVE  Ordered(p, f)' /\ Settled(p, f)' = Settled(p, f)
<1>1. Starts(p, f)' = Starts(p, f) /\ Stops(p, f)' = Stops(p, f)
  BY SameLine DEF Starts, Stops
<1>2. Settled(p, f)' = Settled(p, f)
  BY <1>1 DEF Settled
<1> QED
  BY <1>1, <1>2 DEF Ordered, InTurn, Source, RunningStops, IdleStarts

-----------------------------------------------------------------------------
(* The invariant. *)

LEMMA InvInit == Init => IInv
<1> SUFFICES ASSUME Init PROVE IInv
  OBVIOUS
<1>1. TypeOK
  BY TypedInit
<1>2. ASSUME NEW p \in Remotes, NEW f \in Features
      PROVE  Starts(p, f) = {} /\ Stops(p, f) = {}
  BY DEF Init, Starts, Stops, Places, At, Called
<1>3. ASSUME NEW p \in Remotes, NEW f \in Features
      PROVE  Ordered(p, f)
  <2>1. counter[p][f] = 0 /\ remoteCounter[p][f] = 0 /\ ~hardware[p][f]
    BY DEF Init, Zero, Silent
  <2> QED
    BY <1>2, <2>1 DEF Ordered, InTurn, Source, RunningStops, IdleStarts,
                      Alternate, Followed, Preceded, Settled
<1>4. ASSUME NEW p \in Remotes PROVE Unasked(p)
  BY <1>2 DEF Init, Unasked, Settled
<1> QED
  BY <1>1, <1>3, <1>4 DEF IInv

LEMMA InvStep == IInv /\ [Next]_vars => IInv'
<1> SUFFICES ASSUME IInv, [Next]_vars PROVE IInv'
  OBVIOUS
<1>1. TypeOK /\ TypeOK'
  BY TypedStep DEF IInv
<1>2. /\ \A p \in Remotes, f \in Features : Ordered(p, f)
      /\ \A p \in Remotes : Unasked(p)
  BY DEF IInv
<1> DEFINE Kept == /\ \A p \in Remotes, f \in Features : Ordered(p, f)'
                   /\ \A p \in Remotes : Unasked(p)'
<1>3. ASSUME RunTask PROVE Kept
  <2>1. UNCHANGED <<up, crashed, phase>>
    BY <1>3 DEF RunTask, daemonVars, loadVars
  <2> QED
    BY <1>1, <1>2, <1>3, <2>1, LineMoves DEF Unasked
<1>4. ASSUME NEW q \in Remotes, Load(q) PROVE Kept
  <2>1. UNCHANGED <<counter, tasks, call, crashed, remoteCounter, hardware, up>>
    BY <1>4 DEF Load, CheckOwner, Watch, Registered, WaitTimesOut, Ping,
                LoadUnchanged, stubVars, daemonVars, remoteVars
  <2>2. \A p \in Remotes : phase'[p] = "ready" => phase[p] = "ready" \/ p \in up
    BY <1>1, <1>4 DEF Load, CheckOwner, Watch, Registered, WaitTimesOut, Ping,
                      GoTo, TypeOK
  <2>3. \A p \in Remotes, f \in Features :
          Ordered(p, f)' /\ Settled(p, f)' = Settled(p, f)
    BY <1>2, <2>1, NothingIsCalled
  <2> QED
    BY <1>2, <2>1, <2>2, <2>3 DEF Unasked
<1>5. ASSUME NEW q \in Remotes, NEW g \in Features,
             StartUpdates(q, g) \/ StopUpdates(q, g)
      PROVE  Kept
  <2>1. UNCHANGED <<up, crashed, phase>> /\ phase[q] = "ready"
    BY <1>5 DEF StartUpdates, StopUpdates, daemonVars, loadVars
  <2>2. \A p \in Remotes, f \in Features :
          Ordered(p, f)' /\ (p # q => Settled(p, f)' = Settled(p, f))
    BY <1>1, <1>2, <1>5, StartIsPosted, StopIsPosted
  <2>3. q \in up \union crashed
    BY <1>2, <2>1 DEF Unasked
  <2> QED
    BY <1>2, <2>1, <2>2, <2>3 DEF Unasked
<1>6. ASSUME call' = <<>>, tasks' = tasks, UNCHANGED <<up, crashed, phase>>
      PROVE  \A p \in Remotes : Unasked(p)'
  BY <1>1, <1>2, <1>6, LineShortens DEF Unasked
<1>7. ASSUME NEW q \in Remotes, NEW g \in Features, HandleStart(q, g) PROVE Kept
  BY <1>1, <1>2, <1>6, <1>7, StartIsHandled DEF HandleStart, daemonVars, loadVars
<1>8. ASSUME NEW q \in Remotes, NEW g \in Features, HandleStop(q, g) PROVE Kept
  BY <1>1, <1>2, <1>6, <1>8, StopIsHandled DEF HandleStop, daemonVars, loadVars
<1>9. ASSUME NEW q \in Remotes, CallFails(q) PROVE Kept
  BY <1>1, <1>2, <1>6, <1>9, CallIsMissed DEF CallFails, daemonVars, loadVars
<1>10. ASSUME NEW q \in Remotes, ComesUp(q) PROVE Kept
  <2>1. /\ UNCHANGED <<counter, tasks, call, crashed, remoteCounter, hardware, phase>>
        /\ up \subseteq up'
    BY <1>10 DEF ComesUp, stubVars, remoteVars
  <2>2. \A p \in Remotes, f \in Features :
          Ordered(p, f)' /\ Settled(p, f)' = Settled(p, f)
    BY <1>2, <2>1, NothingIsCalled
  <2> QED
    BY <1>2, <2>1, <2>2 DEF Unasked
<1>11. ASSUME NEW q \in Remotes, Crash(q) PROVE Kept
  <2>1. up' = up \ {q} /\ crashed' = crashed \union {q} /\ phase' = phase
    BY <1>11 DEF Crash, loadVars
  <2>2. \A p \in Remotes, f \in Features :
          Ordered(p, f)' /\ (Settled(p, f) => Settled(p, f)')
    BY <1>1, <1>2, <1>11, DaemonCrashes
  <2> QED
    BY <1>2, <2>1, <2>2 DEF Unasked
<1>12. ASSUME UNCHANGED vars PROVE Kept
  <2>1. UNCHANGED <<counter, tasks, call, crashed, remoteCounter, hardware, up, phase>>
    BY <1>12 DEF vars, stubVars, daemonVars, remoteVars, loadVars
  <2>2. \A p \in Remotes, f \in Features :
          Ordered(p, f)' /\ Settled(p, f)' = Settled(p, f)
    BY <1>2, <2>1, NothingIsCalled
  <2> QED
    BY <1>2, <2>1, <2>2 DEF Unasked
<1>13. Kept
  BY <1>3, <1>4, <1>5, <1>7, <1>8, <1>9, <1>10, <1>11, <1>12 DEF Next, Handle
<1> QED
  BY <1>1, <1>13 DEF IInv

LEMMA InvHolds == Spec => []IInv
BY InvInit, InvStep, PTL DEF Spec

LEMMA PendingIsUnsettled ==
  ASSUME TypeOK, NEW p \in Remotes, NEW f \in Features
  PROVE  Pending(p, f) <=> ~Settled(p, f)
<1>1. ASSUME NEW op \in Ops
      PROVE  Places(op, p, f) # {} <=>
               \/ Called(op, p, f)
               \/ \E i \in 1 .. Len(tasks) : tasks[i] = [op |-> op, p |-> p, f |-> f]
  <2> DEFINE t == [op |-> op, p |-> p, f |-> f]
  <2>1. Len(tasks) \in Nat
    BY DEF TypeOK
  <2>2. \A i : i \in Places(op, p, f) <=>
                 i \in 0 .. Len(tasks) /\ IF i = 0 THEN Called(op, p, f) ELSE tasks[i] = t
    BY DEF Places, At
  <2> HIDE DEF t
  <2>3. Places(op, p, f) # {} <=>
          Called(op, p, f) \/ \E i \in 1 .. Len(tasks) : tasks[i] = t
    BY <2>1, <2>2
  <2> QED
    BY <2>3 DEF t
<1> QED
  BY <1>1 DEF Pending, Settled, Starts, Stops, Ops

-----------------------------------------------------------------------------
(***************************************************************************)
(* Loading, calls, crashes and new lives keep the state well typed, for    *)
(* any number of remote providers and features (providers/remote/          *)
(* provider.cpp 160-521).                                                  *)
(***************************************************************************)
THEOREM RemotesAreTyped == Spec => []TypeOK
<1>1. IInv => TypeOK
  BY DEF IInv
<1> QED
  BY <1>1, InvHolds, PTL

(***************************************************************************)
(* A source in a daemon that has not crashed runs, once the posted calls   *)
(* are made, exactly if the Stub's controller counts it: however many      *)
(* Stubs share the task thread and whichever of their calls fail.          *)
(***************************************************************************)
THEOREM StubAndSourceInStep == Spec => []InStep
<1>1. IInv => InStep
  <2> SUFFICES ASSUME IInv, NEW p \in Remotes \ crashed, NEW f \in Features,
                      ~Pending(p, f)
               PROVE  hardware[p][f] <=> counter[p][f] > 0
    BY DEF InStep
  <2>1. Settled(p, f) /\ Ordered(p, f)
    BY PendingIsUnsettled DEF IInv
  <2> QED
    BY <2>1 DEF Ordered, InTurn, Source, RunningStops, IdleStarts
<1> QED
  BY <1>1, InvHolds, PTL

(***************************************************************************)
(* Whatever crashes and comes up again, no source is left running that the *)
(* Stub does not count and that no posted call is about.                   *)
(***************************************************************************)
THEOREM UnwantedSourcesAreOff == Spec => []UnwantedIsOff
<1>1. IInv => UnwantedIsOff
  <2> SUFFICES ASSUME IInv, NEW p \in Remotes, NEW f \in Features,
                      ~Pending(p, f), counter[p][f] = 0
               PROVE  ~hardware[p][f]
    BY DEF UnwantedIsOff
  <2>1. Settled(p, f) /\ Ordered(p, f)
    BY PendingIsUnsettled DEF IInv
  <2> QED
    BY <2>1 DEF Ordered, Source, RunningStops
<1> QED
  BY <1>1, InvHolds, PTL
=============================================================================
