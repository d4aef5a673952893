----------------------------- MODULE JsonObjects ----------------------------
(***************************************************************************)
(* The wrapper of json-c that reports are built with (ichnaea_reporter.h   *)
(* 38-116, ichnaea_reporter.cpp 33-203): an Object of C++ is a handle of   *)
(* an object of json-c, which counts its references and is freed, with one *)
(* reference to each of its members, by the last json_object_put.  A call  *)
(* of the wrapper may put several objects; these steps are counted in      *)
(* `putting' and made one after the other before the next call.            *)
(***************************************************************************)
EXTENDS Integers, FiniteSets

CONSTANTS
  Handles,    \* Objects of C++
  Heap,       \* objects of json-c, numbered
  MaxSteps    \* bound: calls

Kind == {"object", "array"}
Slots == {1, 2}     \* names of an object, indices of an array
NoObject == 0

\* Null is no object, and memory is finite.
ObjectsAssumption ==
  /\ IsFiniteSet(Handles) /\ IsFiniteSet(Heap)
  /\ NoObject \notin Heap
  /\ MaxSteps \in Nat

VARIABLES
  points,     \* [Handles -> Heap or NoObject]
  kind,       \* [Heap -> Kind]
  count,      \* [Heap -> Nat]: references, 0 if it is free
  members,    \* [Heap -> [Slots -> Heap or NoObject]]
  putting,    \* [Heap -> Nat]: puts that the running call has still to make
  getting,    \* what it gets a reference of when they are made, or NoObject
  borrowed,   \* has a handle been made of a reference that another one owns?
  steps

heapVars == <<count, members, putting, getting>>
jsonVars == <<points, kind, heapVars, borrowed, steps>>

JsonTypeOK ==
  /\ points \in [Handles -> Heap \union {NoObject}]
  /\ kind \in [Heap -> Kind]
  /\ count \in [Heap -> Nat]
  /\ members \in [Heap -> [Slots -> Heap \union {NoObject}]]
  /\ putting \in [Heap -> Nat]
  /\ getting \in Heap \union {NoObject}
  /\ borrowed \in BOOLEAN
  /\ steps \in 0 .. MaxSteps

Empty == [s \in Slots |-> NoObject]
None == [o \in Heap |-> 0]

JsonInit ==
  /\ points = [h \in Handles |-> NoObject]
  /\ kind = [o \in Heap |-> "object"]
  /\ count = None
  /\ members = [o \in Heap |-> Empty]
  /\ putting = None
  /\ getting = NoObject
  /\ borrowed = FALSE
  /\ steps = 0

-----------------------------------------------------------------------------
(* json-c. *)

\* The slots of o that hold a reference to x.
Holds(o, x) == {s \in Slots : members[o][s] = x}

\* json_object_put: the members of an object that is freed are put as well.
PutReference(o) ==
  /\ putting[o] > 0
  /\ count' = [count EXCEPT ![o] = @ - 1]
  /\ IF count[o] # 1
       THEN putting' = [putting EXCEPT ![o] = @ - 1] /\ UNCHANGED members
       ELSE /\ members' = [members EXCEPT ![o] = Empty]
            /\ putting' = [x \in Heap |-> putting[x] - (IF x = o THEN 1 ELSE 0)
                                            + Cardinality(Holds(o, x))]
  /\ UNCHANGED <<points, kind, getting, borrowed, steps>>

\* json_object_get
GetReference ==
  /\ putting = None /\ getting # NoObject
  /\ count' = [count EXCEPT ![getting] = @ + 1]
  /\ getting' = NoObject
  /\ UNCHANGED <<points, kind, members, putting, borrowed, steps>>

\* The put of o, or of nothing.
Once(o) == [x \in Heap |-> IF x = o THEN 1 ELSE 0]

\* NoObject that x holds on to, itself included, is o.
Apart(x, o) ==
  \E S \in SUBSET Heap :
    /\ x \in S /\ o \notin S
    /\ \A y \in S, s \in Slots : members[y][s] \in S \union {NoObject}

-----------------------------------------------------------------------------
Idle == putting = None /\ getting = NoObject
Step == Idle /\ steps < MaxSteps /\ steps' = steps + 1

\* create_array, create_object, parse_from_string: the handle owns the first
\* reference.
Create(h, o, k) ==
  /\ Step
  /\ points[h] = NoObject /\ count[o] = 0
  /\ points' = [points EXCEPT ![h] = o]
  /\ kind' = [kind EXCEPT ![o] = k]
  /\ count' = [count EXCEPT ![o] = 1]
  /\ UNCHANGED <<members, putting, getting, borrowed>>

\* Object(const Object&)
Copy(h, from) ==
  /\ Step
  /\ points[h] = NoObject /\ points[from] # NoObject
  /\ points' = [points EXCEPT ![h] = points[from]]
  /\ count' = [count EXCEPT ![points[from]] = @ + 1]
  /\ UNCHANGED <<kind, members, putting, getting, borrowed>>

\* ~Object
Destroy(h) ==
  /\ Step
  /\ points[h] # NoObject
  /\ points' = [points EXCEPT ![h] = NoObject]
  /\ putting' = Once(points[h])
  /\ UNCHANGED <<kind, count, members, getting, borrowed>>

\* Mutant: the reference that is given up is not put.
Assign_Leaking(h, from) ==
  /\ Step
  /\ points[h] # NoObject /\ points[from] # NoObject /\ h # from
  /\ points' = [points EXCEPT ![h] = points[from]]
  /\ getting' = points[from]
  /\ UNCHANGED <<kind, count, members, putting, borrowed>>

\* operator=: put before get.  Nobody assigns a handle to itself, which would
\* free its object.
Assign(h, from) ==
  /\ Step
  /\ points[h] # NoObject /\ points[from] # NoObject /\ h # from
  /\ points' = [points EXCEPT ![h] = points[from]]
  /\ putting' = Once(points[h])
  /\ getting' = points[from]
  /\ UNCHANGED <<kind, count, members, borrowed>>

\* The container h gets a reference of its own to what from points at, in
\* place of what was there.  No container is put into itself.
Holding(h, s, from) ==
  /\ points[from] # NoObject /\ Apart(points[from], points[h])
  /\ count' = [count EXCEPT ![points[from]] = @ + 1]
  /\ members' = [members EXCEPT ![points[h]][s] = points[from]]
  /\ putting' = Once(members[points[h]][s])
  /\ UNCHANGED <<points, kind, getting, borrowed>>

\* Mutant: the container takes the reference of the handle.
Put_Stealing(h, s, from) ==
  /\ Step
  /\ points[h] # NoObject /\ kind[points[h]] = "object"
  /\ points[from] # NoObject /\ Apart(points[from], points[h])
  /\ members' = [members EXCEPT ![points[h]][s] = points[from]]
  /\ putting' = Once(members[points[h]][s])
  /\ UNCHANGED <<points, kind, count, getting, borrowed>>

\* put_array, put_object: of the parameter, a copy that is destroyed on
\* return, nothing remains.
Put(h, s, from) ==
  /\ Step
  /\ points[h] # NoObject /\ kind[points[h]] = "object"
  /\ Holding(h, s, from)

\* append, behind the last index that is taken
Append(h, from) ==
  /\ Step
  /\ points[h] # NoObject /\ kind[points[h]] = "array"
  /\ \E s \in Slots :
       /\ \A t \in Slots : t >= s => members[points[h]][t] = NoObject
       /\ s - 1 \in Slots => members[points[h]][s - 1] # NoObject
       /\ Holding(h, s, from)

\* put_object_for_index
PutForIndex(h, s, from) ==
  /\ Step
  /\ points[h] # NoObject /\ kind[points[h]] = "array"
  /\ Holding(h, s, from)

\* Something is asked of an object that is none of its kind: append,
\* put_object_for_index, array_size and get_object_for_index of what is no
\* array, and scalars of what is no scalar, throw, and the parameter is
\* destroyed.
Mismatch(h) ==
  /\ Step
  /\ points[h] # NoObject
  /\ UNCHANGED <<points, kind, heapVars, borrowed>>

\* get_object_for_index: the new handle has a reference of its own.
GetForIndex(h, s, from) ==
  /\ Step
  /\ points[h] = NoObject
  /\ points[from] # NoObject /\ kind[points[from]] = "array"
  /\ members[points[from]][s] # NoObject
  /\ points' = [points EXCEPT ![h] = members[points[from]][s]]
  /\ count' = [count EXCEPT ![members[points[from]][s]] = @ + 1]
  /\ UNCHANGED <<kind, members, putting, getting, borrowed>>

\* get: json_object_object_get_ex gives a reference that the container
\* keeps, and the new handle will put it too.  Only tests call it.
Get(h, s, from) ==
  /\ Step
  /\ points[h] = NoObject
  /\ points[from] # NoObject /\ kind[points[from]] = "object"
  /\ members[points[from]][s] # NoObject
  /\ points' = [points EXCEPT ![h] = members[points[from]][s]]
  /\ borrowed' = TRUE
  /\ UNCHANGED <<kind, heapVars>>

-----------------------------------------------------------------------------
\* What happens after a reference was borrowed is not followed.
JsonNext ==
  /\ ~borrowed
  /\ \/ GetReference
     \/ \E o \in Heap : PutReference(o)
     \/ \E h \in Handles :
          \/ \E o \in Heap, k \in Kind : Create(h, o, k)
          \/ Destroy(h)
          \/ Mismatch(h)
          \/ \E from \in Handles :
               \/ Copy(h, from) \/ Assign(h, from) \/ Append(h, from)
               \/ \E s \in Slots :
                    \/ Put(h, s, from) \/ PutForIndex(h, s, from)
                    \/ GetForIndex(h, s, from) \/ Get(h, s, from)

JsonSpec == JsonInit /\ [][JsonNext]_jsonVars

-----------------------------------------------------------------------------
HandlesOf(o) == {h \in Handles : points[h] = o}
SlotsOf(o) == {m \in Heap \X Slots : members[m[1]][m[2]] = o}

(***************************************************************************)
(* An object has as many references as there are handles and containers    *)
(* that refer to it and puts of it still to be made - as long as get() was *)
(* not used (ichnaea_reporter.cpp 48-68, 90, 138-146, 180-202).            *)
(***************************************************************************)
ReferencesAreCounted ==
  ~borrowed =>
    \A o \in Heap :
      count[o] + (IF getting = o THEN 1 ELSE 0)
        = Cardinality(HandlesOf(o)) + Cardinality(SlotsOf(o)) + putting[o]

(***************************************************************************)
(* NoObject that has been freed is put, got or pointed at: an assignment    *)
(* puts the old object before it gets the new one (ichnaea_reporter.cpp    *)
(* 61-67), which a member of the old one survives.                         *)
(***************************************************************************)
NoneIsUsedFreed ==
  ~borrowed =>
    /\ \A o \in Heap : putting[o] > 0 \/ getting = o \/ HandlesOf(o) # {} => count[o] > 0
    /\ \A m \in Heap \X Slots :
         LET o == members[m[1]][m[2]] IN o # NoObject => count[m[1]] > 0 /\ count[o] > 0

(***************************************************************************)
(* When the last handle is gone, nothing is left behind: every container   *)
(* gave back what it held (ichnaea_reporter.cpp 56-59).                    *)
(***************************************************************************)
NoneIsLeftBehind ==
  ~borrowed /\ Idle /\ (\A h \in Handles : points[h] = NoObject) =>
    \A o \in Heap : count[o] = 0

ObjectsAreFreedOnce == ReferencesAreCounted /\ NoneIsUsedFreed /\ NoneIsLeftBehind

-----------------------------------------------------------------------------
(* Why. *)

\* What is freed holds nothing.
FreeIsEmpty == \A o \in Heap : count[o] = 0 => members[o] = Empty

\* An object that is about to be got is pointed at by both handles of the
\* assignment.
GetterHolds ==
  getting # NoObject => \E h, g \in Handles : h # g /\ points[h] = getting /\ points[g] = getting

\* Among any objects there is one that none of them holds.
NoCycles ==
  \A S \in SUBSET Heap : S # {} =>
    \E x \in S : \A y \in S, s \in Slots : members[y][s] # x

JsonInv ==
  /\ JsonTypeOK
  /\ ReferencesAreCounted
  /\ ~borrowed => FreeIsEmpty /\ GetterHolds /\ NoCycles
=============================================================================
