----------------------------- MODULE JsonProofs -----------------------------
(***************************************************************************)
(* The objects of json-c that a report is built of are freed once, when    *)
(* nothing refers to them, for any number of handles and objects.  The     *)
(* references to an object are counted place by place: a call moves one    *)
(* handle or one slot, and what it takes away there it has still to put.   *)
(***************************************************************************)
EXTENDS JsonObjects, FiniteSetTheorems, TLAPS

-----------------------------------------------------------------------------
(* Counting the places where a value occurs. *)

Hit(a, b) == IF a = b THEN 1 ELSE 0
Places(D, f, x) == {e \in D : f[e] = x}
Tally(D, f, x) == Cardinality(Places(D, f, x))

\* f and g differ in d at most.
Differ(D, f, g, d) == \A e \in D \ {d} : g[e] = f[e]

\* x occurs in g as often as in f, but for d.
Moved(D, f, g, d, x) ==
  /\ Tally(D, f, x) \in Nat /\ Tally(D, g, x) \in Nat
  /\ Tally(D, g, x) = Tally(D, f, x) - Hit(f[d], x) + Hit(g[d], x)

\* How often a value occurs, when a function changes in one place.
LEMMA TallyMoves ==
  ASSUME NEW D, IsFiniteSet(D), NEW f, NEW g, NEW d \in D, NEW x,
         Differ(D, f, g, d)
  PROVE  Moved(D, f, g, d, x)
  <1> DEFINE A == Places(D, f, x)
             B == Places(D, g, x)
  <1>1. IsFiniteSet(A) /\ IsFiniteSet(B)
    BY FS_Subset DEF Places
  <1>2. A \ {d} = B \ {d}
    BY DEF Places, Differ
  <1>3. /\ Cardinality(A) \in Nat /\ Cardinality(B) \in Nat
        /\ Cardinality(A \ {d}) \in Nat
    BY <1>1, FS_CardinalityType, FS_RemoveElement
  <1>4. Cardinality(A \ {d}) = IF d \in A THEN Cardinality(A) - 1 ELSE Cardinality(A)
    BY <1>1, FS_RemoveElement
  <1>5. Cardinality(B \ {d}) = IF d \in B THEN Cardinality(B) - 1 ELSE Cardinality(B)
    BY <1>1, FS_RemoveElement
  <1>6. d \in A <=> f[d] = x
    BY DEF Places
  <1>7. d \in B <=> g[d] = x
    BY DEF Places
  <1> HIDE DEF A, B
  <1>8. Cardinality(B) = Cardinality(A) - Hit(f[d], x) + Hit(g[d], x)
    <2>1. Cardinality(A \ {d}) = Cardinality(A) - Hit(f[d], x)
      BY <1>3, <1>4, <1>6 DEF Hit
    <2>2. Cardinality(B \ {d}) = Cardinality(B) - Hit(g[d], x)
      BY <1>3, <1>5, <1>7 DEF Hit
    <2>3. Hit(f[d], x) \in Int /\ Hit(g[d], x) \in Int
      BY DEF Hit
    <2>4. Cardinality(A \ {d}) = Cardinality(B \ {d})
      BY <1>2
    <2> QED
      BY <1>3, <2>1, <2>2, <2>3, <2>4
  <1> QED
    BY <1>3, <1>8 DEF A, B, Tally, Moved

\* A value that occurs is counted, and one that is counted occurs.
LEMMA TallyOfOccurring ==
  ASSUME NEW D, IsFiniteSet(D), NEW f, NEW x
  PROVE  /\ Tally(D, f, x) \in Nat
         /\ \A d \in D : f[d] = x => Tally(D, f, x) >= 1
         /\ \A d, e \in D : d # e /\ f[d] = x /\ f[e] = x => Tally(D, f, x) >= 2
         /\ Tally(D, f, x) > 0 => \E d \in D : f[d] = x
  <1> DEFINE A == Places(D, f, x)
  <1>1. IsFiniteSet(A)
    BY FS_Subset DEF Places
  <1>2. Cardinality(A) \in Nat
    BY <1>1, FS_CardinalityType
  <1>3. ASSUME NEW d \in D, f[d] = x
        PROVE  /\ Cardinality(A \ {d}) = Cardinality(A) - 1
               /\ IsFiniteSet(A \ {d}) /\ Cardinality(A \ {d}) \in Nat
    <2>1. d \in A
      BY <1>3 DEF Places
    <2> QED
      BY <1>1, <2>1, FS_RemoveElement, FS_CardinalityType
  <1>4. ASSUME NEW d \in D, NEW e \in D, d # e, f[d] = x, f[e] = x
        PROVE  Cardinality(A) >= 2
    <2>1. e \in A \ {d}
      BY <1>4 DEF Places
    <2>2. Cardinality(A \ {d}) \in Nat /\ Cardinality((A \ {d}) \ {e}) \in Nat
          /\ Cardinality((A \ {d}) \ {e}) = Cardinality(A \ {d}) - 1
      BY <1>3, <1>4, <2>1, FS_RemoveElement, FS_CardinalityType
    <2>3. Cardinality(A \ {d}) = Cardinality(A) - 1
      BY <1>3, <1>4
    <2> HIDE DEF A
    <2> QED
      BY <1>2, <2>2, <2>3
  <1>5. ASSUME Cardinality(A) > 0
        PROVE  \E d \in D : f[d] = x
    <2>1. A # {}
      BY <1>5, FS_EmptySet
    <2> QED
      BY <2>1 DEF Places
  <1>6. ASSUME NEW d \in D, f[d] = x
        PROVE  Cardinality(A) >= 1
    <2>1. Cardinality(A \ {d}) \in Nat /\ Cardinality(A \ {d}) = Cardinality(A) - 1
      BY <1>3, <1>6
    <2> HIDE DEF A
    <2> QED
      BY <1>2, <2>1
  <1> QED
    BY <1>2, <1>4, <1>5, <1>6 DEF Tally

LEMMA Pairs ==
  ASSUME ObjectsAssumption
  PROVE  IsFiniteSet(Heap \X Slots)
  <1>1. IsFiniteSet(Slots)
    <2>1. Slots = 1 .. 2
      BY DEF Slots
    <2>2. 1 \in Int /\ 2 \in Int
      OBVIOUS
    <2> QED
      BY <2>1, <2>2, FS_Interval
  <1> QED
    BY <1>1, FS_Product DEF ObjectsAssumption

Flat(f) == [m \in Heap \X Slots |-> f[m[1]][m[2]]]

LEMMA Tallies ==
  ASSUME NEW x
  PROVE  /\ Cardinality(HandlesOf(x)) = Tally(Handles, points, x)
         /\ Cardinality(SlotsOf(x)) = Tally(Heap \X Slots, Flat(members), x)
         /\ Cardinality(HandlesOf(x))' = Tally(Handles, points', x)
         /\ Cardinality(SlotsOf(x))' = Tally(Heap \X Slots, Flat(members'), x)
  <1>1. HandlesOf(x) = Places(Handles, points, x)
    BY DEF HandlesOf, Places
  <1>2. HandlesOf(x)' = Places(Handles, points', x)
    BY DEF HandlesOf, Places
  <1>3. SlotsOf(x) = Places(Heap \X Slots, Flat(members), x)
    BY DEF SlotsOf, Places, Flat
  <1>4. SlotsOf(x)' = Places(Heap \X Slots, Flat(members'), x)
    BY DEF SlotsOf, Places, Flat
  <1> QED
    BY <1>1, <1>2, <1>3, <1>4 DEF Tally

\* A handle is made to point elsewhere.
LEMMA HandleMoves ==
  ASSUME ObjectsAssumption, JsonTypeOK, NEW h \in Handles, NEW y \in Heap \union {NoObject},
         points' = [points EXCEPT ![h] = y], NEW x \in Heap
  PROVE  /\ Cardinality(HandlesOf(x)) \in Nat
         /\ Cardinality(HandlesOf(x))' = Cardinality(HandlesOf(x)) - Hit(points[h], x) + Hit(y, x)
  <1>1. Differ(Handles, points, points', h) /\ points'[h] = y
    BY DEF JsonTypeOK, Differ
  <1>2. Moved(Handles, points, points', h, x)
    BY <1>1, TallyMoves DEF ObjectsAssumption
  <1> QED
    BY <1>1, <1>2, Tallies DEF Moved

\* A slot gets another content.
OtherSlots(f, g, o, s) ==
  \A m \in Heap \X Slots : m # <<o, s>> => g[m[1]][m[2]] = f[m[1]][m[2]]

SlotMoved(f, g, o, s, x) ==
  /\ Tally(Heap \X Slots, Flat(f), x) \in Nat /\ Tally(Heap \X Slots, Flat(g), x) \in Nat
  /\ Tally(Heap \X Slots, Flat(g), x)
       = Tally(Heap \X Slots, Flat(f), x) - Hit(f[o][s], x) + Hit(g[o][s], x)

LEMMA SlotMoves ==
  ASSUME ObjectsAssumption, NEW f, NEW g, NEW o \in Heap, NEW s \in Slots, NEW x,
         OtherSlots(f, g, o, s)
  PROVE  SlotMoved(f, g, o, s, x)
  <1> DEFINE D == Heap \X Slots
  <1>1. <<o, s>> \in D /\ Flat(f)[<<o, s>>] = f[o][s] /\ Flat(g)[<<o, s>>] = g[o][s]
    BY DEF Flat
  <1>2. Differ(D, Flat(f), Flat(g), <<o, s>>)
    BY DEF Flat, Differ, OtherSlots
  <1>3. IsFiniteSet(D)
    BY Pairs
  <1> HIDE DEF D
  <1>4. Moved(D, Flat(f), Flat(g), <<o, s>>, x)
    BY <1>1, <1>2, <1>3, TallyMoves
  <1> QED
    BY <1>1, <1>4 DEF D, Moved, SlotMoved

\* A container gets one content.
LEMMA MemberMoves ==
  ASSUME ObjectsAssumption, JsonTypeOK, NEW o \in Heap, NEW s \in Slots,
         NEW y \in Heap \union {NoObject}, members' = [members EXCEPT ![o][s] = y], NEW x \in Heap
  PROVE  /\ Cardinality(SlotsOf(x)) \in Nat
         /\ Cardinality(SlotsOf(x))' = Cardinality(SlotsOf(x)) - Hit(members[o][s], x) + Hit(y, x)
  <1>1. OtherSlots(members, members', o, s)
    <2> USE DEF OtherSlots
    <2> TAKE m \in Heap \X Slots
    <2>1. m[1] \in Heap /\ m[2] \in Slots /\ (m # <<o, s>> => m[1] # o \/ m[2] # s)
      OBVIOUS
    <2> QED
      BY <2>1 DEF JsonTypeOK
  <1>2. members'[o][s] = y
    BY DEF JsonTypeOK
  <1>3. SlotMoved(members, members', o, s, x)
    BY <1>1, SlotMoves
  <1> QED
    BY <1>2, <1>3, Tallies DEF SlotMoved

\* A container that is freed loses both of its contents.
LEMMA ContainerEmptied ==
  ASSUME ObjectsAssumption, JsonTypeOK, NEW o \in Heap, NEW x \in Heap,
         members' = [members EXCEPT ![o] = Empty]
  PROVE  /\ Cardinality(SlotsOf(x)) \in Nat /\ Cardinality(Holds(o, x)) \in Nat
         /\ Cardinality(SlotsOf(x))' = Cardinality(SlotsOf(x)) - Cardinality(Holds(o, x))
  <1> DEFINE half == [members EXCEPT ![o][1] = NoObject]
             Of(k) == Tally(Heap \X Slots, Flat(k), x)
  <1>0. /\ Slots = {1, 2} /\ 1 \in Slots /\ 2 \in Slots
        /\ members \in [Heap -> [Slots -> Heap \union {NoObject}]]
    BY DEF JsonTypeOK, Slots
  <1>1. half[o][1] = NoObject /\ half[o][2] = members[o][2]
    BY <1>0
  <1>2. OtherSlots(members, half, o, 1)
    <2> USE DEF OtherSlots
    <2> TAKE m \in Heap \X Slots
    <2>1. m[1] \in Heap /\ m[2] \in Slots /\ (m # <<o, 1>> => m[1] # o \/ m[2] # 1)
      OBVIOUS
    <2> QED
      BY <1>0, <2>1
  <1>3. OtherSlots(half, members', o, 2)
    <2> USE DEF OtherSlots
    <2> TAKE m \in Heap \X Slots
    <2>1. m[1] \in Heap /\ m[2] \in Slots /\ (m # <<o, 2>> => m[1] # o \/ m[2] # 2)
      OBVIOUS
    <2>2. m[2] = 1 \/ m[2] = 2
      BY <1>0, <2>1
    <2> QED
      BY <1>0, <2>1, <2>2 DEF Empty
  <1>4. members'[o][2] = NoObject
    BY <1>0 DEF Empty
  <1> HIDE DEF half
  <1>5. /\ Of(members) \in Nat /\ Of(half) \in Nat
        /\ Of(half) = Of(members) - Hit(members[o][1], x) + Hit(NoObject, x)
    <2>1. SlotMoved(members, half, o, 1, x)
      BY <1>0, <1>2, SlotMoves
    <2> QED
      BY <1>1, <2>1 DEF SlotMoved
  <1>6. Of(members') \in Nat /\ Of(members') = Of(half) - Hit(half[o][2], x) + Hit(NoObject, x)
    <2>1. SlotMoved(half, members', o, 2, x)
      BY <1>0, <1>3, SlotMoves
    <2> QED
      BY <1>4, <2>1 DEF SlotMoved
  <1>7. Cardinality(Holds(o, x)) = Hit(members[o][1], x) + Hit(members[o][2], x)
    <2>1. Cardinality({}) = 0 /\ Cardinality({1}) = 1 /\ Cardinality({2}) = 1 /\ Cardinality({1, 2}) = 2
      <3>1. {1, 2} = 1 .. 2 /\ 1 \in Int /\ 2 \in Int
        OBVIOUS
      <3>2. Cardinality(1 .. 2) = IF 1 > 2 THEN 0 ELSE 2 - 1 + 1
        BY <3>1, FS_Interval
      <3>3. Cardinality({}) = 0 /\ Cardinality({1}) = 1 /\ Cardinality({2}) = 1
        BY FS_EmptySet, FS_Singleton
      <3> QED
        BY <3>1, <3>2, <3>3
    <2>2. Holds(o, x) = (IF members[o][1] = x THEN {1} ELSE {})
                          \union (IF members[o][2] = x THEN {2} ELSE {})
      BY <1>0 DEF Holds
    <2>3. CASE members[o][1] = x /\ members[o][2] = x
      <3>1. Holds(o, x) = {1, 2}
        BY <2>2, <2>3
      <3> QED
        BY <2>1, <2>3, <3>1 DEF Hit
    <2>4. CASE members[o][1] = x /\ members[o][2] # x
      <3>1. Holds(o, x) = {1}
        BY <2>2, <2>4
      <3> QED
        BY <2>1, <2>4, <3>1 DEF Hit
    <2>5. CASE members[o][1] # x /\ members[o][2] = x
      <3>1. Holds(o, x) = {2}
        BY <2>2, <2>5
      <3> QED
        BY <2>1, <2>5, <3>1 DEF Hit
    <2>6. CASE members[o][1] # x /\ members[o][2] # x
      <3>1. Holds(o, x) = {}
        BY <2>2, <2>6
      <3> QED
        BY <2>1, <2>6, <3>1 DEF Hit
    <2> QED
      BY <2>3, <2>4, <2>5, <2>6
  <1>8. x # NoObject
    BY DEF ObjectsAssumption
  <1>9. /\ Of(members) \in Nat /\ Cardinality(Holds(o, x)) \in Nat
        /\ Of(members') = Of(members) - Cardinality(Holds(o, x))
    <2> HIDE DEF Of
    <2> QED
      BY <1>1, <1>5, <1>6, <1>7, <1>8 DEF Hit
  <1> QED
    BY <1>9, Tallies

-----------------------------------------------------------------------------
\* What is referred to has not been freed.
LEMMA ReferencesAreLive ==
  ASSUME ObjectsAssumption, JsonInv, ~borrowed
  PROVE  /\ \A h \in Handles : points[h] # NoObject => count[points[h]] > 0
         /\ \A o \in Heap : putting[o] > 0 => count[o] > 0
         /\ getting # NoObject => count[getting] > 0
         /\ \A o \in Heap, s \in Slots :
              members[o][s] # NoObject => count[members[o][s]] > 0 /\ count[o] > 0
  <1> USE DEF JsonInv
  <1>1. ASSUME NEW o \in Heap
        PROVE  /\ Cardinality(HandlesOf(o)) \in Nat /\ Cardinality(SlotsOf(o)) \in Nat
               /\ \A h \in Handles : points[h] = o => Cardinality(HandlesOf(o)) >= 1
               /\ getting = o => Cardinality(HandlesOf(o)) >= 2
               /\ \A x \in Heap, s \in Slots : members[x][s] = o => Cardinality(SlotsOf(o)) >= 1
               /\ o # NoObject
    <2>1. /\ Cardinality(HandlesOf(o)) = Tally(Handles, points, o)
          /\ Cardinality(SlotsOf(o)) = Tally(Heap \X Slots, Flat(members), o)
      BY Tallies
    <2>2. /\ Tally(Handles, points, o) \in Nat
          /\ \A h \in Handles : points[h] = o => Tally(Handles, points, o) >= 1
          /\ \A h, g \in Handles : h # g /\ points[h] = o /\ points[g] = o => Tally(Handles, points, o) >= 2
      BY TallyOfOccurring DEF ObjectsAssumption
    <2>3. /\ Tally(Heap \X Slots, Flat(members), o) \in Nat
          /\ \A m \in Heap \X Slots : Flat(members)[m] = o => Tally(Heap \X Slots, Flat(members), o) >= 1
      BY Pairs, TallyOfOccurring
    <2>4. ASSUME NEW x \in Heap, NEW s \in Slots, members[x][s] = o
          PROVE  Tally(Heap \X Slots, Flat(members), o) >= 1
      <3>1. <<x, s>> \in Heap \X Slots /\ Flat(members)[<<x, s>>] = o
        BY <2>4 DEF Flat
      <3> QED
        BY <2>3, <3>1
    <2>5. o # NoObject
      BY DEF ObjectsAssumption
    <2>6. ASSUME getting = o
          PROVE  Tally(Handles, points, o) >= 2
      BY <2>2, <2>5, <2>6 DEF GetterHolds
    <2> QED
      BY <2>1, <2>2, <2>3, <2>4, <2>5, <2>6
  <1>2. ASSUME NEW o \in Heap
        PROVE  /\ count[o] \in Nat /\ putting[o] \in Nat
               /\ count[o] + Hit(getting, o)
                    = Cardinality(HandlesOf(o)) + Cardinality(SlotsOf(o)) + putting[o]
    BY DEF JsonTypeOK, ReferencesAreCounted, Hit
  <1>3. ASSUME NEW o \in Heap
        PROVE  /\ \A h \in Handles : points[h] = o => count[o] > 0
               /\ putting[o] > 0 => count[o] > 0
               /\ getting = o => count[o] > 0
               /\ \A x \in Heap, s \in Slots : members[x][s] = o => count[o] > 0
    <2> DEFINE H == Cardinality(HandlesOf(o))
               M == Cardinality(SlotsOf(o))
    <2>1. /\ H \in Nat /\ M \in Nat
          /\ \A h \in Handles : points[h] = o => H >= 1
          /\ getting = o => H >= 2
          /\ \A x \in Heap, s \in Slots : members[x][s] = o => M >= 1
      BY <1>1
    <2>2. count[o] \in Nat /\ putting[o] \in Nat /\ count[o] + Hit(getting, o) = H + M + putting[o]
      BY <1>2
    <2> HIDE DEF H, M
    <2>3. H + M + putting[o] > 0 => count[o] > 0
      <3>1. CASE getting = o
        BY <2>1, <2>2, <3>1 DEF Hit
      <3>2. CASE getting # o
        BY <2>1, <2>2, <3>2 DEF Hit
      <3> QED
        BY <3>1, <3>2
    <2>4. H >= 1 \/ M >= 1 \/ putting[o] > 0 => H + M + putting[o] > 0
      BY <2>1, <2>2
    <2>5. H >= 2 => H >= 1
      BY <2>1
    <2> QED
      BY <2>1, <2>3, <2>4, <2>5
  <1>4. \A h \in Handles : points[h] # NoObject => count[points[h]] > 0
    <2> SUFFICES ASSUME NEW h \in Handles, points[h] # NoObject
                 PROVE  count[points[h]] > 0
      OBVIOUS
    <2>1. points[h] \in Heap
      BY DEF JsonTypeOK
    <2> QED
      BY <1>3, <2>1
  <1>5. getting # NoObject => count[getting] > 0
    <2>1. getting # NoObject => getting \in Heap
      BY DEF JsonTypeOK
    <2> QED
      BY <1>3, <2>1
  <1>6. ASSUME NEW o \in Heap, NEW s \in Slots, members[o][s] # NoObject
        PROVE  count[members[o][s]] > 0 /\ count[o] > 0
    <2>1. members[o][s] \in Heap
      BY <1>6 DEF JsonTypeOK
    <2>2. count[members[o][s]] > 0
      BY <1>3, <2>1
    <2>3. count[o] # 0
      BY <1>6 DEF FreeIsEmpty, Empty
    <2>4. count[o] \in Nat
      BY DEF JsonTypeOK
    <2> QED
      BY <2>2, <2>3, <2>4
  <1> QED
    BY <1>3, <1>4, <1>5, <1>6

(***************************************************************************)
(* The invariant is enough: what has been freed is not used, and when no   *)
(* handle is left, an object that none of the others holds would have a    *)
(* reference that nobody owns.                                             *)
(***************************************************************************)
LEMMA CountedAreFreedOnce ==
  ASSUME ObjectsAssumption
  PROVE  JsonInv => ObjectsAreFreedOnce
  <1> SUFFICES ASSUME JsonInv
               PROVE  ObjectsAreFreedOnce
    OBVIOUS
  <1>1. ReferencesAreCounted
    BY DEF JsonInv
  <1>2. NoneIsUsedFreed
    <2> SUFFICES ASSUME ~borrowed
                 PROVE  /\ \A o \in Heap : putting[o] > 0 \/ getting = o \/ HandlesOf(o) # {} => count[o] > 0
                        /\ \A m \in Heap \X Slots :
                             members[m[1]][m[2]] # NoObject
                               => count[m[1]] > 0 /\ count[members[m[1]][m[2]]] > 0
      BY DEF NoneIsUsedFreed
    <2>1. \A o \in Heap : o # NoObject
      BY DEF ObjectsAssumption
    <2>2. \A m \in Heap \X Slots : m[1] \in Heap /\ m[2] \in Slots
      OBVIOUS
    <2>3. /\ \A h \in Handles : points[h] # NoObject => count[points[h]] > 0
          /\ \A o \in Heap : putting[o] > 0 => count[o] > 0
          /\ getting # NoObject => count[getting] > 0
          /\ \A o \in Heap, s \in Slots :
               members[o][s] # NoObject => count[members[o][s]] > 0 /\ count[o] > 0
      BY ReferencesAreLive
    <2>4. ASSUME NEW o \in Heap, putting[o] > 0 \/ getting = o \/ HandlesOf(o) # {}
          PROVE  count[o] > 0
      BY <2>1, <2>3, <2>4 DEF HandlesOf
    <2>5. ASSUME NEW m \in Heap \X Slots, members[m[1]][m[2]] # NoObject
          PROVE  count[m[1]] > 0 /\ count[members[m[1]][m[2]]] > 0
      BY <2>2, <2>3, <2>5
    <2> QED
      BY <2>4, <2>5
  <1>3. NoneIsLeftBehind
    <2> SUFFICES ASSUME ~borrowed, Idle, \A h \in Handles : points[h] = NoObject,
                        NEW o \in Heap, count[o] # 0
                 PROVE  FALSE
      BY DEF NoneIsLeftBehind
    <2> DEFINE Left == {x \in Heap : count[x] # 0}
    <2>1. PICK x \in Left : \A y \in Left, s \in Slots : members[y][s] # x
      <3>1. Left \in SUBSET Heap /\ Left # {}
        OBVIOUS
      <3>2. NoCycles
        BY DEF JsonInv
      <3> QED
        BY <3>1, <3>2, Zenon DEF NoCycles
    <2>2. x \in Heap /\ count[x] \in Nat /\ count[x] # 0 /\ x # NoObject
      BY DEF JsonInv, JsonTypeOK, ObjectsAssumption
    <2>3. Cardinality(HandlesOf(x)) = 0
      <3>1. HandlesOf(x) = {}
        BY <2>2 DEF HandlesOf
      <3> QED
        BY <3>1, FS_EmptySet
    <2>4. count[x] = Cardinality(SlotsOf(x))
      <3>1. getting = NoObject /\ putting[x] = 0
        BY <2>2 DEF Idle, None
      <3>2. count[x] + (IF getting = x THEN 1 ELSE 0)
              = Cardinality(HandlesOf(x)) + Cardinality(SlotsOf(x)) + putting[x]
        BY <2>2 DEF JsonInv, ReferencesAreCounted
      <3>3. Cardinality(SlotsOf(x)) \in Nat
        BY Tallies, TallyOfOccurring, Pairs
      <3> QED
        BY <2>2, <2>3, <3>1, <3>2, <3>3
    <2>5. PICK m \in Heap \X Slots : members[m[1]][m[2]] = x
      <3>1. SlotsOf(x) # {}
        BY <2>2, <2>4, FS_EmptySet
      <3> QED
        BY <3>1 DEF SlotsOf
    <2>6. m[1] \in Heap /\ m[2] \in Slots
      OBVIOUS
    <2>7. count[m[1]] # 0
      <3>1. count[m[1]] = 0 => members[m[1]] = Empty
        BY <2>6 DEF JsonInv, FreeIsEmpty
      <3> QED
        BY <2>2, <2>5, <2>6, <3>1 DEF Empty
    <2>8. m[1] \in Left
      BY <2>6, <2>7
    <2> HIDE DEF Left
    <2> QED
      BY <2>1, <2>5, <2>6, <2>8
  <1> QED
    BY <1>1, <1>2, <1>3 DEF ObjectsAreFreedOnce

-----------------------------------------------------------------------------
LEMMA TypedStep ==
  ASSUME ObjectsAssumption
  PROVE  JsonInv /\ [JsonNext]_jsonVars => JsonTypeOK'
  <1> SUFFICES ASSUME JsonInv, [JsonNext]_jsonVars
               PROVE  JsonTypeOK'
    OBVIOUS
  <1> USE DEF JsonTypeOK
  <1>0. JsonTypeOK
    BY DEF JsonInv
  <1>1. CASE UNCHANGED jsonVars
    BY <1>0, <1>1 DEF jsonVars, heapVars
  <1>2. ASSUME ~borrowed, Step
        PROVE  steps' \in 0 .. MaxSteps
    BY <1>0, <1>2 DEF Step, ObjectsAssumption
  <1>3. ASSUME ~borrowed, GetReference
        PROVE  JsonTypeOK'
    BY <1>0, <1>3 DEF GetReference
  <1>4. ASSUME ~borrowed, NEW o \in Heap, PutReference(o)
        PROVE  JsonTypeOK'
    <2>1. count[o] > 0 /\ putting[o] > 0
      BY <1>4, ReferencesAreLive DEF PutReference
    <2>2. count' \in [Heap -> Nat]
      BY <1>0, <1>4, <2>1 DEF PutReference
    <2>3. CASE count[o] # 1
      BY <1>0, <1>4, <2>1, <2>2, <2>3 DEF PutReference
    <2>4. CASE count[o] = 1
      <3>1. members' = [members EXCEPT ![o] = Empty]
        BY <1>4, <2>4 DEF PutReference
      <3>2. members' \in [Heap -> [Slots -> Heap \union {NoObject}]]
        BY <1>0, <3>1 DEF Empty
      <3>3. \A x \in Heap : Cardinality(Holds(o, x)) \in Nat
        BY <1>0, <3>1, ContainerEmptied
      <3>4. putting' = [x \in Heap |-> putting[x] - (IF x = o THEN 1 ELSE 0) + Cardinality(Holds(o, x))]
        BY <1>4, <2>4 DEF PutReference
      <3>5. putting' \in [Heap -> Nat]
        <4>1. \A x \in Heap : putting[x] - (IF x = o THEN 1 ELSE 0) + Cardinality(Holds(o, x)) \in Nat
          BY <1>0, <2>1, <3>3
        <4> QED
          BY <3>4, <4>1
      <3> QED
        BY <1>0, <1>4, <2>2, <3>2, <3>5 DEF PutReference
    <2> QED
      BY <2>3, <2>4
  <1>5. \A x : Once(x) \in [Heap -> Nat]
    BY DEF Once
  <1>6. ASSUME ~borrowed, NEW h \in Handles, NEW o \in Heap, NEW k \in Kind, Create(h, o, k)
        PROVE  JsonTypeOK'
    BY <1>0, <1>2, <1>6 DEF Create
  <1>7. ASSUME ~borrowed, NEW h \in Handles, Destroy(h)
        PROVE  JsonTypeOK'
    BY <1>0, <1>2, <1>5, <1>7 DEF Destroy
  <1>8. ASSUME ~borrowed, NEW h \in Handles, Mismatch(h)
        PROVE  JsonTypeOK'
    BY <1>0, <1>2, <1>8 DEF Mismatch, heapVars
  <1>9. ASSUME ~borrowed, NEW h \in Handles, NEW from \in Handles, Copy(h, from)
        PROVE  JsonTypeOK'
    BY <1>0, <1>2, <1>9 DEF Copy
  <1>10. ASSUME ~borrowed, NEW h \in Handles, NEW from \in Handles, Assign(h, from)
         PROVE  JsonTypeOK'
    BY <1>0, <1>2, <1>5, <1>10 DEF Assign
  <1>11. ASSUME ~borrowed, NEW h \in Handles, NEW s \in Slots, NEW from \in Handles,
                Step, points[h] # NoObject, Holding(h, s, from)
         PROVE  JsonTypeOK'
    <2>1. points[h] \in Heap /\ points[from] \in Heap
      BY <1>0, <1>11 DEF Holding
    <2>2. members' \in [Heap -> [Slots -> Heap \union {NoObject}]]
      BY <1>0, <1>11, <2>1 DEF Holding
    <2> QED
      BY <1>0, <1>2, <1>5, <1>11, <2>1, <2>2 DEF Holding
  <1>12. ASSUME ~borrowed, NEW h \in Handles, NEW from \in Handles, NEW s \in Slots,
                GetForIndex(h, s, from)
         PROVE  JsonTypeOK'
    <2>1. points[from] \in Heap /\ members[points[from]][s] \in Heap
      BY <1>0, <1>12 DEF GetForIndex
    <2> QED
      BY <1>0, <1>2, <1>12, <2>1 DEF GetForIndex
  <1>13. ASSUME ~borrowed, NEW h \in Handles, NEW from \in Handles, NEW s \in Slots,
                Get(h, s, from)
         PROVE  JsonTypeOK'
    <2>1. points[from] \in Heap /\ members[points[from]][s] \in Heap
      BY <1>0, <1>13 DEF Get
    <2> QED
      BY <1>0, <1>2, <1>13, <2>1 DEF Get, heapVars
  <1> QED
    BY <1>1, <1>3, <1>4, <1>6, <1>7, <1>8, <1>9, <1>10, <1>11, <1>12, <1>13
    DEF JsonNext, Put, Append, PutForIndex

\* What each kind of step does to the references.
LEMMA CountedStep ==
  ASSUME ObjectsAssumption
  PROVE  JsonInv /\ [JsonNext]_jsonVars => ReferencesAreCounted'
  <1> SUFFICES ASSUME JsonInv, [JsonNext]_jsonVars, ~borrowed, ~borrowed', NEW x \in Heap
               PROVE  count'[x] + Hit(getting', x)
                        = Cardinality(HandlesOf(x))' + Cardinality(SlotsOf(x))' + putting'[x]
    <2>1. CASE JsonNext
      <3>1. ~borrowed
        BY <2>1 DEF JsonNext
      <3> QED
        BY <3>1 DEF ReferencesAreCounted, Hit
    <2>2. CASE UNCHANGED jsonVars
      <3>1. borrowed' = borrowed
        BY <2>2 DEF jsonVars
      <3> QED
        BY <3>1 DEF ReferencesAreCounted, Hit
    <2> QED
      BY <2>1, <2>2
  <1> DEFINE H == Cardinality(HandlesOf(x))
             M == Cardinality(SlotsOf(x))
  <1>0. JsonTypeOK
    BY DEF JsonInv
  <1>1. /\ count[x] \in Nat /\ putting[x] \in Nat /\ H \in Nat /\ M \in Nat /\ x # NoObject
        /\ count[x] + Hit(getting, x) = H + M + putting[x]
    <2>1. H \in Nat /\ M \in Nat
      BY Tallies, TallyOfOccurring, Pairs DEF ObjectsAssumption
    <2> QED
      BY <1>0, <2>1 DEF JsonInv, JsonTypeOK, ReferencesAreCounted, Hit, ObjectsAssumption
  <1>2. points' = points => H' = H
    BY DEF HandlesOf
  <1>3. members' = members => M' = M
    BY DEF SlotsOf
  <1>4. ASSUME Idle
        PROVE  putting[x] = 0 /\ getting = NoObject /\ Hit(getting, x) = 0
    BY <1>1, <1>4 DEF Idle, None, Hit
  <1>5. \A y : Once(y)[x] = Hit(y, x)
    BY DEF Once, Hit
  <1>6. \A y : Hit(y, x) \in Nat
    BY DEF Hit
  <1>7. CASE UNCHANGED jsonVars
    BY <1>1, <1>2, <1>3, <1>7 DEF jsonVars, heapVars
  <1>8. ASSUME GetReference
        PROVE  count'[x] + Hit(getting', x) = H' + M' + putting'[x]
    <2>1. count'[x] = count[x] + Hit(getting, x)
      BY <1>0, <1>1, <1>8 DEF GetReference, JsonTypeOK, Hit
    <2>2. Hit(getting', x) = 0
      BY <1>1, <1>8 DEF GetReference, Hit
    <2>3. H' = H /\ M' = M /\ putting'[x] = putting[x]
      BY <1>2, <1>3, <1>8 DEF GetReference
    <2>4. Hit(getting, x) \in Nat
      BY <1>6
    <2> HIDE DEF H, M
    <2> QED
      BY <1>1, <2>1, <2>2, <2>3, <2>4
  <1>9. ASSUME NEW o \in Heap, PutReference(o)
        PROVE  count'[x] + Hit(getting', x) = H' + M' + putting'[x]
    <2>1. count'[x] = count[x] - Hit(o, x) /\ H' = H /\ getting' = getting
      BY <1>0, <1>1, <1>2, <1>9 DEF PutReference, JsonTypeOK, Hit
    <2>2. CASE count[o] # 1
      <3>1. M' = M /\ putting'[x] = putting[x] - Hit(o, x)
        BY <1>0, <1>1, <1>3, <1>9, <2>2 DEF PutReference, JsonTypeOK, Hit
      <3> HIDE DEF H, M
      <3> QED
        BY <1>1, <1>6, <2>1, <3>1
    <2>3. CASE count[o] = 1
      <3>1. members' = [members EXCEPT ![o] = Empty]
        BY <1>9, <2>3 DEF PutReference
      <3>2. Cardinality(Holds(o, x)) \in Nat /\ M' = M - Cardinality(Holds(o, x))
        BY <1>0, <3>1, ContainerEmptied
      <3>3. putting'[x] = putting[x] - Hit(o, x) + Cardinality(Holds(o, x))
        BY <1>1, <1>9, <2>3 DEF PutReference, Hit
      <3> HIDE DEF H, M
      <3> QED
        BY <1>1, <1>6, <2>1, <3>2, <3>3
    <2> QED
      BY <2>2, <2>3
  \* A handle that pointed at nothing gets a reference of its own.
  <1>10. ASSUME NEW h \in Handles, NEW y \in Heap, Idle, points[h] = NoObject,
                points' = [points EXCEPT ![h] = y], count'[x] = count[x] + Hit(y, x),
                UNCHANGED <<members, putting, getting>>
         PROVE  count'[x] + Hit(getting', x) = H' + M' + putting'[x]
    <2>1. H' = H - Hit(points[h], x) + Hit(y, x)
      BY <1>0, <1>10, HandleMoves
    <2>2. Hit(points[h], x) = 0
      BY <1>1, <1>10 DEF Hit
    <2>3. M' = M
      BY <1>3, <1>10
    <2> HIDE DEF H, M
    <2> QED
      BY <1>1, <1>4, <1>6, <1>10, <2>1, <2>2, <2>3
  <1>11. ASSUME NEW h \in Handles, NEW o \in Heap, NEW k \in Kind, Create(h, o, k)
         PROVE  count'[x] + Hit(getting', x) = H' + M' + putting'[x]
    <2>1. count'[x] = count[x] + Hit(o, x)
      BY <1>0, <1>1, <1>11 DEF Create, JsonTypeOK, Hit
    <2> QED
      BY <1>10, <1>11, <2>1 DEF Create, Step
  <1>12. ASSUME NEW h \in Handles, NEW from \in Handles, Copy(h, from)
         PROVE  count'[x] + Hit(getting', x) = H' + M' + putting'[x]
    <2>1. points[from] \in Heap
      BY <1>0, <1>12 DEF Copy, JsonTypeOK
    <2>2. count'[x] = count[x] + Hit(points[from], x)
      BY <1>0, <1>1, <1>12 DEF Copy, JsonTypeOK, Hit
    <2> QED
      BY <1>10, <1>12, <2>1, <2>2 DEF Copy, Step
  <1>13. ASSUME NEW h \in Handles, NEW from \in Handles, NEW s \in Slots, GetForIndex(h, s, from)
         PROVE  count'[x] + Hit(getting', x) = H' + M' + putting'[x]
    <2>1. members[points[from]][s] \in Heap
      BY <1>0, <1>13 DEF GetForIndex, JsonTypeOK
    <2>2. count'[x] = count[x] + Hit(members[points[from]][s], x)
      BY <1>0, <1>1, <1>13 DEF GetForIndex, JsonTypeOK, Hit
    <2> QED
      BY <1>10, <1>13, <2>1, <2>2 DEF GetForIndex, Step
  <1>14. ASSUME NEW h \in Handles, Destroy(h)
         PROVE  count'[x] + Hit(getting', x) = H' + M' + putting'[x]
    <2>1. H' = H - Hit(points[h], x) + Hit(NoObject, x)
      <3>1. points' = [points EXCEPT ![h] = NoObject] /\ NoObject \in Heap \union {NoObject}
        BY <1>14 DEF Destroy
      <3> QED
        BY <1>0, <3>1, HandleMoves
    <2>2. Hit(NoObject, x) = 0
      BY <1>1 DEF Hit
    <2>3. M' = M /\ count' = count /\ getting' = getting /\ putting'[x] = Hit(points[h], x)
      BY <1>3, <1>5, <1>14 DEF Destroy
    <2>4. putting[x] = 0 /\ Hit(getting, x) = 0
      BY <1>4, <1>14 DEF Destroy, Step
    <2> HIDE DEF H, M
    <2> QED
      BY <1>1, <1>6, <2>1, <2>2, <2>3, <2>4
  <1>15. ASSUME NEW h \in Handles, NEW from \in Handles, Assign(h, from)
         PROVE  count'[x] + Hit(getting', x) = H' + M' + putting'[x]
    <2>1. H' = H - Hit(points[h], x) + Hit(points[from], x)
      <3>1. points' = [points EXCEPT ![h] = points[from]] /\ points[from] \in Heap \union {NoObject}
        BY <1>0, <1>15 DEF Assign, JsonTypeOK
      <3> QED
        BY <1>0, <3>1, HandleMoves
    <2>2. /\ M' = M /\ count' = count
          /\ Hit(getting', x) = Hit(points[from], x) /\ putting'[x] = Hit(points[h], x)
      BY <1>3, <1>5, <1>15 DEF Assign
    <2>3. putting[x] = 0 /\ Hit(getting, x) = 0
      BY <1>4, <1>15 DEF Assign, Step
    <2>4. Hit(points[h], x) \in Nat /\ Hit(points[from], x) \in Nat
      BY <1>6
    <2> HIDE DEF H, M
    <2> QED
      BY <1>1, <2>1, <2>2, <2>3, <2>4
  <1>16. ASSUME NEW h \in Handles, NEW s \in Slots, NEW from \in Handles,
                Step, points[h] # NoObject, Holding(h, s, from)
         PROVE  count'[x] + Hit(getting', x) = H' + M' + putting'[x]
    <2> DEFINE old == members[points[h]][s]
               new == points[from]
    <2>1. points[h] \in Heap /\ new \in Heap /\ old \in Heap \union {NoObject}
      BY <1>0, <1>16 DEF Holding, JsonTypeOK
    <2>2. M' = M - Hit(old, x) + Hit(new, x)
      <3>1. members' = [members EXCEPT ![points[h]][s] = new]
        BY <1>16 DEF Holding
      <3>2. new \in Heap \union {NoObject}
        BY <2>1
      <3> HIDE DEF new
      <3> QED
        BY <1>0, <2>1, <3>1, <3>2, MemberMoves
    <2>3. count'[x] = count[x] + Hit(new, x)
      BY <1>0, <1>1, <1>16, <2>1 DEF Holding, JsonTypeOK, Hit
    <2>4. H' = H /\ getting' = getting /\ putting'[x] = Hit(old, x)
      BY <1>2, <1>5, <1>16 DEF Holding
    <2>5. putting[x] = 0 /\ Hit(getting, x) = 0
      BY <1>4, <1>16 DEF Step
    <2>6. Hit(old, x) \in Nat /\ Hit(new, x) \in Nat
      BY <1>6
    <2> HIDE DEF H, M, old, new
    <2> QED
      BY <1>1, <2>2, <2>3, <2>4, <2>5, <2>6
  <1>17. ASSUME NEW h \in Handles, Mismatch(h)
         PROVE  count'[x] + Hit(getting', x) = H' + M' + putting'[x]
    BY <1>1, <1>2, <1>3, <1>17 DEF Mismatch, heapVars
  <1>18. ASSUME NEW h \in Handles, NEW from \in Handles, NEW s \in Slots, Get(h, s, from)
         PROVE  FALSE
    BY <1>18 DEF Get
  <1> QED
    BY <1>7, <1>8, <1>9, <1>11, <1>12, <1>13, <1>14, <1>15, <1>16, <1>17, <1>18
    DEF JsonNext, Put, Append, PutForIndex

-----------------------------------------------------------------------------
(***************************************************************************)
(* A container gets what holds on to nothing that is the container: the    *)
(* members C that it brings are not among those that hold it.              *)
(***************************************************************************)
LEMMA AcyclicWhenHeld ==
  ASSUME ObjectsAssumption, JsonTypeOK, NoCycles, NEW o \in Heap, NEW n \in Heap, NEW s \in Slots,
         Apart(n, o),
         members' = [members EXCEPT ![o][s] = n]
  PROVE  NoCycles'
  <1>1. PICK C \in SUBSET Heap :
          /\ n \in C /\ o \notin C
          /\ \A y \in C, t \in Slots : members[y][t] \in C \union {NoObject}
    BY DEF Apart
  <1> SUFFICES ASSUME NEW S \in SUBSET Heap, S # {}
               PROVE  \E x \in S : \A y \in S, t \in Slots : members'[y][t] # x
    BY DEF NoCycles
  <1>2. \A y \in Heap, t \in Slots : y # o \/ t # s => members'[y][t] = members[y][t]
    BY DEF JsonTypeOK
  <1>3. members'[o][s] = n
    BY DEF JsonTypeOK
  <1>4. CASE S \subseteq C
    <2>1. PICK x \in S : \A y \in S, t \in Slots : members[y][t] # x
      BY DEF NoCycles
    <2> QED
      BY <1>1, <1>2, <1>4, <2>1
  <1>5. CASE ~(S \subseteq C)
    <2>1. S \ C \in SUBSET Heap /\ S \ C # {}
      BY <1>5
    <2>2. PICK x \in S \ C : \A y \in S \ C, t \in Slots : members[y][t] # x
      BY <2>1 DEF NoCycles
    <2>3. x # NoObject
      BY DEF ObjectsAssumption
    <2>4. ASSUME NEW y \in S, NEW t \in Slots
          PROVE  members'[y][t] # x
      <3>1. CASE y \in C
        BY <1>1, <1>2, <2>2, <2>3, <3>1
      <3>2. CASE y \notin C
        BY <1>1, <1>2, <1>3, <2>2, <3>2
      <3> QED
        BY <3>1, <3>2
    <2> QED
      BY <2>4
  <1> QED
    BY <1>4, <1>5

Shape == FreeIsEmpty /\ GetterHolds /\ NoCycles

LEMMA ShapeStep ==
  ASSUME ObjectsAssumption
  PROVE  JsonInv /\ [JsonNext]_jsonVars /\ ~borrowed' => Shape'
  <1> SUFFICES ASSUME JsonInv, [JsonNext]_jsonVars, ~borrowed'
               PROVE  Shape'
    OBVIOUS
  <1>0. JsonTypeOK /\ ~borrowed
    BY DEF JsonInv, JsonNext, jsonVars
  <1>1. FreeIsEmpty /\ GetterHolds /\ NoCycles
    BY <1>0 DEF JsonInv
  <1>2. Step => getting = NoObject /\ putting = None
    BY DEF Step, Idle
  <1>3. members' = members => NoCycles'
    BY <1>1 DEF NoCycles
  <1>4. getting' = NoObject => GetterHolds'
    BY DEF GetterHolds
  <1>5. members' = members /\ (\A o \in Heap : count[o] # 0 => count'[o] # 0) => FreeIsEmpty'
    BY <1>1 DEF FreeIsEmpty, Empty
  \* References that are added free nothing.
  <1>6. ASSUME NEW y, count' = [count EXCEPT ![y] = @ + 1], NEW o \in Heap, count[o] # 0
        PROVE  count'[o] # 0
    BY <1>0, <1>6 DEF JsonTypeOK
  <1>7. CASE UNCHANGED jsonVars
    <2>1. points' = points /\ count' = count /\ members' = members /\ getting' = getting
      BY <1>7 DEF jsonVars, heapVars
    <2>2. FreeIsEmpty'
      BY <1>5, <2>1
    <2>3. GetterHolds'
      BY <1>1, <2>1 DEF GetterHolds
    <2> QED
      BY <1>3, <2>1, <2>2, <2>3 DEF Shape
  <1>8. CASE GetReference
    BY <1>3, <1>4, <1>5, <1>6, <1>8 DEF GetReference, Shape
  <1>9. ASSUME NEW o \in Heap, PutReference(o)
        PROVE  Shape'
    <2>1. GetterHolds'
      BY <1>1, <1>9 DEF PutReference, GetterHolds
    <2>2. \A x \in Heap : count'[x] = IF x = o THEN count[o] - 1 ELSE count[x]
      BY <1>0, <1>9 DEF PutReference, JsonTypeOK
    <2>3. count[o] \in Nat
      BY <1>0 DEF JsonTypeOK
    <2>4. CASE count[o] # 1
      <3>1. members' = members
        BY <1>9, <2>4 DEF PutReference
      <3>2. count[o] - 1 # 0
        BY <2>3, <2>4
      <3>3. \A x \in Heap : count[x] # 0 => count'[x] # 0
        BY <2>2, <3>2
      <3> QED
        BY <1>3, <1>5, <2>1, <3>1, <3>3 DEF Shape
    <2>5. CASE count[o] = 1
      <3>1. members' = [members EXCEPT ![o] = Empty]
        BY <1>9, <2>5 DEF PutReference
      <3>2. \A x \in Heap : members'[x] = IF x = o THEN Empty ELSE members[x]
        BY <1>0, <3>1 DEF JsonTypeOK
      <3>3. FreeIsEmpty'
        BY <1>1, <2>2, <3>2 DEF FreeIsEmpty, Empty
      <3>4. NoCycles'
        <4> SUFFICES ASSUME NEW S \in SUBSET Heap, S # {}
                     PROVE  \E x \in S : \A y \in S, s \in Slots : members'[y][s] # x
          BY DEF NoCycles
        <4>1. PICK x \in S : \A y \in S, s \in Slots : members[y][s] # x
          BY <1>1 DEF NoCycles
        <4>2. x # NoObject
          BY DEF ObjectsAssumption
        <4> QED
          BY <3>2, <4>1, <4>2 DEF Empty
      <3> QED
        BY <2>1, <3>3, <3>4 DEF Shape
    <2> QED
      BY <2>4, <2>5
  <1>10. ASSUME NEW h \in Handles, NEW o \in Heap, NEW k \in Kind, Create(h, o, k)
         PROVE  Shape'
    <2>1. \A x \in Heap : count[x] # 0 => count'[x] # 0
      BY <1>0, <1>10 DEF Create, JsonTypeOK
    <2> QED
      BY <1>2, <1>3, <1>4, <1>5, <1>10, <2>1 DEF Create, Shape
  <1>11. ASSUME NEW h \in Handles, NEW from \in Handles, Copy(h, from)
         PROVE  Shape'
    <2>1. \A x \in Heap : count[x] # 0 => count'[x] # 0
      BY <1>6, <1>11 DEF Copy
    <2> QED
      BY <1>2, <1>3, <1>4, <1>5, <1>11, <2>1 DEF Copy, Shape
  <1>12. ASSUME NEW h \in Handles, NEW from \in Handles, NEW s \in Slots, GetForIndex(h, s, from)
         PROVE  Shape'
    <2>1. \A x \in Heap : count[x] # 0 => count'[x] # 0
      BY <1>6, <1>12 DEF GetForIndex
    <2> QED
      BY <1>2, <1>3, <1>4, <1>5, <1>12, <2>1 DEF GetForIndex, Shape
  <1>13. ASSUME NEW h \in Handles, Destroy(h)
         PROVE  Shape'
    BY <1>2, <1>3, <1>4, <1>5, <1>13 DEF Destroy, Shape
  <1>14. ASSUME NEW h \in Handles, NEW from \in Handles, Assign(h, from)
         PROVE  Shape'
    <2>1. GetterHolds'
      BY <1>0, <1>14 DEF Assign, GetterHolds, JsonTypeOK
    <2> QED
      BY <1>3, <1>5, <1>14, <2>1 DEF Assign, Shape
  <1>15. ASSUME NEW h \in Handles, NEW s \in Slots, NEW from \in Handles,
                Step, points[h] # NoObject, Holding(h, s, from)
         PROVE  Shape'
    <2>1. points[h] \in Heap /\ points[from] \in Heap
      BY <1>0, <1>15 DEF Holding, JsonTypeOK
    <2>2. GetterHolds'
      BY <1>2, <1>4, <1>15 DEF Holding
    <2>3. NoCycles'
      BY <1>0, <1>1, <1>15, <2>1, AcyclicWhenHeld DEF Holding
    <2>4. count[points[h]] # 0
      <3>1. count[points[h]] > 0
        BY <1>0, <1>15, ReferencesAreLive
      <3> QED
        BY <3>1
    <2>5. \A x \in Heap : count[x] # 0 => count'[x] # 0
      BY <1>6, <1>15 DEF Holding
    <2>6. \A x \in Heap : x # points[h] => members'[x] = members[x]
      BY <1>0, <1>15, <2>1 DEF Holding, JsonTypeOK
    <2>7. FreeIsEmpty'
      BY <1>1, <2>4, <2>5, <2>6 DEF FreeIsEmpty, Empty
    <2> QED
      BY <2>2, <2>3, <2>7 DEF Shape
  <1>16. ASSUME NEW h \in Handles, Mismatch(h)
         PROVE  Shape'
    <2>1. points' = points /\ count' = count /\ members' = members /\ getting' = getting
      BY <1>16 DEF Mismatch, heapVars
    <2>2. FreeIsEmpty'
      BY <1>5, <2>1
    <2>3. GetterHolds'
      BY <1>1, <2>1 DEF GetterHolds
    <2> QED
      BY <1>3, <2>1, <2>2, <2>3 DEF Shape
  <1>17. ASSUME NEW h \in Handles, NEW from \in Handles, NEW s \in Slots, Get(h, s, from)
         PROVE  FALSE
    BY <1>17 DEF Get
  <1> QED
    BY <1>7, <1>8, <1>9, <1>10, <1>11, <1>12, <1>13, <1>14, <1>15, <1>16, <1>17
    DEF JsonNext, Put, Append, PutForIndex

-----------------------------------------------------------------------------
LEMMA JsonInitially ==
  ASSUME ObjectsAssumption
  PROVE  JsonInit => JsonInv
  <1> SUFFICES ASSUME JsonInit
               PROVE  JsonInv
    OBVIOUS
  <1> USE DEF JsonInit
  <1>1. JsonTypeOK
    <2>1. count \in [Heap -> Nat] /\ putting \in [Heap -> Nat] /\ kind \in [Heap -> Kind]
      BY DEF None, Kind
    <2>2. members \in [Heap -> [Slots -> Heap \union {NoObject}]]
      BY DEF Empty
    <2>3. steps \in 0 .. MaxSteps
      BY DEF ObjectsAssumption
    <2>4. borrowed \in BOOLEAN /\ getting \in Heap \union {NoObject}
      OBVIOUS
    <2>5. points \in [Handles -> Heap \union {NoObject}]
      OBVIOUS
    <2> QED
      BY <2>1, <2>2, <2>3, <2>4, <2>5 DEF JsonTypeOK
  <1>2. ReferencesAreCounted
    <2> SUFFICES ASSUME NEW x \in Heap
                 PROVE  Cardinality(HandlesOf(x)) = 0 /\ Cardinality(SlotsOf(x)) = 0
      BY DEF ReferencesAreCounted, None, ObjectsAssumption
    <2>1. HandlesOf(x) = {} /\ SlotsOf(x) = {}
      <3>1. x # NoObject
        BY DEF ObjectsAssumption
      <3>2. \A m \in Heap \X Slots : members[m[1]][m[2]] = NoObject
        BY DEF Empty
      <3> QED
        BY <3>1, <3>2 DEF HandlesOf, SlotsOf
    <2> QED
      BY <2>1, FS_EmptySet
  <1>3. FreeIsEmpty /\ GetterHolds
    BY DEF FreeIsEmpty, GetterHolds
  <1>4. NoCycles
    <2> SUFFICES ASSUME NEW S \in SUBSET Heap, NEW x \in S
                 PROVE  \A y \in S, s \in Slots : members[y][s] # x
      BY DEF NoCycles
    <2> QED
      BY DEF Empty, ObjectsAssumption
  <1> QED
    BY <1>1, <1>2, <1>3, <1>4 DEF JsonInv

LEMMA JsonStep ==
  ASSUME ObjectsAssumption
  PROVE  JsonInv /\ [JsonNext]_jsonVars => JsonInv'
  BY TypedStep, CountedStep, ShapeStep DEF JsonInv, Shape

THEOREM JsonInvariant ==
  ASSUME ObjectsAssumption
  PROVE  JsonSpec => []JsonInv
  BY JsonInitially, JsonStep, PTL DEF JsonSpec

(***************************************************************************)
(* Every object of json-c is freed once and by then unused, whatever       *)
(* handles and containers there are.                                       *)
(***************************************************************************)
THEOREM EveryObjectIsFreedOnce ==
  ASSUME ObjectsAssumption
  PROVE  JsonSpec => []ObjectsAreFreedOnce
  BY JsonInvariant, CountedAreFreedOnce, PTL
=============================================================================
