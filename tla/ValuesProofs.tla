---------------------------- MODULE ValuesProofs ----------------------------
(***************************************************************************)
(* What is said of functions: of criteria, messages, reports, locations,   *)
(* clocks and calls that are handed on, for values of every kind.          *)
(***************************************************************************)
EXTENDS Messages, Reports, Delegation, Environment, SequenceTheorems, WellFoundedInduction,
        TLAPS

-----------------------------------------------------------------------------
(* The merging of criteria, for accuracies of every size and any set of      *)
(* features and accuracies.                                                  *)


\* The tighter of two accuracies is met exactly by what meets both of them,
\* where one that is left open is met by everything.
LEMMA TighterMeetsBoth ==
  ASSUME NEW x \in Nat \union {Unspecified}, NEW a \in Nat \union {Unspecified},
         NEW b \in Nat \union {Unspecified}
  PROVE  LET Met(c) == c # Unspecified => x # Unspecified /\ x <= c
         IN Met(Tighter(a, b)) <=> Met(a) /\ Met(b)
<1>1. CASE a = Unspecified \/ b = Unspecified
  BY <1>1, CriteriaAssumption DEF Tighter
<1>2. CASE a \in Nat /\ b \in Nat
  <2>1. a # Unspecified /\ b # Unspecified
    BY <1>2, CriteriaAssumption
  <2>2. CASE x = Unspecified
    BY <1>2, <2>1, <2>2, CriteriaAssumption DEF Tighter
  <2>3. CASE x \in Nat
    BY <1>2, <2>1, <2>3, CriteriaAssumption DEF Tighter
  <2> QED BY <2>2, <2>3
<1> QED BY <1>1, <1>2

(***************************************************************************)
(* "operator + merges lhs and rhs such that satisfying the new criteria    *)
(* satisfies lhs and rhs" (criteria.h 60-62), and it asks for no more      *)
(* (criteria.cpp 51-99), whatever is asked and offered.                    *)
(***************************************************************************)
THEOREM MergedCriteriaMeanBoth ==
  \A m, a, b \in Criterion : MergedMeansBoth(m, a, b)
<1> SUFFICES ASSUME NEW m \in Criterion, NEW a \in Criterion, NEW b \in Criterion
             PROVE  MergedMeansBoth(m, a, b)
  OBVIOUS
<1> DEFINE Met(x, c) == c # Unspecified => x # Unspecified /\ x <= c
<1>1. Merged(a, b).requires \subseteq m.requires
        <=> a.requires \subseteq m.requires /\ b.requires \subseteq m.requires
  BY DEF Merged
<1>2. m.horizontal <= Merged(a, b).horizontal
        <=> m.horizontal <= a.horizontal /\ m.horizontal <= b.horizontal
  <2>1. m.horizontal \in Nat /\ a.horizontal \in Nat /\ b.horizontal \in Nat
    BY DEF Criterion
  <2>2. Merged(a, b).horizontal
          = IF b.horizontal < a.horizontal THEN b.horizontal ELSE a.horizontal
    BY DEF Merged
  <2> QED BY <2>1, <2>2
<1>3. ASSUME NEW k \in Optionals
      PROVE  Met(m.accuracy[k], Merged(a, b).accuracy[k])
               <=> Met(m.accuracy[k], a.accuracy[k]) /\ Met(m.accuracy[k], b.accuracy[k])
  <2>1. /\ m.accuracy[k] \in Nat \union {Unspecified}
        /\ a.accuracy[k] \in Nat \union {Unspecified}
        /\ b.accuracy[k] \in Nat \union {Unspecified}
    BY DEF Criterion
  <2>2. Merged(a, b).accuracy[k] = Tighter(a.accuracy[k], b.accuracy[k])
    BY DEF Merged
  <2> HIDE DEF Met
  <2>3. Met(m.accuracy[k], Tighter(a.accuracy[k], b.accuracy[k]))
          <=> Met(m.accuracy[k], a.accuracy[k]) /\ Met(m.accuracy[k], b.accuracy[k])
    BY <2>1, TighterMeetsBoth DEF Met
  <2> QED BY <2>2, <2>3
<1>4. \A c \in {a, b, Merged(a, b)} :
        Meets(m, c) <=> /\ c.requires \subseteq m.requires
                        /\ m.horizontal <= c.horizontal
                        /\ \A k \in Optionals : Met(m.accuracy[k], c.accuracy[k])
  BY DEF Meets
<1> HIDE DEF Met
<1> QED BY <1>1, <1>2, <1>3, <1>4 DEF MergedMeansBoth

-----------------------------------------------------------------------------
(* Messages of any values (codec.h).                                         *)

\* A message whose first argument is a.
LEMMA Pushed ==
  ASSUME NEW S, NEW a \in S, NEW r \in Seq(S)
  PROVE  /\ <<a>> \in Seq(S)
         /\ <<a>> \o r \in Seq(S)
         /\ Head(<<a>> \o r) = a
         /\ Tail(<<a>> \o r) = r
<1> DEFINE m == <<a>> \o r
<1>1. <<a>> \in Seq(S) /\ Len(<<a>>) = 1 /\ <<a>>[1] = a
  OBVIOUS
<1>2. /\ m \in Seq(S) /\ Len(m) = 1 + Len(r) /\ Len(r) \in Nat
      /\ \A i \in 1 .. 1 + Len(r) : m[i] = IF i <= 1 THEN <<a>>[i] ELSE r[i - 1]
  BY <1>1, ConcatProperties, LenProperties
<1> HIDE DEF m
<1>3. m # <<>> /\ Head(m) = m[1] /\ m[1] = a
  BY <1>1, <1>2
<1>4. /\ Tail(m) \in Seq(S) /\ Len(Tail(m)) = Len(r)
      /\ \A i \in 1 .. Len(r) : Tail(m)[i] = m[i + 1]
  BY <1>2, <1>3, HeadTailProperties
<1>5. Tail(m) = r
  <2>1. \A i \in 1 .. Len(r) : Tail(m)[i] = r[i]
    BY <1>2, <1>4
  <2> QED
    BY <1>4, <2>1, SeqEqual
<1> QED
  BY <1>1, <1>2, <1>3, <1>5 DEF m

\* A message whose first two are a and b.
LEMMA PushedTwo ==
  ASSUME NEW S, NEW a \in S, NEW b \in S, NEW r \in Seq(S)
  PROVE  /\ <<a, b>> \in Seq(S)
         /\ <<a, b>> \o r \in Seq(S)
         /\ Head(<<a, b>> \o r) = a
         /\ (<<a, b>> \o r)[1] = a /\ (<<a, b>> \o r)[2] = b
         /\ Tail(Tail(<<a, b>> \o r)) = r
<1>1. <<a, b>> = <<a>> \o <<b>> /\ <<a>> \in Seq(S) /\ <<b>> \in Seq(S) /\ <<a, b>> \in Seq(S)
  <2>1. <<a>> \in Seq(S) /\ <<b>> \in Seq(S)
    OBVIOUS
  <2>2. <<a, b>> \in Seq(S) /\ Len(<<a, b>>) = 2
    OBVIOUS
  <2>3. /\ <<a>> \o <<b>> \in Seq(S) /\ Len(<<a>> \o <<b>>) = 2
        /\ \A i \in 1 .. 2 : (<<a>> \o <<b>>)[i] = IF i <= 1 THEN <<a>>[i] ELSE <<b>>[i - 1]
    BY <2>1, ConcatProperties
  <2>4. \A i \in 1 .. 2 : (<<a>> \o <<b>>)[i] = <<a, b>>[i]
    BY <2>3
  <2> QED
    BY <2>1, <2>2, <2>3, <2>4, SeqEqual
<1>2. <<a, b>> \o r = <<a>> \o (<<b>> \o r)
  BY <1>1, ConcatAssociative
<1>3. /\ <<b>> \o r \in Seq(S) /\ Tail(<<b>> \o r) = r
  BY Pushed
<1>4. /\ <<a, b>> \o r \in Seq(S) /\ Head(<<a, b>> \o r) = a /\ Tail(<<a, b>> \o r) = <<b>> \o r
  BY <1>2, <1>3, Pushed
<1>5. Len(<<a, b>>) = 2 /\ <<a, b>>[1] = a /\ <<a, b>>[2] = b /\ Len(r) \in Nat
  BY LenProperties
<1>6. (<<a, b>> \o r)[1] = a /\ (<<a, b>> \o r)[2] = b
  <2>1. \A i \in 1 .. 2 + Len(r) :
          (<<a, b>> \o r)[i] = IF i <= 2 THEN <<a, b>>[i] ELSE r[i - 2]
    BY <1>1, <1>5, ConcatProperties
  <2> QED
    BY <1>5, <2>1
<1> QED
  BY <1>1, <1>3, <1>4, <1>6

\* What is read from the head of a message is read whatever follows.
LEMMA OptionalArrives ==
  ASSUME NEW S, BOOLEAN \subseteq S, NEW x \in S \union {Unspecified}, NEW r \in Seq(S)
  PROVE  /\ EncodedOptional(x) \in Seq(S)
         /\ EncodedOptional(x) \o r \in Seq(S)
         /\ DecodedOptional(EncodedOptional(x) \o r) = [value |-> x, rest |-> r]
<1>1. CASE x = Unspecified
  <2>1. EncodedOptional(x) = <<FALSE>>
    BY <1>1 DEF EncodedOptional
  <2>2. FALSE \in S
    BY Zenon
  <2>3. <<FALSE>> \in Seq(S) /\ <<FALSE>> \o r \in Seq(S) /\ ~Head(<<FALSE>> \o r) /\ Tail(<<FALSE>> \o r) = r
    BY <2>2, Pushed, Zenon
  <2> QED
    BY <1>1, <2>1, <2>2, <2>3, Zenon DEF DecodedOptional
<1>2. CASE x # Unspecified
  <2>1. EncodedOptional(x) = <<TRUE, x>> /\ x \in S
    BY <1>2 DEF EncodedOptional
  <2>2. TRUE \in S
    BY Zenon
  <2>3. ASSUME NEW t \in S
        PROVE  /\ <<t, x>> \in Seq(S) /\ <<t, x>> \o r \in Seq(S) /\ Head(<<t, x>> \o r) = t
               /\ (<<t, x>> \o r)[2] = x /\ Tail(Tail(<<t, x>> \o r)) = r
    BY <2>1, PushedTwo
  <2>4. /\ <<TRUE, x>> \in Seq(S) /\ <<TRUE, x>> \o r \in Seq(S) /\ Head(<<TRUE, x>> \o r)
        /\ (<<TRUE, x>> \o r)[2] = x /\ Tail(Tail(<<TRUE, x>> \o r)) = r
    BY <2>2, <2>3, Zenon
  <2> QED
    BY <1>2, <2>1, <2>4, Zenon DEF DecodedOptional
<1> QED
  BY <1>1, <1>2

\* Hidden, so that the provers see nothing of a sequence but what is said.
Of(S) == Seq(S)
Joined(s, t) == s \o t

LEMMA Reassociates ==
  ASSUME NEW S
  PROVE  \A x, y, z \in Of(S) : /\ Joined(x, y) \in Of(S)
                                /\ Joined(Joined(x, y), z) = Joined(x, Joined(y, z))
  BY ConcatAssociative, ConcatProperties DEF Joined, Of

LEMMA Regrouped ==
  ASSUME NEW S, NEW s \in Of(S), NEW a \in Of(S), NEW h \in Of(S), NEW v \in Of(S),
         NEW e \in Of(S)
  PROVE  Joined(Joined(Joined(Joined(s, a), h), v), e) = Joined(s, Joined(a, Joined(h, Joined(v, e))))
<1>1. \A x, y, z \in Of(S) : /\ Joined(x, y) \in Of(S)
                            /\ Joined(Joined(x, y), z) = Joined(x, Joined(y, z))
  BY Reassociates
<1>2. Joined(s, a) \in Of(S) /\ Joined(v, e) \in Of(S)
  BY <1>1
<1>3. Joined(Joined(Joined(Joined(s, a), h), v), e) = Joined(Joined(Joined(s, a), h), Joined(v, e))
  BY <1>1, <1>2
<1>4. Joined(Joined(Joined(s, a), h), Joined(v, e)) = Joined(Joined(s, a), Joined(h, Joined(v, e)))
  BY <1>1, <1>2
<1>5. Joined(Joined(s, a), Joined(h, Joined(v, e))) = Joined(s, Joined(a, Joined(h, Joined(v, e))))
  BY <1>1, <1>2
<1> QED
  BY <1>3, <1>4, <1>5

(***************************************************************************)
(* An update is read as the update that was written, with any of its       *)
(* optional values left open, and nothing is left of the message, for      *)
(* values of every kind (codec.h 112-193 and 461-475).                     *)
(***************************************************************************)
THEOREM UpdatesArrive ==
  ASSUME NEW V, NEW u \in [value : PositionOf(V), when : V]
  PROVE  UpdateArrives(u)
<1> DEFINE S == V \union BOOLEAN
           p == u.value
           start == <<p.latitude, p.longitude>>
           end == <<u.when>>
           vertical == EncodedOptional(p.vertical) \o end
           horizontal == EncodedOptional(p.horizontal) \o vertical
           altitude == EncodedOptional(p.altitude) \o horizontal
<1>1. /\ p.latitude \in S /\ p.longitude \in S /\ u.when \in S /\ BOOLEAN \subseteq S
      /\ p.altitude \in S \union {Unspecified} /\ p.horizontal \in S \union {Unspecified}
      /\ p.vertical \in S \union {Unspecified}
  BY DEF PositionOf
<1>2. p = [latitude |-> p.latitude, longitude |-> p.longitude, altitude |-> p.altitude,
           horizontal |-> p.horizontal, vertical |-> p.vertical]
      /\ u = [value |-> p, when |-> u.when]
  BY DEF PositionOf
<1> HIDE DEF S, p
<1>3. start \in Seq(S) /\ end \in Seq(S)
  BY <1>1
<1> HIDE DEF start, end
<1>4. /\ EncodedOptional(p.vertical) \in Seq(S) /\ vertical \in Seq(S)
      /\ DecodedOptional(vertical) = [value |-> p.vertical, rest |-> end]
  BY <1>1, <1>3, OptionalArrives
<1> HIDE DEF vertical
<1>5. /\ EncodedOptional(p.horizontal) \in Seq(S) /\ horizontal \in Seq(S)
      /\ DecodedOptional(horizontal) = [value |-> p.horizontal, rest |-> vertical]
  BY <1>1, <1>4, OptionalArrives
<1> HIDE DEF horizontal
<1>6. /\ EncodedOptional(p.altitude) \in Seq(S) /\ altitude \in Seq(S)
      /\ DecodedOptional(altitude) = [value |-> p.altitude, rest |-> horizontal]
  BY <1>1, <1>5, OptionalArrives
<1> HIDE DEF altitude
<1>7. /\ (start \o altitude)[1] = p.latitude /\ (start \o altitude)[2] = p.longitude
      /\ Tail(Tail(start \o altitude)) = altitude
  BY <1>1, <1>6, PushedTwo DEF start
<1>8. EncodedUpdate(u) = start \o altitude
  <2> DEFINE a == EncodedOptional(p.altitude)
             h == EncodedOptional(p.horizontal)
             v == EncodedOptional(p.vertical)
  <2>1. EncodedUpdate(u) = (((start \o a) \o h) \o v) \o end
    BY DEF EncodedUpdate, EncodedPosition, p, start, end
  <2>2. a \in Seq(S) /\ h \in Seq(S) /\ v \in Seq(S)
    BY <1>4, <1>5, <1>6 DEF a, h, v
  <2> HIDE DEF a, h, v
  <2>3. start \in Of(S) /\ a \in Of(S) /\ h \in Of(S) /\ v \in Of(S) /\ end \in Of(S)
    BY <1>3, <2>2 DEF Of
  <2>4. Joined(Joined(Joined(Joined(start, a), h), v), end)
          = Joined(start, Joined(a, Joined(h, Joined(v, end))))
    BY <2>3, Regrouped
  <2> QED
    BY <2>1, <2>4, Zenon DEF Joined, altitude, horizontal, vertical, a, h, v
<1>9. DecodedPosition(start \o altitude) = [value |-> p, rest |-> end]
  <2> DEFINE m == start \o altitude
             first == DecodedOptional(Tail(Tail(m)))
             second == DecodedOptional(first.rest)
             third == DecodedOptional(second.rest)
  <2>1. first = [value |-> p.altitude, rest |-> horizontal]
    BY <1>6, <1>7, Zenon
  <2>2. first.value = p.altitude /\ first.rest = horizontal
    BY <2>1
  <2>3. second = [value |-> p.horizontal, rest |-> vertical]
    BY <1>5, <2>2, Zenon
  <2>4. second.value = p.horizontal /\ second.rest = vertical
    BY <2>3
  <2>5. third = [value |-> p.vertical, rest |-> end]
    BY <1>4, <2>4, Zenon
  <2>6. third.value = p.vertical /\ third.rest = end
    BY <2>5
  <2>7. DecodedPosition(m)
          = [value |-> [latitude |-> m[1], longitude |-> m[2], altitude |-> first.value,
                        horizontal |-> second.value, vertical |-> third.value],
             rest |-> third.rest]
    BY Zenon DEF DecodedPosition
  <2> HIDE DEF first, second, third
  <2> QED
    BY <1>2, <1>7, <2>2, <2>4, <2>6, <2>7
<1>10. Head(end) = u.when /\ Tail(end) = <<>>
  BY DEF end
<1> HIDE DEF end
<1>11. DecodedUpdate(start \o altitude)
         = [value |-> [value |-> p, when |-> u.when], rest |-> <<>>]
  <2> DEFINE m == start \o altitude
             position == DecodedPosition(m)
  <2>1. position = [value |-> p, rest |-> end]
    BY <1>9, Zenon
  <2>2. position.value = p /\ position.rest = end
    BY <2>1
  <2>3. DecodedUpdate(m) = [value |-> [value |-> position.value, when |-> Head(position.rest)],
                            rest |-> Tail(position.rest)]
    BY Zenon DEF DecodedUpdate
  <2> HIDE DEF position
  <2> QED
    BY <1>10, <2>2, <2>3
<1> QED
  BY <1>2, <1>8, <1>11, Zenon DEF UpdateArrives

-----------------------------------------------------------------------------
(* Bounded integers (bounded_integer.h).                                     *)

LEMMA PercentIsCapped ==
  ASSUME NEW percent \in Int
  PROVE  Capped(percent) \in 0 .. 100
BY DEF Capped

\* A share of a range is within it ...
LEMMA ShareIsWithin ==
  ASSUME NEW d \in Nat, NEW c \in 0 .. 100
  PROVE  (c * d) \div 100 \in 0 .. d
<1>1. c * d \in Nat /\ 100 * d \in Nat
  OBVIOUS
<1>2. c * d <= 100 * d
  <2>1. (100 - c) * d >= 0
    OBVIOUS
  <2>2. (100 - c) * d = 100 * d - c * d
    OBVIOUS
  <2> QED
    BY <1>1, <2>1, <2>2
<1>3. \A x \in Nat : x <= 100 * d => x \div 100 \in 0 .. d
  OBVIOUS
<1> QED
  BY <1>1, <1>2, <1>3

\* ... and a greater share no smaller.
LEMMA SharesKeepOrder ==
  ASSUME NEW d \in Nat, NEW c \in 0 .. 100, NEW e \in 0 .. 100, c <= e
  PROVE  (c * d) \div 100 <= (e * d) \div 100
<1>1. c * d \in Nat /\ e * d \in Nat
  OBVIOUS
<1>2. c * d <= e * d
  <2>1. (e - c) * d >= 0
    OBVIOUS
  <2>2. (e - c) * d = e * d - c * d
    OBVIOUS
  <2> QED
    BY <1>1, <2>1, <2>2
<1>3. \A x, y \in Nat : x <= y => x \div 100 <= y \div 100
  OBVIOUS
<1> QED
  BY <1>1, <1>2, <1>3

(***************************************************************************)
(* Every percentage, and every number that is none, becomes a strength     *)
(* within its bounds, a greater one no smaller strength, for all bounds    *)
(* (bounded_integer.h 74-86).                                              *)
(***************************************************************************)
THEOREM StrengthsKeepOrder ==
  ASSUME NEW weakest \in Int, NEW strongest \in Int, weakest <= strongest
  PROVE  \A low, high \in Int : KeepsOrder(weakest, strongest, low, high)
<1> SUFFICES ASSUME NEW low \in Int, NEW high \in Int
             PROVE  KeepsOrder(weakest, strongest, low, high)
  OBVIOUS
<1> DEFINE d == strongest - weakest
<1>1. d \in Nat
  OBVIOUS
<1>2. Capped(low) \in 0 .. 100 /\ Capped(high) \in 0 .. 100
  BY PercentIsCapped
<1>3. low <= high => Capped(low) <= Capped(high)
  BY DEF Capped
<1> HIDE DEF d
<1>4. ASSUME NEW c \in 0 .. 100
      PROVE  (c * d) \div 100 \in 0 .. d
  BY <1>1, ShareIsWithin
<1>5. low <= high => (Capped(low) * d) \div 100 <= (Capped(high) * d) \div 100
  BY <1>1, <1>2, <1>3, SharesKeepOrder
<1>6. (Capped(low) * d) \div 100 \in 0 .. d /\ (Capped(high) * d) \div 100 \in 0 .. d
  BY <1>2, <1>4, Zenon
<1>7. /\ FromPercent(weakest, strongest, low) = weakest + (Capped(low) * d) \div 100
      /\ FromPercent(weakest, strongest, high) = weakest + (Capped(high) * d) \div 100
  BY DEF FromPercent, d
<1>8. d = strongest - weakest
  BY DEF d
<1> QED
  BY <1>5, <1>6, <1>7, <1>8 DEF KeepsOrder

-----------------------------------------------------------------------------
(* Reports (ichnaea_reporter.cpp 333-407).                                   *)

\* No two details of a type have one key, and none has that of the type.
LEMMA KeysDiffer ==
  ASSUME NEW t \in CellType, NEW f \in Details(t), NEW g \in Details(t)
  PROVE  /\ Key(f) = Key(g) => f = g
         /\ Key(f) # "radio"
BY DEF CellType, Details, Key

LEMMA EntryTells ==
  ASSUME NEW c \in Cell
  PROVE  /\ c.type \in CellType /\ DOMAIN c.details = Details(c.type)
         /\ c.type = "unknown" => CellEntry(c) = {} /\ KnownOf(c) = {}
         /\ c.type # "unknown" =>
              CellEntry(c) = {<<"radio", c.type>>}
                               \union {<<Key(f), c.details[f]>> : f \in KnownOf(c)}
<1>1. c.type \in CellType /\ c.details \in [Details(c.type) -> Int]
  BY DEF Cell, CellOf
<1>2. c.type = "unknown" => Details(c.type) = {}
  BY DEF Details
<1> QED
  BY <1>1, <1>2 DEF CellEntry, EntryOf, Granted, KnownOf

(***************************************************************************)
(* What is told of a cell whose details change while they are read was     *)
(* known of it before or after, for details of every size                  *)
(* (ichnaea_reporter.cpp 341-402).                                         *)
(***************************************************************************)
THEOREM CellsToldInParts ==
  \A a, b \in Cell : \A checked, got \in [Details(a.type) -> Int] :
    ToldInParts(a, b, checked, got)
<1> SUFFICES ASSUME NEW a \in Cell, NEW b \in Cell,
                    NEW checked \in [Details(a.type) -> Int],
                    NEW got \in [Details(a.type) -> Int], Became(a, b),
                    \A f \in Details(a.type) :
                      <<checked[f], got[f]>>
                        \in {<<a.details[f], a.details[f]>>, <<a.details[f], b.details[f]>>,
                             <<b.details[f], b.details[f]>>},
                    NEW e \in EntryOf(a.type, a, checked, got), e[1] # "radio"
             PROVE  /\ IsValid(e[2])
                    /\ \E f \in Details(a.type) :
                         e[1] = Key(f) /\ e[2] \in {a.details[f], b.details[f]}
  BY Zenon DEF ToldInParts
<1>1. PICK f \in Details(a.type) : e = <<Key(f), got[f]>> /\ IsValid(checked[f])
  BY DEF EntryOf, Granted
<1>2. \/ checked[f] = got[f] /\ got[f] \in {a.details[f], b.details[f]}
      \/ checked[f] = a.details[f] /\ got[f] = b.details[f]
  OBVIOUS
<1>3. IsValid(got[f])
  BY <1>1, <1>2 DEF Became
<1> QED
  BY <1>1, <1>2, <1>3

(***************************************************************************)
(* Two cells have the same entry of a report exactly if they have the      *)
(* same type and agree on what is known of them, and what is unknown is    *)
(* not told, for details of every size, if they do not change while they   *)
(* are read (ichnaea_reporter.cpp 333-407).                                *)
(***************************************************************************)
THEOREM CellsTold ==
  \A a, b \in Cell : ToldApart(a, b)
<1> SUFFICES ASSUME NEW a \in Cell, NEW b \in Cell
             PROVE  ToldApart(a, b)
  OBVIOUS
<1> DEFINE Pairs(c) == {<<Key(f), c.details[f]>> : f \in KnownOf(c)}
<1>1. /\ a.type \in CellType /\ DOMAIN a.details = Details(a.type)
      /\ b.type \in CellType /\ DOMAIN b.details = Details(b.type)
  BY EntryTells
<1>2. KnownOf(a) \subseteq Details(a.type) /\ KnownOf(b) \subseteq Details(b.type)
  BY <1>1 DEF KnownOf
<1>3. ASSUME CellEntry(a) = CellEntry(b)
      PROVE  /\ a.type = b.type /\ KnownOf(a) = KnownOf(b)
             /\ \A f \in KnownOf(a) : a.details[f] = b.details[f]
  <2>1. a.type = b.type
    <3>1. a.type = "unknown" <=> CellEntry(a) = {}
      BY EntryTells
    <3>2. b.type = "unknown" <=> CellEntry(b) = {}
      BY EntryTells
    <3>3. CASE a.type = "unknown"
      BY <1>3, <3>1, <3>2, <3>3
    <3>4. CASE a.type # "unknown"
      <4>1. b.type # "unknown"
        BY <1>3, <3>1, <3>2, <3>4
      <4>2. <<"radio", a.type>> \in {<<"radio", b.type>>} \union Pairs(b)
        BY <1>3, <3>4, <4>1, EntryTells
      <4>3. <<"radio", a.type>> \notin Pairs(b)
        <5>1. \A f \in KnownOf(b) : Key(f) # "radio"
          BY <1>1, <1>2, KeysDiffer
        <5> QED
          BY <5>1
      <4> QED
        BY <4>2, <4>3
    <3> QED
      BY <3>3, <3>4
  <2>2. CASE a.type = "unknown"
    BY <2>1, <2>2, EntryTells
  <2>3. CASE a.type # "unknown"
    <3>1. Pairs(a) \union {<<"radio", a.type>>} = Pairs(b) \union {<<"radio", a.type>>}
      BY <1>3, <2>1, <2>3, EntryTells
    <3>2. \A c \in {a, b} : \A f \in KnownOf(c) : Key(f) # "radio"
      BY <1>1, <1>2, KeysDiffer
    <3>3. Pairs(a) = Pairs(b)
      <4>1. <<"radio", a.type>> \notin Pairs(a) /\ <<"radio", a.type>> \notin Pairs(b)
        BY <3>2
      <4> QED
        BY <3>1, <4>1
    <3>4. ASSUME NEW c \in {a, b}, NEW d \in {a, b}, Pairs(c) = Pairs(d), NEW f \in KnownOf(c)
          PROVE  f \in KnownOf(d) /\ c.details[f] = d.details[f]
      <4>1. <<Key(f), c.details[f]>> \in Pairs(d)
        BY <3>4
      <4>2. PICK g \in KnownOf(d) : <<Key(f), c.details[f]>> = <<Key(g), d.details[g]>>
        BY <4>1
      <4>3. f \in Details(a.type) /\ g \in Details(a.type)
        BY <1>2, <2>1
      <4>4. f = g
        BY <1>1, <4>2, <4>3, KeysDiffer
      <4> QED
        BY <4>2, <4>4
    <3> QED
      BY <2>1, <3>3, <3>4
  <2> QED
    BY <2>2, <2>3
<1>4. ASSUME a.type = b.type, KnownOf(a) = KnownOf(b),
             \A f \in KnownOf(a) : a.details[f] = b.details[f]
      PROVE  CellEntry(a) = CellEntry(b)
  <2>1. Pairs(a) = Pairs(b)
    BY <1>4
  <2> QED
    BY <1>4, <2>1, EntryTells
<1>5. ASSUME NEW e \in CellEntry(a), e[1] # "radio"
      PROVE  IsValid(e[2])
  <2>1. e \in Pairs(a)
    BY <1>5, EntryTells
  <2>2. PICK f \in KnownOf(a) : e = <<Key(f), a.details[f]>>
    BY <2>1
  <2> QED
    BY <2>2 DEF KnownOf
<1> QED
  BY <1>3, <1>4, <1>5 DEF ToldApart

-----------------------------------------------------------------------------
(* Locations of the driver (android_hardware_abstraction_layer.cpp).         *)

\* What a flag stands for is told if it is set, and of two locations with
\* the same flags alike exactly if it is unset or they agree.
LEMMA KnownIsFlagged ==
  ASSUME NEW V, NEW a \in LocationOf(V), NEW b \in LocationOf(V), a.flags = b.flags,
         NEW flag \in Flags \ {"lat_long"}
  PROVE  Known(a, flag) = Known(b, flag) <=> flag \notin a.flags \/ a[flag] = b[flag]
<1>1. CASE flag \in a.flags
  <2>1. Known(a, flag) = <<a[flag]>> /\ Known(b, flag) = <<b[flag]>>
    BY <1>1 DEF Known, Has
  <2> QED
    BY <1>1, <2>1
<1>2. CASE flag \notin a.flags
  BY <1>2 DEF Known, Has
<1> QED
  BY <1>1, <1>2

(***************************************************************************)
(* Another value in a field of a location changes what is signalled        *)
(* exactly if the field is flagged, for values of every kind               *)
(* (android_hardware_abstraction_layer.cpp 185-226).                       *)
(***************************************************************************)
THEOREM FlagsDecideWhatIsTold ==
  ASSUME NEW V
  PROVE  \A location \in LocationOf(V), field \in Fields, value \in V :
           FlagsDecide(location, field, value)
<1> SUFFICES ASSUME NEW a \in LocationOf(V), NEW field \in Fields, NEW value \in V,
                    value # a[field]
             PROVE  Signalled([a EXCEPT ![field] = value]) = Signalled(a)
                      <=> ~({FlagOf(field)} \union
                              (IF field \in {"accuracy", "altitude"} THEN {"lat_long"} ELSE {})
                              \subseteq a.flags)
  BY DEF FlagsDecide
<1> DEFINE b == [a EXCEPT ![field] = value]
           needed == {FlagOf(field)}
                       \union IF field \in {"accuracy", "altitude"} THEN {"lat_long"} ELSE {}
<1>1. /\ b \in LocationOf(V) /\ b.flags = a.flags /\ b[field] = value
      /\ \A f \in Fields \ {field} : b[f] = a[f]
  BY DEF LocationOf, Fields
<1> HIDE DEF b
<1>2. \A flag \in Flags \ {"lat_long"} :
        Known(b, flag) = Known(a, flag) <=> flag \notin a.flags \/ b[flag] = a[flag]
  BY <1>1, KnownIsFlagged
<1>3. Signalled(b) = Signalled(a) <=>
        /\ "lat_long" \in a.flags =>
             /\ b.latitude = a.latitude /\ b.longitude = a.longitude
             /\ Known(b, "accuracy") = Known(a, "accuracy")
             /\ Known(b, "altitude") = Known(a, "altitude")
        /\ Known(b, "speed") = Known(a, "speed") /\ Known(b, "bearing") = Known(a, "bearing")
  <2>1. CASE "lat_long" \in a.flags
    BY <1>1, <2>1 DEF Signalled, Has
  <2>2. CASE "lat_long" \notin a.flags
    BY <1>1, <2>2 DEF Signalled, Has
  <2> QED
    BY <2>1, <2>2
<1>4. Signalled(b) = Signalled(a) <=> ~(needed \subseteq a.flags)
  <2>1. CASE field \in {"latitude", "longitude"}
    <3>1. needed = {"lat_long"}
      BY <2>1 DEF FlagOf
    <3> QED
      BY <1>1, <1>2, <1>3, <2>1, <3>1 DEF Fields, Flags
  <2>2. CASE field \in {"accuracy", "altitude"}
    <3>1. needed = {field, "lat_long"}
      BY <2>2 DEF FlagOf
    <3> QED
      BY <1>1, <1>2, <1>3, <2>2, <3>1 DEF Fields, Flags
  <2>3. CASE field \in {"speed", "bearing"}
    <3>1. needed = {field}
      BY <2>3 DEF FlagOf
    <3> QED
      BY <1>1, <1>2, <1>3, <2>3, <3>1 DEF Fields, Flags
  <2> QED
    BY <2>1, <2>2, <2>3 DEF Fields
<1> QED
  BY <1>4 DEF b

(***************************************************************************)
(* A position that is given to the driver as reference is understood as    *)
(* that position, whatever location was in memory                          *)
(* (android_hardware_abstraction_layer.cpp 512-531).                       *)
(***************************************************************************)
THEOREM InjectedPositionsAreUnderstood ==
  ASSUME NEW V, NEW position \in [latitude : V, longitude : V,
                                  horizontal : {<<>>} \union {<<v>> : v \in V},
                                  altitude : {<<>>}]
  PROVE  \A memory \in LocationOf(V) : InjectedIsUnderstood(position, memory)
<1> SUFFICES ASSUME NEW memory \in LocationOf(V)
             PROVE  InjectedIsUnderstood(position, memory)
  OBVIOUS
<1> DEFINE given == Injected(position, memory)
<1>1. /\ given.flags = {"lat_long"} \union
                         (IF position.horizontal = <<>> THEN {} ELSE {"accuracy"})
      /\ given.latitude = position.latitude /\ given.longitude = position.longitude
      /\ position.horizontal # <<>> => given.accuracy = position.horizontal[1]
  BY DEF Injected, LocationOf
<1> HIDE DEF given
<1>2. /\ Known(given, "accuracy") = position.horizontal
      /\ Known(given, "altitude") = <<>> /\ Known(given, "speed") = <<>>
      /\ Known(given, "bearing") = <<>>
  <2>1. CASE position.horizontal = <<>>
    BY <1>1, <2>1 DEF Known, Has
  <2>2. CASE position.horizontal # <<>>
    <3>1. PICK v \in V : position.horizontal = <<v>>
      BY <2>2
    <3>2. "accuracy" \in given.flags /\ given.accuracy = v
      BY <1>1, <2>2, <3>1
    <3> QED
      BY <1>1, <2>2, <3>1, <3>2 DEF Known, Has
  <2> QED
    BY <2>1, <2>2
<1>3. position = [latitude |-> position.latitude, longitude |-> position.longitude,
                  horizontal |-> position.horizontal, altitude |-> <<>>]
  OBVIOUS
<1> QED
  BY <1>1, <1>2, <1>3 DEF InjectedIsUnderstood, Signalled, Has, given

-----------------------------------------------------------------------------
(* Calls and updates that are handed on.                                     *)

\* Providers in this process, whose calls need nobody else, and others.
ProviderOf ==
  [remote : BOOLEAN, reached : BOOLEAN, answers : [Query -> {"yes", "no"}]]

(***************************************************************************)
(* A provider whose process is gone takes no other one's place: of any     *)
(* number of providers in any order those that are there are asked, hear   *)
(* of the reference location and answer as their implementations do; the   *)
(* choice of the user is stored, and everyone hears of it if all are there *)
(* (engine.cpp 108-116, 223-237, providers/remote/provider.cpp 293-384).   *)
(***************************************************************************)
THEOREM AbsentProvidersAreSkipped ==
  ASSUME NEW P, "settings" \notin P, "harvester" \notin P,
         NEW order \in Seq(P), NEW providers \in [P -> ProviderOf]
  PROVE  AbsentAreSkipped(order, providers)
<1> DEFINE there == Present(order, providers)
           slots == ReportingSlots(order)
           gone == Unreached(providers)
<1>1. DOMAIN order = 1 .. Len(order) /\ Len(order) \in Nat /\ \A i \in DOMAIN order : order[i] \in P
  BY LenProperties, ElementOfSeq
<1>2. Range(order) = {order[i] : i \in DOMAIN order}
  BY DEF Range
<1>3. ASSUME NEW p \in P, NEW q \in Query
      PROVE  /\ Answer(providers[p], q) \in {"yes", "no", Threw}
             /\ Answer(providers[p], q) = "yes"
                  <=> /\ providers[p].remote => providers[p].reached
                      /\ providers[p].answers[q] = "yes"
  BY DEF Answer, StubQuery, HandledQuery, ForwardedQuery, ProviderOf, Threw, Query
<1>4. ASSUME NEW q \in Query
      PROVE  AnswersYes(order, providers, q) = {p \in there : providers[p].answers[q] = "yes"}
  <2>1. AnswersYes(order, providers, q)
          = {order[i] : i \in {j \in DOMAIN order : Answer(providers[order[j]], q) = "yes"}}
    BY DEF AnswersYes, Enumerated, Threw
  <2>2. \A i \in DOMAIN order :
          Answer(providers[order[i]], q) = "yes"
            <=> /\ providers[order[i]].remote => providers[order[i]].reached
                /\ providers[order[i]].answers[q] = "yes"
    BY <1>1, <1>3
  <2> QED
    BY <1>2, <2>1, <2>2 DEF Present
<1>5. ToldOfReference(order, providers) = there
  BY DEF ToldOfReference, Present
<1>6. /\ DOMAIN slots = 1 .. Len(order) + 2 /\ slots[1] = "settings"
      /\ slots[Len(order) + 2] = "harvester"
      /\ \A i \in 1 .. Len(order) : slots[i + 1] = order[i]
  <2> DEFINE T == P \union {"settings", "harvester"}
  <2>1. order \in Seq(T) /\ <<"settings">> \in Seq(T) /\ <<"harvester">> \in Seq(T)
    BY SeqMonotonic
  <2>2. /\ <<"settings">> \o order \in Seq(T) /\ Len(<<"settings">> \o order) = 1 + Len(order)
        /\ \A i \in 1 .. 1 + Len(order) :
             (<<"settings">> \o order)[i] = IF i <= 1 THEN <<"settings">>[i] ELSE order[i - 1]
    BY <2>1, ConcatProperties
  <2>3. /\ slots \in Seq(T) /\ Len(slots) = 2 + Len(order)
        /\ \A i \in 1 .. 2 + Len(order) :
             slots[i] = IF i <= 1 + Len(order) THEN (<<"settings">> \o order)[i]
                                               ELSE <<"harvester">>[i - (1 + Len(order))]
    BY <2>1, <2>2, ConcatProperties DEF ReportingSlots
  <2> QED
    BY <1>1, <2>2, <2>3, LenProperties
<1>7. gone = {p \in P : providers[p].remote /\ ~providers[p].reached}
  BY DEF Unreached
<1> HIDE DEF slots, gone
<1>8. ToldOfReporting(order, providers)
        = {slots[i] : i \in {j \in DOMAIN slots : \A k \in 1 .. j : slots[k] \notin gone}}
  BY DEF ToldOfReporting, Served, slots, gone
<1>9. "settings" \in ToldOfReporting(order, providers)
  <2>1. 1 \in DOMAIN slots /\ \A k \in 1 .. 1 : slots[k] \notin gone
    BY <1>1, <1>6, <1>7
  <2> QED
    BY <1>6, <1>8, <2>1
<1>10. ASSUME there = Range(order)
       PROVE  there \union {"harvester"} \subseteq ToldOfReporting(order, providers)
  <2>1. \A i \in 1 .. Len(order) : order[i] \notin gone
    BY <1>1, <1>2, <1>7, <1>10 DEF Present
  <2>2. \A k \in DOMAIN slots : slots[k] \notin gone
    <3> SUFFICES ASSUME NEW k \in DOMAIN slots
                 PROVE  slots[k] \notin gone
      OBVIOUS
    <3>1. CASE k = 1 \/ k = Len(order) + 2
      BY <1>6, <1>7, <3>1
    <3>2. CASE k # 1 /\ k # Len(order) + 2
      <4>1. k - 1 \in 1 .. Len(order) /\ (k - 1) + 1 = k
        BY <1>1, <1>6, <3>2
      <4> QED
        BY <1>6, <2>1, <4>1
    <3> QED
      BY <3>1, <3>2
  <2>3. \A j \in DOMAIN slots : slots[j] \in ToldOfReporting(order, providers)
    <3>1. \A j \in DOMAIN slots : \A k \in 1 .. j : k \in DOMAIN slots
      BY <1>1, <1>6
    <3> QED
      BY <1>8, <2>2, <3>1
  <2>4. \A i \in DOMAIN order : i + 1 \in DOMAIN slots /\ slots[i + 1] = order[i]
    BY <1>1, <1>6
  <2>5. Len(order) + 2 \in DOMAIN slots /\ slots[Len(order) + 2] = "harvester"
    BY <1>1, <1>6
  <2> QED
    BY <1>2, <1>10, <2>3, <2>4, <2>5
<1> QED
  BY <1>4, <1>5, <1>9, <1>10 DEF AbsentAreSkipped

(***************************************************************************)
(* Whatever providers a session selects, an update reaches the property of *)
(* its client that stands for what was measured, and only if enabling this *)
(* property starts the provider the update is from (proxy_provider.cpp     *)
(* 28-82, session/implementation.cpp 28-82, session/skeleton.cpp 280-347). *)
(***************************************************************************)
THEOREM UpdatesReachWhatStarts ==
  ASSUME NEW P, NEW providers \in [P -> [remote : BOOLEAN]],
         NEW selection \in [Kinds -> P], NEW source \in P
  PROVE  ReachesWhatStarts(providers, selection, source)
<1>1. \A kind \in Kinds :
        /\ InEngine(providers[source], kind) = kind
        /\ AtClient(kind) = kind
        /\ StartedOf(selection, kind) = <<selection[kind], kind>>
  BY DEF Kinds, InEngine, AtClient, StartedOf, StatusSlots, SkeletonConnections, StubConnections,
         TrackedConnections, ImplementationConnections, SessionConnections, Calls, Handlers, Sets
<1>2. ProxyConnections(selection) = {<<selection[kind], kind>> : kind \in Kinds}
  BY DEF ProxyConnections, Kinds
<1> QED
  BY <1>1, <1>2 DEF ReachesWhatStarts, Reached

-----------------------------------------------------------------------------
(* Clocks.                                                                   *)

\* Numbers have a least one.
LEMMA LeastIsFound ==
  ASSUME NEW S \in SUBSET Nat, S # {}
  PROVE  Min(S) \in S
<1>1. PICK x \in S : \A y \in S : ~(<<y, x>> \in OpToRel(<, Nat))
  BY NatLessThanWellFounded, WFMin
<1>2. \A y \in S : x <= y
  <2> SUFFICES ASSUME NEW y \in S, y < x
               PROVE  FALSE
    OBVIOUS
  <2>1. <<y, x>> \in OpToRel(<, Nat)
    BY DEF OpToRel
  <2> QED
    BY <1>1, <2>1
<1> QED
  BY <1>2 DEF Min

\* Systems whose kernel tells the time at which it booted, if it tells any.
Systems ==
  {e \in [alarm : {"absent", "fails", "works"}, boottime : {"fails", "works"},
          stat : Seq([name : STRING, value : Nat]),
          booted : Nat, up : Nat, first : Nat, set : Nat] :
     \A i \in DOMAIN e.stat : e.stat[i].name = "btime" => e.stat[i].value = e.booted}

(***************************************************************************)
(* The time since the system booted and the time at which an access point  *)
(* was seen are right whichever sources fail, for every /proc/stat and     *)
(* every clock, as long as the kernel tells when it booted and the wall    *)
(* clock was not set if nothing else is left (time_since_boot.cpp 73-140,  *)
(* cached_wireless_network.cpp 58-89).                                     *)
(***************************************************************************)
THEOREM TimesSinceBootAreKept ==
  \A e \in Systems, stamp \in Nat : TimesAreKept(e, stamp)
<1> SUFFICES ASSUME NEW e \in Systems, NEW stamp \in Nat
             PROVE  TimesAreKept(e, stamp)
  OBVIOUS
<1> DEFINE told == \E i \in DOMAIN e.stat : e.stat[i].name = "btime"
           left == e.alarm = "works" \/ e.boottime = "works"
           found == {i \in DOMAIN e.stat : e.stat[i].name = "btime"}
<1>1. /\ e.stat \in Seq([name : STRING, value : Nat])
      /\ e.booted \in Nat /\ e.up \in Nat /\ e.first \in Nat /\ e.set \in Nat
      /\ \A i \in found : e.stat[i].value = e.booted
  BY DEF Systems
<1>2. found \subseteq Nat
  BY <1>1, LenProperties
<1>3. \A otherwise : BootTime(e.stat, otherwise) = IF told THEN e.booted ELSE otherwise
  <2>1. CASE told
    <3>1. found # {}
      BY <2>1
    <3>2. Min(found) \in found
      BY <1>2, <3>1, LeastIsFound
    <3> QED
      BY <1>1, <2>1, <3>1, <3>2 DEF BootTime
  <2>2. CASE ~told
    BY <2>2 DEF BootTime
  <2> QED
    BY <2>1, <2>2
<1> HIDE DEF told
<1>4. TimeSinceBoot(e) = IF left THEN e.up ELSE IF told THEN e.up + e.set ELSE Failed
  <2>1. BootTime(e.stat, Failed) = IF told THEN e.booted ELSE Failed
    BY <1>3
  <2>2. FromProcStat(e) = IF told THEN e.up + e.set ELSE Failed
    BY <1>1, <2>1 DEF FromProcStat, WallClock, Failed
  <2> QED
    BY <2>2 DEF TimeSinceBoot
<1>5. LastSeen(e, stamp) = (IF told THEN e.booted ELSE e.booted + e.first) + stamp
  BY <1>3 DEF LastSeen
<1>6. TimeSinceBoot(e) = Failed <=> ~left /\ ~told
  BY <1>1, <1>4 DEF Failed
<1>7. left \/ (told /\ e.set = 0) => TimeSinceBoot(e) = e.up
  BY <1>1, <1>4
<1>8. LastSeen(e, stamp) - (e.booted + stamp) = IF told THEN 0 ELSE e.first
  BY <1>1, <1>5
<1> QED
  BY <1>6, <1>7, <1>8 DEF TimesAreKept, told
=============================================================================
