------------------------------ MODULE Messages ------------------------------
(***************************************************************************)
(* What is sent over the bus (codec.h): a sequence of arguments is         *)
(* written, and read from its head.                                        *)
(***************************************************************************)
EXTENDS Criteria, SequencesExt

\* Codec<Optional<T>>
EncodedOptional(x) == IF x = Unspecified THEN <<FALSE>> ELSE <<TRUE, x>>

DecodedOptional(m) ==
  IF Head(m) THEN [value |-> m[2], rest |-> Tail(Tail(m))]
             ELSE [value |-> Unspecified, rest |-> Tail(m)]

\* Codec<Position>, of values of any kind
PositionOf(values) ==
  LET optional == values \union {Unspecified}
  IN [latitude : values, longitude : values, altitude : optional, horizontal : optional,
      vertical : optional]

EncodedPosition(p) ==
  <<p.latitude, p.longitude>> \o EncodedOptional(p.altitude)
    \o EncodedOptional(p.horizontal) \o EncodedOptional(p.vertical)

\* Mutant: the accuracies are read in the other order.
DecodedPosition_Crossed(m) ==
  LET altitude == DecodedOptional(Tail(Tail(m)))
      vertical == DecodedOptional(altitude.rest)
      horizontal == DecodedOptional(vertical.rest)
  IN [value |-> [latitude |-> m[1], longitude |-> m[2], altitude |-> altitude.value,
                 horizontal |-> horizontal.value, vertical |-> vertical.value],
      rest |-> horizontal.rest]

DecodedPosition(m) ==
  LET altitude == DecodedOptional(Tail(Tail(m)))
      horizontal == DecodedOptional(altitude.rest)
      vertical == DecodedOptional(horizontal.rest)
  IN [value |-> [latitude |-> m[1], longitude |-> m[2], altitude |-> altitude.value,
                 horizontal |-> horizontal.value, vertical |-> vertical.value],
      rest |-> vertical.rest]

\* Codec<Update<T>>
EncodedUpdate(u) == EncodedPosition(u.value) \o <<u.when>>
DecodedUpdate(m) ==
  LET position == DecodedPosition(m)
  IN [value |-> [value |-> position.value, when |-> Head(position.rest)],
      rest |-> Tail(position.rest)]

\* Codec<Criteria>, with the features and the accuracies in a fixed order
FeatureOrder == SetToSeq(Features)
OptionalOrder == SetToSeq(Optionals)

EncodedCriteria(c) ==
  [i \in 1 .. Len(FeatureOrder) |-> FeatureOrder[i] \in c.requires]
    \o <<c.horizontal>>
    \o FlattenSeq([i \in 1 .. Len(OptionalOrder) |->
                     EncodedOptional(c.accuracy[OptionalOrder[i]])])

\* The rest of m when i optional values have been read.
AfterOptionals(m, i) ==
  FoldLeft(LAMBDA rest, k : DecodedOptional(rest).rest, m, SubSeq(OptionalOrder, 1, i))

DecodedCriteria(m) ==
  LET n == Len(FeatureOrder)
      accuracies == SubSeq(m, n + 2, Len(m))
      Index(k) == CHOOSE i \in 1 .. Len(OptionalOrder) : OptionalOrder[i] = k
  IN [requires |-> {FeatureOrder[i] : i \in {j \in 1 .. n : m[j]}},
      horizontal |-> m[n + 1],
      accuracy |-> [k \in Optionals |->
                      DecodedOptional(AfterOptionals(accuracies, Index(k) - 1)).value]]

\* TypeMapper<SpaceVehicle>::signature, made of those of its parts: the key,
\* the signal, three flags and two angles
SignatureOfKey == <<"u", "u">>
VehicleSignature == SignatureOfKey \o <<"d">> \o <<"b", "b", "b">> \o <<"d", "d">>

\* Codec<SpaceVehicle>, each argument with the type it is pushed as
EncodedKey(key) == <<<<"u", key.type>>, <<"u", key.id>>>>
EncodedVehicle(v) ==
  EncodedKey(v.key)
    \o <<<<"d", v.snr>>, <<"b", v.almanac>>, <<"b", v.ephemeris>>, <<"b", v.used>>,
         <<"d", v.azimuth>>, <<"d", v.elevation>>>>

\* Mutant: the angles are read in the other order.
DecodedVehicle_Crossed(m) ==
  [key |-> [type |-> m[1][2], id |-> m[2][2]], snr |-> m[3][2], almanac |-> m[4][2],
   ephemeris |-> m[5][2], used |-> m[6][2], azimuth |-> m[8][2], elevation |-> m[7][2]]

DecodedVehicle(m) ==
  [key |-> [type |-> m[1][2], id |-> m[2][2]], snr |-> m[3][2], almanac |-> m[4][2],
   ephemeris |-> m[5][2], used |-> m[6][2], azimuth |-> m[7][2], elevation |-> m[8][2]]

\* Codec<std::map<Key, SpaceVehicle>>: the vehicles are written in the order
\* of their keys, which are types first, and inserted by the key each one has;
\* insert() keeps the first of a key.
KeyBefore(k, l) == k.type < l.type \/ (k.type = l.type /\ k.id < l.id)
EncodedVehicles(map) ==
  LET keys == SetToSortSeq(DOMAIN map, KeyBefore)
  IN [i \in DOMAIN keys |-> EncodedVehicle(map[keys[i]])]
DecodedVehicles(m) ==
  FoldLeft(LAMBDA found, e :
             LET v == DecodedVehicle(e)
             IN [k \in DOMAIN found \union {v.key} |-> IF k \in DOMAIN found THEN found[k] ELSE v],
           <<>>, m)

-----------------------------------------------------------------------------
(***************************************************************************)
(* An update arrives as it was sent, with every combination of values left *)
(* open, and nothing of the message is left over (codec.h 112-193 and      *)
(* 461-475).                                                               *)
(***************************************************************************)
UpdateArrives(u) == DecodedUpdate(EncodedUpdate(u)) = [value |-> u, rest |-> <<>>]
=============================================================================
