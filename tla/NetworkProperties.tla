------------------------- MODULE NetworkProperties -------------------------
(* What NetworkStack is meant to achieve, and why it does. *)
EXTENDS NetworkStack

\* Nothing of what NetworkManager did is still on its way to the caches.
Quiet == phase = "connected" /\ visit = NoVisit /\ signals = <<>> /\ tasks = <<>>

(* The cache of access points is what NetworkManager has, for those whose   *)
(* last change it told and whose properties it gave: although an access     *)
(* point may come or go while its device is visited, with the lock released *)
(* and nothing connected yet.                                               *)
WifisAreInAir ==
  Quiet => \A a \in Aps \ missed :
    a \in wifis <=> a \in air /\ DeviceOf[a] \in devices

(* The characteristics are those of the primary connection and the state is *)
(* the network's, whatever came and went: a connection over a modem that    *)
(* has just appeared is not taken for one without costs.                    *)
ConnectionIsCurrent ==
  Quiet =>
    /\ "primary" \notin missed => state = (primary # NoDevice)
    /\ {"primary", primary} \intersect missed = {} => via = Kind(primary)

(* A device whose appearance was told is cached in the end, also if others  *)
(* fail while they are added, unless NetworkManager does not answer what it *)
(* is (device.type(), ofono_nm_connectivity_manager.cpp 515): then nothing  *)
(* asks again.                                                              *)
DevicesGetCached ==
  \A d \in Devices :
    (phase = "connected" /\ d \in there \ missed) ~>
      (d \in devices \/ d \notin there \/ d \in missed)

(* "We setup watching of registration changes and initialize the instance   *)
(* later on": once every device has been visited, be it by the constructor  *)
(* or later on, the manager listens to the wifi devices it has cached.      *)
InitialisedLater ==
  phase = "read" => devices \intersect Wifi \subseteq wired

-----------------------------------------------------------------------------
(***************************************************************************)
(* Why the caches of the network stack come to be right: the inductive     *)
(* invariant behind the properties above.  It says what the signals and    *)
(* the tasks on their way will still repair.                               *)
(***************************************************************************)

In(q, s) == \E i \in DOMAIN q : q[i] = s
Pending(s) == In(signals, s) \/ In(tasks, s)

-----------------------------------------------------------------------------
(* Objects come and go once, and what is cached or told was there. *)

Lifecycle ==
  /\ former \intersect (there \union air) = {}
  /\ \A a \in air : DeviceOf[a] \in there
  /\ primary \in there \union {NoDevice}
  /\ wired \subseteq devices \union former
  /\ visit # NoVisit => visit.dev \in devices \union former
  /\ \A a \in wifis : DeviceOf[a] \in devices \union former

ToldOfThePast ==
  /\ \A d \in Devices : Pending(DeviceSignal("removed", d)) => d \in former
  /\ \A d \in Devices : Pending(DeviceSignal("primary", d)) => d \in there \union former
  /\ \A a \in Aps : In(signals, ApSignal("apRemoved", a)) => a \in former

\* Before the manager listens, only devices it has cached say something.
SilentBefore ==
  phase # "connected" =>
    /\ tasks = <<>>
    /\ \A i \in DOMAIN signals : signals[i].op \in {"apAdded", "apRemoved"}

-----------------------------------------------------------------------------
(* Access points. *)

AccessPointsComeRight ==
  \A a \in Aps \ missed :
    /\ a \in wifis \ air => In(signals, ApSignal("apRemoved", a))
    /\ a \in air => DeviceOf[a] \in devices
    /\ a \in air \ wifis => \/ visit.dev = DeviceOf[a] /\ a \in visit.left
                            \/ In(signals, ApSignal("apAdded", a))

-----------------------------------------------------------------------------
(* Devices. *)

DevicesComeRight ==
  /\ phase = "enumerate" => there \ missed \subseteq devices \union found
  /\ phase \in {"read", "connected"} =>
       \A d \in there \ missed : d \in devices \/ Pending(DeviceSignal("added", d))

-----------------------------------------------------------------------------
(* The primary connection. *)

\* A device is told of before it becomes the primary one.
AddedFirst ==
  \A d \in Devices :
    LET added == DeviceSignal("added", d)
        shown == DeviceSignal("primary", d)
    IN
      /\ \A i, j \in DOMAIN signals : signals[i] = shown /\ i < j => signals[j] # added
      /\ \A i, j \in DOMAIN tasks : tasks[i] = shown /\ i < j => tasks[j] # added
      /\ In(tasks, shown) => ~In(signals, added)

\* The last change of the primary connection in q is at i.
LastPrimary(q, i) ==
  i \in DOMAIN q /\ q[i].op = "primary" /\ \A j \in DOMAIN q : i < j => q[j].op # "primary"

NoPrimary(q) == \A i \in DOMAIN q : q[i].op # "primary"

PrimaryComesRight ==
  "primary" \notin missed =>
    /\ \A i \in DOMAIN signals : LastPrimary(signals, i) => signals[i].dev = primary
    /\ NoPrimary(signals) =>
         /\ state = (primary # NoDevice)
         /\ \A i \in DOMAIN tasks : LastPrimary(tasks, i) => tasks[i].dev = primary
         /\ NoPrimary(tasks) /\ primary \notin missed => via = Kind(primary)
    /\ phase \notin {"read", "connected"} => primary = NoDevice /\ via = "none"

NetworkInv ==
  /\ TypeOK
  /\ Lifecycle
  /\ ToldOfThePast
  /\ SilentBefore
  /\ AccessPointsComeRight
  /\ DevicesComeRight
  /\ AddedFirst
  /\ PrimaryComesRight
=============================================================================
