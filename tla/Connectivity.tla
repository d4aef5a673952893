---------------------------- MODULE Connectivity ----------------------------
(***************************************************************************)
(* The connectivity manager: the radio stack and the network stack.  The   *)
(* two share threads and a lock, and no state but the list of modems, in   *)
(* which characteristics_for_connection() finds nothing to say (the status *)
(* of a registration it asks for without refreshing is never there).  A    *)
(* behaviour moves one of them.                                            *)
(***************************************************************************)
EXTENDS RadioProperties

CONSTANTS Wifi, Cellular, Aps, DeviceOf, NoDevice, MaxFaults

\* Object paths name one thing, and a device is of one type.
ASSUME NetworkAssumption ==
  /\ Wifi \intersect Cellular = {}
  /\ (Wifi \union Cellular) \intersect Aps = {}
  /\ {NoDevice, "primary"} \intersect (Wifi \union Cellular \union Aps) = {}
  /\ NoDevice # "primary"
  /\ DeviceOf \in [Aps -> Wifi]
  /\ MaxFaults \in Nat

VARIABLES
  stack,  \* the stack that moves; chosen once
  there, air, former, primary, faults, missed, phase_, found_, visit, signals_, tasks_,
  devices, wired, wifis, via, state

Network ==
  INSTANCE NetworkProperties WITH phase <- phase_, found <- found_, signals <- signals_, tasks <- tasks_

networkVars ==
  <<there, air, former, primary, faults, missed, phase_, found_, visit, signals_, tasks_,
    devices, wired, wifis, via, state>>
allVars == <<stack, vars, networkVars>>

\* The stack that does not move starts from nothing.
ConnectivityInit ==
  /\ stack \in {"radio", "network"}
  /\ Init /\ (stack # "radio" => problematic = {} /\ There = {})
  /\ Network!Init /\ (stack # "network" => there = {})

ConnectivityNext ==
  \/ stack = "radio" /\ Next /\ UNCHANGED <<stack, networkVars>>
  \/ stack = "network" /\ Network!Next /\ UNCHANGED <<stack, vars>>

ConnectivitySpec ==
  /\ ConnectivityInit /\ [][ConnectivityNext]_allVars
  /\ \A m \in Modems : WF_vars(TimerExpires(m)) /\ WF_vars(Invalidate(m))
  /\ WF_allVars(stack = "network" /\ Network!BusThread /\ UNCHANGED <<stack, vars>>)
  /\ WF_allVars(stack = "network" /\ Network!Visiting /\ UNCHANGED <<stack, vars>>)
  /\ WF_allVars(stack = "network" /\ Network!Dispatcher /\ UNCHANGED <<stack, vars>>)

\* The inductive invariant: whatever the caches do not show yet, or show no longer
\* rightly, a signal or a task on its way still repairs (on_modem_removed(),
\* on_device_added() and the handlers of the properties' changes); the stacks do not
\* touch each other.
ConnectivityInv == RadioInv /\ Network!NetworkInv

ConnectivityTypeOK == TypeOK /\ Network!TypeOK
WifisAreInAir == Network!WifisAreInAir
ConnectionIsCurrent == Network!ConnectionIsCurrent
DevicesGetCached == Network!DevicesGetCached
InitialisedLater == Network!InitialisedLater

\* One wifi device sees all access points.
OneRadio == [a \in Aps |-> CHOOSE d \in Wifi : TRUE]
=============================================================================
