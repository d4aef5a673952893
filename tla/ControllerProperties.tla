------------------------ MODULE ControllerProperties ------------------------
(***************************************************************************)
(* What Provider::Controller must guarantee, and under which callers it    *)
(* does.                                                                   *)
(***************************************************************************)
EXTENDS Controller, TLC

Quiet == \A t \in Threads : pc[t] = "idle"

At(o, label, f) == pc[o] = label /\ arg[o] = f

\* The observers whose request the counter of f may include: they hold a
\* claim whose decrement is still to come, or have incremented already.
Counted(f) ==
  {o \in Observers : \/ f \in claims[o] /\ ~At(o, "stop_instance", f)
                     \/ At(o, "start_instance", f)}

(***************************************************************************)
(* No interleaving of start, stop, disable and enable makes the counter    *)
(* exceed the number of observers with a request: a phantom observer,      *)
(* whose stop was lost, would keep the hardware powered for ever           *)
(* (provider.cpp 52-126).                                                  *)
(***************************************************************************)
NeverOvercounted == \A f \in Features : counter[f] <= Cardinality(Counted(f))

(***************************************************************************)
(* While nobody disables the provider, the counter is exact after every    *)
(* atomic step of every interleaving: `if (++counter == 1)' and            *)
(* `if (--counter == 0)' lose no update (provider.cpp 57, 68).             *)
(***************************************************************************)
CountExact ==
  ~Administered => \A f \in Features : counter[f] = Cardinality(Counted(f))

(***************************************************************************)
(* With serialised calls the hardware of a feature runs between calls      *)
(* exactly while its counter is positive, except where an enable() found   *)
(* it running and zeroed the counter under it.  In particular no disable() *)
(* and no late stop of an observer it evicted starts or stops anything     *)
(* behind the counter, and the next start puts right what the enable()     *)
(* left (provider.cpp 31-72).                                              *)
(***************************************************************************)
RunningIffCounted ==
  Serialised /\ Quiet =>
    \A f \in Features : running[f] <=> counter[f] > 0 \/ f \in forgotten

(***************************************************************************)
(* With serialised calls the hardware of a feature runs between calls only *)
(* if some observer asked for it and has not stopped it, or if an enable() *)
(* found it running: that is the one way to leak a running receiver, and   *)
(* no sequence of starts, late stops and disables does it by itself        *)
(* (provider.h 76-78).                                                     *)
(***************************************************************************)
NoLeak ==
  Serialised /\ Quiet =>
    \A f \in Features :
      running[f] => f \in forgotten \/ \E o \in Observers : f \in claims[o]

(***************************************************************************)
(* "enable switches the provider to an enabled state, such that subsequent *)
(* calls to start* methods succeed" (provider.h 95-98): between calls, an  *)
(* enabled controller refuses no start, with serialised calls.             *)
(***************************************************************************)
EnabledAcceptsStarts ==
  Serialised /\ Quiet /\ phase = "enabled" => \A f \in Features : counter[f] >= 0

(***************************************************************************)
(* "disable switches the provider to a disabled state, such that           *)
(* subsequent calls to start* methods fail" (provider.h 89-92): between    *)
(* serialised calls, a disabled controller refuses every start.            *)
(***************************************************************************)
DisabledRefusesStarts ==
  Serialised /\ Quiet /\ phase = "disabled" => \A f \in Features : counter[f] < 0

(***************************************************************************)
(* Serialised, cooperative observers cannot tell the controller from the   *)
(* abstract switch: a claim takes effect when its call returns, a feature  *)
(* is closed by the store of -1 and opened by that of 0, which evicts if   *)
(* it was open (provider.cpp 31-72).  For other callers the mapping shows  *)
(* a switch nobody uses.                                                   *)
(***************************************************************************)
Switch == INSTANCE UpdateSwitch WITH
  Users <- Observers,
  Channels <- Features,
  users <- [f \in Features |-> {o \in Observers : Cooperative /\ f \in claims[o]}],
  open <- [f \in Features |-> Cooperative => counter[f] >= 0]

ImplementsSwitch == Switch!SwitchSpec

-----------------------------------------------------------------------------
\* For TLC: observers are interchangeable.
ObserverSymmetry == Permutations(Observers)
=============================================================================
