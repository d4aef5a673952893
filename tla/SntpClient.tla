----------------------------- MODULE SntpClient -----------------------------
(***************************************************************************)
(* sntp::Client::request_time (sntp_client.cpp 89-168): the caller starts  *)
(* asynchronous operations and waits for each, the workers of a Runtime    *)
(* complete them, and a timer ends what takes too long; and what the       *)
(* packets make of the time (sntp_client.h, Timestamp).                    *)
(***************************************************************************)
EXTENDS Integers

CONSTANTS
  Starts,      \* local times at which a request is sent, in ms of the epoch
  Delays,      \* ms a packet may travel, and a server may think
  Offsets,     \* ms a server may be ahead of the local clock
  Second,      \* 1000 ms
  Fraction,    \* 2^32: the fractions of a second are so many
  Range,       \* 2^32: the seconds since 1900 are counted modulo
  Since1900    \* offset_1900_to_1970() in seconds

VARIABLES
  step,      \* where the caller is
  waits,     \* the operation it waits for, as seen by the workers
  timer,     \* the deadline timer and its handler
  past,      \* is timer.expires_at() <= now()?
  socket,    \* "new", "open" or "closed"
  sample     \* the packet's way and what the caller makes of it

vars == <<step, waits, timer, past, socket, sample>>

Step ==
  {"resolve", "resolving", "resolved", "connect", "connecting", "connected",
   "send", "sending", "receive", "receiving", "received", "answer", "thrown"}
Sample ==
  [start : Starts, there : Delays, thinks : Delays, back : Delays, offset : Offsets]

TypeOK ==
  /\ step \in Step
  /\ waits \in {"nothing", "pending", "done", "failed"}
  /\ timer \in {"armed", "expired", "fired", "cancelled"}
  /\ past \in BOOLEAN
  /\ socket \in {"new", "open", "closed"}
  /\ sample \in Sample

Init ==
  /\ step = "resolve" /\ waits = "nothing"
  /\ timer = "armed" /\ past = FALSE
  /\ socket = "new"
  /\ sample \in Sample

-----------------------------------------------------------------------------
(* Time and the workers. *)

\* The deadline passes; unless it was cancelled the handler is queued.
Expire ==
  /\ ~past
  /\ past' = TRUE
  /\ timer' = IF timer = "armed" THEN "expired" ELSE timer
  /\ UNCHANGED <<step, waits, socket, sample>>

\* The handler of the timer cancels the resolver and closes the socket; what
\* is pending fails.  (The frame of a caller that has left is gone with all
\* that the handler would touch; what it does then is not modelled.)
TimerHandler ==
  /\ timer = "expired"
  /\ step \notin {"answer", "thrown"}
  /\ timer' = "fired"
  /\ socket' = IF socket = "new" THEN "new" ELSE "closed"
  /\ waits' = IF waits = "pending" THEN "failed" ELSE waits
  /\ UNCHANGED <<step, past, sample>>

\* An operation completes or fails; the network may also stay silent.
Complete ==
  /\ waits = "pending"
  /\ waits' \in {"done", "failed"}
  /\ UNCHANGED <<step, timer, past, socket, sample>>

-----------------------------------------------------------------------------
(* The caller. *)

Waiting == step \in {"resolving", "connecting", "sending", "receiving"}

\* Starts an operation and waits for its future.
Begin(from, to) == step = from /\ step' = to

Resolve ==
  /\ Begin("resolve", "resolving")
  /\ waits' = "pending"
  /\ UNCHANGED <<timer, past, socket, sample>>

\* async_connect opens a socket that is not open.
Connect ==
  /\ Begin("connect", "connecting")
  /\ waits' = "pending" /\ socket' = "open"
  /\ UNCHANGED <<timer, past, sample>>

\* On a closed socket an operation fails at once.
Transfer ==
  /\ \/ Begin("send", "sending")
     \/ Begin("receive", "receiving")
  /\ waits' = IF socket = "closed" THEN "failed" ELSE "pending"
  /\ UNCHANGED <<timer, past, socket, sample>>

After ==
  [resolving |-> "resolved", connecting |-> "connected",
   sending |-> "receive", receiving |-> "received"]

\* sync_or_throw: the future has a value, or an exception that goes on.
Wake ==
  /\ Waiting
  /\ waits \in {"done", "failed"}
  /\ step' = IF waits = "done" THEN After[step] ELSE "thrown"
  /\ waits' = "nothing"
  /\ UNCHANGED <<timer, past, socket, sample>>

\* Mutant: whether time is up is only asked before connecting.
CheckDeadline_Once ==
  /\ \/ step = "resolved" /\ step' = IF past THEN "thrown" ELSE "connect"
     \/ step = "connected" /\ step' = "send"
  /\ UNCHANGED <<waits, timer, past, socket, sample>>

\* "We are subject to a race here as the timeout handler might have been
\* triggered before we have started connecting the socket."
CheckDeadline ==
  /\ \/ step = "resolved" /\ step' = IF past THEN "thrown" ELSE "connect"
     \/ step = "connected" /\ step' = IF past THEN "thrown" ELSE "send"
  /\ UNCHANGED <<waits, timer, past, socket, sample>>

\* timer.cancel(), then the deadline is checked for the last time.
Answer ==
  /\ step = "received"
  /\ timer' = IF timer = "armed" THEN "cancelled" ELSE timer
  /\ step' = IF past THEN "thrown" ELSE "answer"
  /\ UNCHANGED <<waits, past, socket, sample>>

-----------------------------------------------------------------------------
Next ==
  \/ Expire \/ TimerHandler \/ Complete
  \/ Resolve \/ Connect \/ Transfer \/ Wake \/ CheckDeadline \/ Answer

-----------------------------------------------------------------------------
(* The time that is reported. *)

\* Timestamp::from_milliseconds_since_epoch: the fraction is the ms times the
\* largest fraction, for 1 / 1000 is 0.
FromMilliseconds(t) ==
  [seconds |-> (t \div Second + Since1900) % Range,
   fraction |-> ((t % Second) * (Fraction - 1)) % Fraction]

\* Mutant: the years before 1970 are not taken off.
ToMilliseconds_1900(stamp) == stamp.seconds * Second

\* Timestamp::to_milliseconds_since_epoch: the product is one of 32 bits.
ToMilliseconds(stamp) ==
  (stamp.seconds - Since1900) * Second
    + ((stamp.fraction * Second) % Fraction) \div (Fraction - 1)

\* What a server makes of its time.
ServerStamp(t) ==
  [seconds |-> (t \div Second + Since1900) % Range,
   fraction |-> ((t % Second) * Fraction) \div Second]

ServerReceives(s) == s.start + s.there + s.offset
ServerSends(s) == ServerReceives(s) + s.thinks
AfterTime(s) == s.start + s.there + s.thinks + s.back

Originate(s) == ToMilliseconds(FromMilliseconds(s.start))
Receive(s) == ToMilliseconds(ServerStamp(ServerReceives(s)))
Transmit(s) == ToMilliseconds(ServerStamp(ServerSends(s)))

Halved(d) == IF d >= 0 THEN d \div 2 ELSE -((-d) \div 2)

\* Mutant: the reply is taken to arrive when the request is sent.
Offset_Late(s) == Halved((Receive(s) - Originate(s)) + (Transmit(s) - s.start))

\* auto offset = ((receive - originate) + (transmit - after.time))/2, rounded
\* towards zero
Offset(s) == Halved((Receive(s) - Originate(s)) + (Transmit(s) - AfterTime(s)))

NtpTime(s) == AfterTime(s) + Offset(s)
RoundTripTime(s) == AfterTime(s) - s.start - (Transmit(s) - Receive(s))

\* How far the reported time is ahead of the server's, and how long the
\* packets have travelled.
Error(s) == NtpTime(s) - (AfterTime(s) + s.offset)
Travel(s) == s.there + s.back

-----------------------------------------------------------------------------
(***************************************************************************)
(* A caller that waits for the network has a handler to come that will     *)
(* wake it: the timeout can fire between any two of its steps, and the     *)
(* next operation may open the socket again that the handler has closed    *)
(* (sntp_client.cpp 124-146).                                              *)
(***************************************************************************)
WaitEnds ==
  step \in {"sending", "receiving"} /\ waits = "pending"
    => timer \in {"armed", "expired"}

(***************************************************************************)
(* The stamps lose their fractions of a second on the way, and no more:    *)
(* the time injected into the chipset is within half the travel and a      *)
(* second of the server's, however different the two ways are and however  *)
(* long the server thinks (sntp_client.cpp 152-166).                       *)
(***************************************************************************)
SampleIsTrueToASecond ==
  step = "answer" =>
    /\ 2 * Error(sample) <= Travel(sample) + Second + 1
    /\ -2 * Error(sample) <= Travel(sample) + 2 * Second + 1

(***************************************************************************)
(* The uncertainty that is injected with the time is the "Round-trip time  *)
(* of the last NTP transaction" (sntp_client.h 194) and bounds its error.  *)
(***************************************************************************)
UncertaintyCoversError ==
  step = "answer" =>
    Error(sample) <= RoundTripTime(sample) /\ -Error(sample) <= RoundTripTime(sample)

-----------------------------------------------------------------------------
(* Why this holds: the inductive invariant. *)

TimerInv ==
  /\ timer \in {"expired", "fired"} => past
  /\ past => timer # "armed"
  /\ timer = "cancelled" => step \in {"answer", "thrown"}

SocketInv ==
  /\ step \in {"connecting", "connected", "send", "sending", "receive", "receiving"} =>
       socket # "new"
  /\ step \in {"send", "sending", "receive", "receiving"} /\ timer = "fired" =>
       socket = "closed" /\ waits # "pending"

SntpInv ==
  /\ TypeOK
  /\ TimerInv
  /\ SocketInv
=============================================================================
