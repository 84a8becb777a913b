------------------------------- MODULE Pacer -------------------------------
(***************************************************************************)
(* imr::mold::downstream::Pacer and the loop of Feed::start() that sleeps  *)
(* for the delays it computes, against a clock that counts nanoseconds.    *)
(* Time passes while a packet is built and while the thread sleeps, and    *)
(* sleep_for() may sleep too long; it never sleeps too short.              *)
(*                                                                         *)
(* A playback speed is a fraction num / den.  The code divides as double   *)
(* and truncates; for timestamps within a day and speeds that a double     *)
(* represents this is the truncated exact quotient.                        *)
(***************************************************************************)
EXTENDS Integers

CONSTANTS
  Timestamps,    \* timestamps of the packets' first messages
  Speeds,        \* playback speeds
  MaxWork,       \* bound: time between a send and the next get_delay()
  MaxOversleep,  \* bound: how much too long sleep_for() sleeps
  MaxTime,       \* bound: the clock
  None           \* std::nullopt

ASSUME PacerAssumption ==
  /\ Timestamps \subseteq Nat
  /\ Speeds \subseteq [num : Nat \ {0}, den : Nat \ {0}]
  /\ MaxWork \in Nat
  /\ MaxOversleep \in Nat
  /\ MaxTime \in Nat
  /\ None \notin Int \cup [timestamp : Nat, at : Nat]
                     \cup [timestamp : Nat, at : Nat, before : Nat]

VARIABLES
  now,             \* Clock::now()
  playback_speed,  \* playback_speed_
  replay_origin,   \* replay_origin_
  wall_origin,     \* wall_origin_
  ppc,             \* where the downstream thread is
  timestamp,       \* the timestamp peeked for the packet
  wake,            \* when its sleep is over
  deadline,        \* by when the thread takes its next step
  stop_requested,  \* the stop token
  first,           \* the first timestamp paced, and when (history)
  last,            \* the last packet sent: timestamp, when, and when the one
                   \* before it was sent (history)
  spaced,          \* all packets were due far enough apart (history)
  after_stop       \* packets sent since the stop (history)

originVars == <<playback_speed, replay_origin, wall_origin>>
historyVars == <<first, last, spaced, after_stop>>
vars == <<now, originVars, ppc, timestamp, wake, deadline, stop_requested,
          historyVars>>

Init ==
  /\ now = 0
  /\ playback_speed \in Speeds
  /\ replay_origin = None
  /\ wall_origin = 0
  /\ ppc = "loop"
  /\ timestamp = 0
  /\ wake = 0
  /\ deadline = MaxWork
  /\ stop_requested = FALSE
  /\ first = None
  /\ last = None
  /\ spaced = TRUE
  /\ after_stop = 0

-----------------------------------------------------------------------------
(* Pacer::get_delay(). *)

\* static_cast<int64_t>: towards zero.
Truncated(a, b) == IF a >= 0 THEN a \div b ELSE -((-a) \div b)

\* Mutant: the offset is multiplied by the speed.
scaled_offset_inverted(replay_offset) ==
  Truncated(replay_offset * playback_speed.num, playback_speed.den)

scaled_offset(replay_offset) ==
  Truncated(replay_offset * playback_speed.den, playback_speed.num)

\* Mutant: a send time in the past is not caught.
calculate_delay_signed(packet_timestamp, replay, wall) ==
  wall + scaled_offset(packet_timestamp - replay) - now

calculate_delay(packet_timestamp, replay, wall) ==
  LET send_at == wall + scaled_offset(packet_timestamp - replay) IN
    IF send_at <= now THEN 0 ELSE send_at - now

\* The thread sleeps for a delay.
Sleep(delay) ==
  /\ wake' = now + delay
  /\ deadline' = now + delay + MaxOversleep
  /\ ppc' = "sleep"

RecordFirst ==
  first' = IF first = None THEN [timestamp |-> timestamp, at |-> now] ELSE first

\* Mutant: the origins are those of the packet before.
GetDelayRelative ==
  /\ ppc = "build"
  /\ LET replay == IF last = None THEN timestamp ELSE last.timestamp
         wall == IF last = None THEN now ELSE last.at
     IN Sleep(calculate_delay(timestamp, replay, wall))
  /\ RecordFirst
  /\ UNCHANGED <<now, originVars, timestamp, stop_requested, last, spaced,
                 after_stop>>

GetDelay ==
  /\ ppc = "build"
  /\ replay_origin' = IF replay_origin = None THEN timestamp ELSE replay_origin
  /\ wall_origin' = IF replay_origin = None THEN now ELSE wall_origin
  /\ Sleep(calculate_delay(timestamp, replay_origin', wall_origin'))
  /\ RecordFirst
  /\ UNCHANGED <<now, playback_speed, timestamp, stop_requested, last, spaced,
                 after_stop>>

-----------------------------------------------------------------------------
(* The loop of Feed::start(). *)

\* Mutant: the stop token is not looked at.
PeekDeaf ==
  /\ ppc = "loop"
  /\ timestamp' \in Timestamps
  /\ ppc' = "build"
  /\ UNCHANGED <<now, originVars, wake, deadline, stop_requested, historyVars>>

Peek ==
  /\ ppc = "loop"
  /\ ~stop_requested
  /\ timestamp' \in Timestamps
  /\ ppc' = "build"
  /\ UNCHANGED <<now, originVars, wake, deadline, stop_requested, historyVars>>

\* The file has ended or the feed was stopped.
LoopExit ==
  /\ ppc = "loop"
  /\ ppc' = "done"
  /\ UNCHANGED <<now, originVars, timestamp, wake, deadline, stop_requested,
                 historyVars>>

\* Packets with timestamps t1 and t2 are due at least d apart.
DueApart(t1, t2, d) ==
  (t2 - t1) * playback_speed.den >= d * playback_speed.num

\* sleep_for() returns, the packet is sent and the loop goes on.
WakeAndSend ==
  /\ ppc = "sleep"
  /\ now >= wake
  /\ ppc' = "loop"
  /\ deadline' = now + MaxWork
  /\ last' = [timestamp |-> timestamp, at |-> now,
              before |-> IF last = None THEN 0 ELSE last.at]
  /\ spaced' = (/\ spaced
                /\ \/ last = None
                   \/ DueApart(last.timestamp, timestamp, MaxWork + MaxOversleep))
  /\ after_stop' = IF stop_requested THEN after_stop + 1 ELSE after_stop
  /\ UNCHANGED <<now, originVars, timestamp, wake, stop_requested, first>>

RequestStop ==
  /\ ~stop_requested
  /\ stop_requested' = TRUE
  /\ UNCHANGED <<now, originVars, ppc, timestamp, wake, deadline, historyVars>>

\* Time passes, but the thread is not kept waiting beyond its deadline.
Tick ==
  /\ ppc # "done"
  /\ now < deadline
  /\ now < MaxTime
  /\ now' = now + 1
  /\ UNCHANGED <<originVars, ppc, timestamp, wake, deadline, stop_requested,
                 historyVars>>

\* The thread has ended, or the clock has reached its bound.
Over == (ppc = "done" \/ now = MaxTime) /\ UNCHANGED vars

Next ==
  \/ Peek \/ LoopExit \/ GetDelay \/ WakeAndSend
  \/ RequestStop \/ Tick \/ Over

Spec == Init /\ [][Next]_vars

-----------------------------------------------------------------------------
(* Properties. *)

TypeOK ==
  /\ now \in Nat
  /\ playback_speed \in Speeds
  /\ replay_origin \in Nat \cup {None}
  /\ wall_origin \in Nat
  /\ ppc \in {"loop", "build", "sleep", "done"}
  /\ timestamp \in Nat
  /\ wake \in Nat
  /\ deadline \in Nat
  /\ stop_requested \in BOOLEAN
  /\ first = None \/ first \in [timestamp : Nat, at : Nat]
  /\ last = None \/ last \in [timestamp : Nat, at : Nat, before : Nat]
  /\ spaced \in BOOLEAN
  /\ after_stop \in Nat

\* A packet is never sent ahead of its time on the scaled time line that
\* starts at the first paced packet; truncation makes it less than a
\* nanosecond early.
NeverEarly ==
  last # None =>
    (last.timestamp - first.timestamp) * playback_speed.den
      < (last.at - first.at + 1) * playback_speed.num

\* t is at most the time at which the last packet was due plus d.
WithinDue(t, d) ==
  (t - d - first.at) * playback_speed.num
    <= (last.timestamp - first.timestamp) * playback_speed.den

\* Delays do not add up: a packet goes out when it is due or, if the feed was
\* late, at once, whatever happened before the packet that precedes it.
NoDrift ==
  last # None =>
    \/ WithinDue(last.at, MaxOversleep)
    \/ last.at <= last.before + MaxWork + MaxOversleep

\* A feed that is never given more to do than it has time for keeps its
\* schedule to the end: however many packets it has sent, the last one was
\* late by no more than one oversleep.
Punctual == last # None /\ spaced => WithinDue(last.at, MaxOversleep)

\* A stop is not seen while the feed sleeps for a packet, but that packet is
\* the last.
OnePacketAfterStop == after_stop <= 1

=============================================================================
