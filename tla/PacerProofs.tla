---------------------------- MODULE PacerProofs ----------------------------
(***************************************************************************)
(* Proofs about Pacer, for every playback speed, every sequence of         *)
(* timestamps and every bound on work and oversleep: no packet goes out    *)
(* early, lateness does not add up, and a stop lets one packet through.    *)
(***************************************************************************)
EXTENDS Pacer, TLAPS

(* Arithmetic. *)

\* Scaling by a speed keeps the order.
LEMMA ScaleMonotone ==
  ASSUME NEW a \in Int, NEW b \in Int, NEW n \in Nat, a <= b
  PROVE  a * n <= b * n
<1>1. (b - a) * n >= 0
  <2> DEFINE c == b - a
  <2>1. c \in Nat
    OBVIOUS
  <2> HIDE DEF c
  <2>2. c * n >= 0
    BY <2>1
  <2> QED BY <2>2 DEF c
<1> QED BY <1>1

\* The quotient rounded down.
LEMMA FloorBounds ==
  ASSUME NEW a \in Nat, NEW b \in Nat \ {0}
  PROVE  /\ a \div b \in Nat
         /\ (a \div b) * b <= a
         /\ a < (a \div b + 1) * b
<1>1. /\ a \div b \in Int
      /\ a = b * (a \div b) + (a % b)
      /\ a % b \in 0 .. b - 1
  OBVIOUS
<1> DEFINE q == a \div b
           r == a % b
<1> HIDE DEF q, r
<1>2. q \in Int /\ r \in Int /\ a = b * q + r /\ 0 <= r /\ r < b
  BY <1>1 DEF q, r
<1>3. q * b <= a /\ a < (q + 1) * b
  BY <1>2
<1>4. q >= 0
  <2>1. CASE q <= -1
    <3>1. q * b <= (-1) * b
      BY <1>2, <2>1, ScaleMonotone
    <3> QED BY <1>2, <3>1
  <2> QED BY <1>2, <2>1
<1> QED BY <1>2, <1>3, <1>4 DEF q

\* static_cast towards zero: never more than one below the exact quotient, and
\* not above it unless that is negative.
LEMMA TruncatedBounds ==
  ASSUME NEW a \in Int, NEW b \in Nat \ {0}
  PROVE  /\ Truncated(a, b) \in Int
         /\ a < (Truncated(a, b) + 1) * b
         /\ Truncated(a, b) > 0 => Truncated(a, b) * b <= a
<1>1. CASE a >= 0
  <2>1. Truncated(a, b) = a \div b /\ a \in Nat
    BY <1>1 DEF Truncated
  <2> QED BY <2>1, FloorBounds
<1>2. CASE a < 0
  <2> DEFINE c == -a
             t == c \div b
  <2>1. Truncated(a, b) = -t /\ c \in Nat
    BY <1>2 DEF Truncated
  <2> HIDE DEF c
  <2>2. t \in Nat /\ t * b <= c
    BY <2>1, FloorBounds
  <2> HIDE DEF t
  <2>3. (-t + 1) * b = b - t * b
    BY <2>2
  <2>4. -c = a
    BY DEF c
  <2>5. a < (-t + 1) * b
    BY <2>1, <2>2, <2>3, <2>4
  <2> QED BY <2>1, <2>2, <2>5
<1> QED BY <1>1, <1>2

-----------------------------------------------------------------------------
(* The inductive invariant. *)

\* When the packet before was sent, 0 if there is none.
LastAt == IF last = None THEN 0 ELSE last.at

\* The origins are the first packet paced and stay so.
OriginInv ==
  /\ first = None <=> replay_origin = None
  /\ first # None =>
       replay_origin = first.timestamp /\ wall_origin = first.at /\ first.at <= now
  /\ last # None => first # None
  /\ ppc = "sleep" => first # None
  /\ last = None /\ ppc # "sleep" => first = None

\* After the stop, one packet may be on its way.
StopInv ==
  /\ after_stop <= 1
  /\ after_stop = 1 => stop_requested /\ ppc \in {"loop", "done"}

\* The packet being slept for is due at the latest when the sleep is over, up
\* to truncation.
SleepLongEnough ==
  ppc = "sleep" =>
    (timestamp - first.timestamp) * playback_speed.den
      < (wake - first.at + 1) * playback_speed.num

\* The thread is at work for at most MaxWork after a send, and sleeps until
\* the packet is due, or not at all if that is over.
Due(t) ==
  (t - MaxOversleep - first.at) * playback_speed.num
    <= (timestamp - first.timestamp) * playback_speed.den

DeadlineInv ==
  /\ ppc # "done" => now <= deadline
  /\ ppc \in {"loop", "build"} => deadline = LastAt + MaxWork
  /\ ppc = "sleep" =>
       \/ Due(deadline)
       \/ last # None /\ deadline <= last.at + MaxWork + MaxOversleep

PacerInv ==
  /\ TypeOK
  /\ OriginInv
  /\ StopInv
  /\ SleepLongEnough
  /\ DeadlineInv
  /\ NeverEarly
  /\ NoDrift
  /\ Punctual

-----------------------------------------------------------------------------
\* The pacer starts in the invariant.
LEMMA PacerInit == Init => PacerInv
<1> SUFFICES ASSUME Init PROVE PacerInv
  OBVIOUS
<1>1. TypeOK
  BY PacerAssumption DEF Init, TypeOK
<1>2. OriginInv /\ StopInv /\ SleepLongEnough /\ NeverEarly /\ NoDrift /\ Punctual
  BY DEF Init, OriginInv, StopInv, SleepLongEnough, NeverEarly, NoDrift, Punctual
<1>3. DeadlineInv
  BY PacerAssumption DEF Init, DeadlineInv, LastAt
<1> QED BY <1>1, <1>2, <1>3 DEF PacerInv

\* The types that the arithmetic below needs.
LEMMA PacerTypes ==
  ASSUME TypeOK
  PROVE  /\ playback_speed.num \in Nat \ {0} /\ playback_speed.den \in Nat \ {0}
         /\ MaxWork \in Nat /\ MaxOversleep \in Nat
         /\ now \in Nat /\ timestamp \in Nat /\ wake \in Nat /\ deadline \in Nat
         /\ first # None => first.timestamp \in Nat /\ first.at \in Nat
         /\ last # None => /\ last.timestamp \in Nat /\ last.at \in Nat
                           /\ last.before \in Nat
BY PacerAssumption DEF TypeOK

\* The steps that send nothing and compute nothing.
QuietStep == Peek \/ LoopExit \/ RequestStop \/ Tick

\* They preserve the invariant: a stop keeps the loop from taking a packet,
\* and time does not pass beyond the deadline.
LEMMA QuietStepInv == PacerInv /\ QuietStep => PacerInv'
<1> SUFFICES ASSUME PacerInv, QuietStep PROVE PacerInv'
  OBVIOUS
<1>1. /\ UNCHANGED <<playback_speed, replay_origin, wall_origin, wake, deadline,
                     first, last, spaced, after_stop>>
      /\ \/ /\ ppc = "loop" /\ ppc' = "build" /\ ~stop_requested
            /\ timestamp' \in Timestamps /\ UNCHANGED <<now, stop_requested>>
         \/ /\ ppc = "loop" /\ ppc' = "done"
            /\ UNCHANGED <<now, timestamp, stop_requested>>
         \/ /\ stop_requested' = TRUE /\ ~stop_requested
            /\ UNCHANGED <<now, timestamp, ppc>>
         \/ /\ now' = now + 1 /\ now < deadline
            /\ UNCHANGED <<timestamp, ppc, stop_requested>>
  BY DEF QuietStep, Peek, LoopExit, RequestStop, Tick, originVars, historyVars
<1>2. now \in Nat /\ deadline \in Nat
  BY DEF PacerInv, TypeOK
<1>3. TypeOK'
  <2>1. timestamp' \in Nat /\ now' \in Nat
    <3>1. Timestamps \subseteq Nat
      BY PacerAssumption
    <3>2. timestamp \in Nat
      BY DEF PacerInv, TypeOK
    <3>3. timestamp' \in Timestamps \/ timestamp' = timestamp
      BY <1>1
    <3>4. now' = now \/ now' = now + 1
      BY <1>1
    <3>5. timestamp' \in Nat
      BY <3>1, <3>2, <3>3
    <3>6. now' \in Nat
      BY <1>2, <3>4
    <3> QED BY <3>5, <3>6
  <2>2. stop_requested' \in BOOLEAN
    BY <1>1 DEF PacerInv, TypeOK
  <2> QED BY <1>1, <2>1, <2>2 DEF PacerInv, TypeOK
<1>4. OriginInv'
  <2>1. first # None => first.at \in Nat
    BY PacerTypes DEF PacerInv
  <2> QED BY <1>1, <1>2, <2>1 DEF PacerInv, OriginInv
<1>5. StopInv'
  BY <1>1 DEF PacerInv, StopInv
<1>6. SleepLongEnough'
  BY <1>1 DEF PacerInv, SleepLongEnough
<1>7. DeadlineInv'
  BY <1>1, <1>2 DEF PacerInv, DeadlineInv, LastAt, Due
<1>8. NeverEarly' /\ NoDrift' /\ Punctual'
  BY <1>1 DEF PacerInv, NeverEarly, NoDrift, Punctual, WithinDue
<1> QED BY <1>3, <1>4, <1>5, <1>6, <1>7, <1>8 DEF PacerInv

\* get_delay(): the delay reaches from now to the packet's time on the scaled
\* line that starts at the first packet, and is 0 if that has passed.
LEMMA GetDelayInv == PacerInv /\ GetDelay => PacerInv'
<1> SUFFICES ASSUME PacerInv, GetDelay PROVE PacerInv'
  OBVIOUS
<1> DEFINE ts == replay_origin'
           at == wall_origin'
           a == (timestamp - ts) * playback_speed.den
           q == Truncated(a, playback_speed.num)
           delay == calculate_delay(timestamp, ts, at)
<1>1. /\ ppc = "build" /\ ppc' = "sleep"
      /\ ts = IF replay_origin = None THEN timestamp ELSE replay_origin
      /\ at = IF replay_origin = None THEN now ELSE wall_origin
      /\ wake' = now + delay
      /\ deadline' = now + delay + MaxOversleep
      /\ first' = IF first = None THEN [timestamp |-> timestamp, at |-> now]
                  ELSE first
      /\ UNCHANGED <<now, playback_speed, timestamp, stop_requested, last, spaced,
                     after_stop>>
  BY DEF GetDelay, Sleep, RecordFirst
<1>2. /\ playback_speed.num \in Nat \ {0} /\ playback_speed.den \in Nat \ {0}
      /\ MaxWork \in Nat /\ MaxOversleep \in Nat
      /\ now \in Nat /\ timestamp \in Nat /\ deadline \in Nat
  BY PacerTypes DEF PacerInv
<1>3. /\ first' # None /\ first'.timestamp = ts /\ first'.at = at
      /\ ts \in Nat /\ at \in Nat /\ at <= now
      /\ first' \in [timestamp : Nat, at : Nat]
  <2>1. CASE first = None
    <3>1. first' = [timestamp |-> timestamp, at |-> now] /\ replay_origin = None
      BY <1>1, <2>1 DEF PacerInv, OriginInv
    <3>2. None \notin [timestamp : Nat, at : Nat]
      BY PacerAssumption
    <3> QED BY <1>1, <1>2, <3>1, <3>2
  <2>2. CASE first # None
    <3>1. /\ first' = first /\ ts = replay_origin /\ at = wall_origin
          /\ replay_origin = first.timestamp /\ wall_origin = first.at
          /\ first.at <= now
      BY <1>1, <2>2 DEF PacerInv, OriginInv
    <3>2. first \in [timestamp : Nat, at : Nat]
      BY <2>2 DEF PacerInv, TypeOK
    <3> QED BY <2>2, <3>1, <3>2
  <2> QED BY <2>1, <2>2
<1> HIDE DEF ts, at
<1>4. a \in Int
  BY <1>2, <1>3
<1>5. q \in Int /\ a < (q + 1) * playback_speed.num
      /\ (q > 0 => q * playback_speed.num <= a)
  <2> HIDE DEF a
  <2> QED BY <1>2, <1>4, TruncatedBounds
<1>6. delay = IF at + q <= now THEN 0 ELSE (at + q) - now
  BY DEF calculate_delay, scaled_offset
<1> HIDE DEF q, delay
<1>7. delay \in Nat /\ wake' \in Nat /\ deadline' \in Nat /\ at + q <= wake'
  BY <1>1, <1>2, <1>3, <1>5, <1>6
<1>8. deadline' = wake' + MaxOversleep
  BY <1>1, <1>2, <1>7
<1>9. TypeOK'
  BY <1>1, <1>3, <1>7 DEF PacerInv, TypeOK, ts, at
<1>10. OriginInv'
  <2>1. ts # None
    BY <1>3, PacerAssumption
  <2> QED BY <1>1, <1>3, <2>1 DEF PacerInv, OriginInv, ts, at
<1>11. StopInv'
  BY <1>1 DEF PacerInv, StopInv
<1>12. SleepLongEnough'
  <2>1. (q + 1) * playback_speed.num <= (wake' - at + 1) * playback_speed.num
    <3>1. q \in Int /\ at \in Int /\ wake' \in Int /\ at + q <= wake'
      BY <1>3, <1>5, <1>7
    <3>2. \A x, y, w \in Int : x + y <= w => y + 1 <= w - x + 1
      OBVIOUS
    <3>3. q + 1 <= wake' - at + 1
      BY <3>1, <3>2
    <3> QED BY <1>2, <3>1, <3>3, ScaleMonotone
  <2> DEFINE c == (q + 1) * playback_speed.num
             d == (wake' - at + 1) * playback_speed.num
  <2>2. c \in Int /\ d \in Int
    BY <1>2, <1>3, <1>5, <1>7
  <2>3. a < c /\ c <= d
    BY <1>5, <2>1
  <2>4. a < d
    <3> HIDE DEF a, c, d
    <3> QED BY <1>4, <2>2, <2>3
  <2> QED BY <1>1, <1>3, <2>4 DEF SleepLongEnough
<1>13. DeadlineInv'
  <2>1. now <= deadline'
    BY <1>1, <1>2, <1>7
  <2>2. CASE at + q > now
    <3>1. q > 0 /\ deadline' - MaxOversleep - at = q
      BY <1>1, <1>2, <1>3, <1>5, <1>6, <2>2
    <3>2. q * playback_speed.num <= a
      BY <1>5, <3>1
    <3>3. Due(deadline)'
      BY <1>1, <1>3, <3>1, <3>2 DEF Due
    <3> QED BY <1>1, <2>1, <3>3 DEF DeadlineInv
  <2>3. CASE at + q <= now /\ last # None
    <3>1. now <= deadline /\ deadline = last.at + MaxWork /\ last.at \in Nat
      BY <1>1, <2>3, PacerTypes DEF PacerInv, DeadlineInv, LastAt
    <3>2. deadline' = now + MaxOversleep
      BY <1>1, <1>2, <1>6, <2>3
    <3>3. deadline' <= last.at + MaxWork + MaxOversleep
      BY <1>2, <3>1, <3>2
    <3> QED BY <1>1, <2>1, <2>3, <3>3 DEF DeadlineInv
  <2>4. CASE at + q <= now /\ last = None
    <3>1. replay_origin = None
      BY <1>1, <2>4 DEF PacerInv, OriginInv
    <3>2. ts = timestamp /\ at = now
      BY <1>1, <3>1
    <3>3. deadline' = now + MaxOversleep
      BY <1>1, <1>2, <1>6, <2>4
    <3>4. deadline' - MaxOversleep - at = 0 /\ timestamp - ts = 0
      BY <1>2, <3>2, <3>3
    <3>5. Due(deadline)'
      BY <1>1, <1>2, <1>3, <3>4 DEF Due
    <3> QED BY <1>1, <2>1, <3>5 DEF DeadlineInv
  <2> QED BY <1>2, <1>3, <1>5, <2>2, <2>3, <2>4
<1>14. NeverEarly' /\ NoDrift' /\ Punctual'
  BY <1>1 DEF PacerInv, OriginInv, NeverEarly, NoDrift, Punctual, WithinDue
<1> QED BY <1>9, <1>10, <1>11, <1>12, <1>13, <1>14 DEF PacerInv

\* A packet due early enough after one that was sent in time is in time, even
\* if it goes out as soon as the thread gets to it.
LEMMA SpacingAddsUp ==
  ASSUME NEW num \in Nat, NEW den \in Nat,
         NEW before \in Int, NEW t \in Int, NEW o \in Int,
         NEW w \in Int, NEW v \in Int, NEW t0 \in Int, NEW t1 \in Int,
         NEW t2 \in Int,
         (before - v - o) * num <= (t1 - t0) * den,
         (t2 - t1) * den >= (w + v) * num,
         t <= before + w + v
  PROVE  (t - v - o) * num <= (t2 - t0) * den
<1>1. (t - v - o) * num <= (before + w - o) * num
  <2>1. t - v - o <= before + w - o
    OBVIOUS
  <2> QED BY <2>1, ScaleMonotone
<1>2. (before + w - o) * num = (before - v - o) * num + (w + v) * num
  OBVIOUS
<1>3. (t2 - t0) * den = (t1 - t0) * den + (t2 - t1) * den
  OBVIOUS
<1> DEFINE x == (before - v - o) * num
           y == (w + v) * num
           x2 == (t1 - t0) * den
           y2 == (t2 - t1) * den
           z == (t - v - o) * num
<1>4. x \in Int /\ y \in Int /\ x2 \in Int /\ y2 \in Int /\ z \in Int
  OBVIOUS
<1>5. z <= x + y /\ x <= x2 /\ y <= y2
  BY <1>1, <1>2
<1>6. z <= x2 + y2
  <2> HIDE DEF x, y, x2, y2, z
  <2> QED BY <1>4, <1>5
<1> QED BY <1>3, <1>6

\* The packet is sent between the end of its sleep and the deadline.
LEMMA WakeAndSendInv == PacerInv /\ WakeAndSend => PacerInv'
<1> SUFFICES ASSUME PacerInv, WakeAndSend PROVE PacerInv'
  OBVIOUS
<1> DEFINE num == playback_speed.num
           den == playback_speed.den
           o == first.at
           t0 == first.timestamp
<1>1. /\ ppc = "sleep" /\ now >= wake /\ ppc' = "loop"
      /\ deadline' = now + MaxWork
      /\ last' = [timestamp |-> timestamp, at |-> now,
                  before |-> IF last = None THEN 0 ELSE last.at]
      /\ spaced' => /\ spaced
                    /\ \/ last = None
                       \/ DueApart(last.timestamp, timestamp, MaxWork + MaxOversleep)
      /\ spaced' \in BOOLEAN
      /\ after_stop' = IF stop_requested THEN after_stop + 1 ELSE after_stop
      /\ UNCHANGED <<now, playback_speed, replay_origin, wall_origin, timestamp,
                     wake, stop_requested, first>>
  BY DEF WakeAndSend, originVars
<1>2. /\ num \in Nat \ {0} /\ den \in Nat \ {0}
      /\ MaxWork \in Nat /\ MaxOversleep \in Nat
      /\ now \in Nat /\ timestamp \in Nat /\ wake \in Nat /\ deadline \in Nat
      /\ o \in Nat /\ t0 \in Nat /\ first # None
      /\ last # None => last.timestamp \in Nat /\ last.at \in Nat
  BY <1>1, PacerTypes DEF PacerInv, OriginInv
<1>3. /\ last' \in [timestamp : Nat, at : Nat, before : Nat]
      /\ last'.timestamp = timestamp /\ last'.at = now
      /\ last'.before = LastAt
      /\ last' # None
  <2>1. LastAt \in Nat
    BY <1>2 DEF LastAt
  <2>2. last' = [timestamp |-> timestamp, at |-> now, before |-> LastAt]
    BY <1>1 DEF LastAt
  <2>3. last' \in [timestamp : Nat, at : Nat, before : Nat]
    BY <1>2, <2>1, <2>2
  <2> QED BY <2>2, <2>3, PacerAssumption
<1>4. TypeOK'
  <2>1. deadline' \in Nat /\ after_stop' \in Nat
    BY <1>1, <1>2 DEF PacerInv, TypeOK
  <2> QED BY <1>1, <1>3, <2>1 DEF PacerInv, TypeOK
<1>5. OriginInv'
  BY <1>1, <1>2, <1>3 DEF PacerInv, OriginInv
<1>6. StopInv'
  BY <1>1 DEF PacerInv, StopInv, TypeOK
<1>7. SleepLongEnough'
  BY <1>1 DEF SleepLongEnough
<1>8. DeadlineInv'
  BY <1>1, <1>2, <1>3 DEF DeadlineInv, LastAt
<1>9. NeverEarly'
  <2>1. (timestamp - t0) * den < (wake - o + 1) * num
    BY <1>1 DEF PacerInv, SleepLongEnough
  <2>2. (wake - o + 1) * num <= (now - o + 1) * num
    <3>1. wake - o + 1 <= now - o + 1
      BY <1>1, <1>2
    <3> HIDE DEF num, o
    <3> QED BY <1>2, <3>1, ScaleMonotone
  <2> DEFINE x == (timestamp - t0) * den
             y == (wake - o + 1) * num
             z == (now - o + 1) * num
  <2>3. x \in Int /\ y \in Int /\ z \in Int
    <3> HIDE DEF num, den, o, t0
    <3> QED BY <1>2
  <2>4. x < y /\ y <= z
    BY <2>1, <2>2
  <2>5. x < z
    <3> HIDE DEF x, y, z
    <3> QED BY <2>3, <2>4
  <2> QED BY <1>1, <1>3, <2>5 DEF NeverEarly
<1>10. \/ WithinDue(last.at, MaxOversleep)'
       \/ last # None /\ now <= last.at + MaxWork + MaxOversleep
  <2>1. now <= deadline
    BY <1>1 DEF PacerInv, DeadlineInv
  <2>2. CASE last # None /\ deadline <= last.at + MaxWork + MaxOversleep
    BY <1>2, <2>1, <2>2
  <2>3. CASE Due(deadline)
    <3>1. (deadline - MaxOversleep - o) * num <= (timestamp - t0) * den
      BY <2>3 DEF Due
    <3>2. (now - MaxOversleep - o) * num <= (deadline - MaxOversleep - o) * num
      <4>1. now - MaxOversleep - o <= deadline - MaxOversleep - o
        BY <1>2, <2>1
      <4> HIDE DEF num, o
      <4> QED BY <1>2, <4>1, ScaleMonotone
    <3> DEFINE x == (timestamp - t0) * den
               y == (deadline - MaxOversleep - o) * num
               z == (now - MaxOversleep - o) * num
    <3>3. x \in Int /\ y \in Int /\ z \in Int
      <4> HIDE DEF num, den, o, t0
      <4> QED BY <1>2
    <3>4. y <= x /\ z <= y
      BY <3>1, <3>2
    <3>5. z <= x
      <4> HIDE DEF x, y, z
      <4> QED BY <3>3, <3>4
    <3> QED BY <1>1, <1>3, <3>5 DEF WithinDue
  <2> QED BY <1>1, <2>2, <2>3 DEF PacerInv, DeadlineInv
<1>11. NoDrift'
  BY <1>1, <1>3, <1>10 DEF NoDrift, LastAt
<1>12. Punctual'
  <2> SUFFICES ASSUME spaced', last # None,
                      now <= last.at + MaxWork + MaxOversleep
               PROVE  WithinDue(last.at, MaxOversleep)'
    BY <1>10 DEF Punctual
  <2>1. (last.at - MaxOversleep - o) * num <= (last.timestamp - t0) * den
    BY <1>1 DEF PacerInv, Punctual, WithinDue
  <2>2. (timestamp - last.timestamp) * den >= (MaxWork + MaxOversleep) * num
    BY <1>1 DEF DueApart
  <2>3. (now - MaxOversleep - o) * num <= (timestamp - t0) * den
    <3> DEFINE b == last.at
               t1 == last.timestamp
    <3>1. b \in Int /\ t1 \in Int /\ now <= b + MaxWork + MaxOversleep
      BY <1>2
    <3> HIDE DEF num, den, o, t0, b, t1
    <3>2. /\ (b - MaxOversleep - o) * num <= (t1 - t0) * den
          /\ (timestamp - t1) * den >= (MaxWork + MaxOversleep) * num
      BY <2>1, <2>2 DEF b, t1
    <3> QED BY <1>2, <3>1, <3>2, SpacingAddsUp
  <2> QED BY <1>1, <1>3, <2>3 DEF WithinDue
<1> QED BY <1>4, <1>5, <1>6, <1>7, <1>8, <1>9, <1>11, <1>12 DEF PacerInv

\* Every step preserves the invariant.
LEMMA PacerStepInv == PacerInv /\ [Next]_vars => PacerInv'
<1> SUFFICES ASSUME PacerInv, [Next]_vars PROVE PacerInv'
  OBVIOUS
<1>1. CASE QuietStep
  BY <1>1, QuietStepInv
<1>2. CASE GetDelay
  BY <1>2, GetDelayInv
<1>3. CASE WakeAndSend
  BY <1>3, WakeAndSendInv
<1>4. CASE UNCHANGED vars
  BY <1>4 DEF PacerInv, TypeOK, OriginInv, StopInv, SleepLongEnough, DeadlineInv,
    LastAt, Due, NeverEarly, NoDrift, Punctual, WithinDue, vars, originVars,
    historyVars
<1> QED BY <1>1, <1>2, <1>3, <1>4 DEF Next, Over, QuietStep

\* The pacer is always in the invariant.
LEMMA PacerAlwaysInv == Spec => []PacerInv
BY PacerInit, PacerStepInv, PTL DEF Spec

-----------------------------------------------------------------------------
(* The theorems. *)

\* The pacer's state keeps its types; in particular no delay is negative.
THEOREM TypeCorrect == Spec => []TypeOK
BY PacerAlwaysInv, PTL DEF PacerInv

\* No packet goes out before its time, at any speed.
THEOREM NeverEarlyAlways == Spec => []NeverEarly
BY PacerAlwaysInv, PTL DEF PacerInv

\* Lateness does not add up over the packets of a replay.
THEOREM NoDriftAlways == Spec => []NoDrift
BY PacerAlwaysInv, PTL DEF PacerInv

\* A replay whose packets are far enough apart is never late by more than one
\* oversleep, however long it is.
THEOREM PunctualAlways == Spec => []Punctual
BY PacerAlwaysInv, PTL DEF PacerInv

\* At most one packet is sent after a stop.
THEOREM OnePacketAfterStopAlways == Spec => []OnePacketAfterStop
BY PacerAlwaysInv, PTL DEF PacerInv, StopInv, OnePacketAfterStop

=============================================================================
