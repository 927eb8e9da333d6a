--------------------------- MODULE TimedWaitProofs ---------------------------
(***************************************************************************)
(* What holds of a wait for every timeout, every time at which it starts,  *)
(* every length of a second and every width of useconds_t.                 *)
(***************************************************************************)
EXTENDS TimedWait, WeakFairness, TLAPS

(***************************************************************************)
(* Arithmetic.                                                             *)
(***************************************************************************)
LEMMA Division ==
    ASSUME NEW a \in Nat, NEW m \in Nat \ {0}
    PROVE  /\ a \div m \in Nat /\ a % m \in 0..(m - 1)
           /\ a = (a \div m) * m + (a % m)
  OBVIOUS

\* A larger number is beyond a multiple of m, or has a larger remainder.
LEMMA Wraps ==
    ASSUME NEW a \in Nat, NEW b \in Nat, NEW m \in Nat \ {0},
           a < b, b % m <= a % m
    PROVE  b \div m > a \div m
<1> DEFINE p == a \div m
           q == b \div m
<1>1. p \in Nat /\ q \in Nat /\ a = p * m + (a % m) /\ b = q * m + (b % m)
  BY Division
<1>2. p * m < q * m
  BY <1>1, Division
<1>3. SUFFICES ASSUME q <= p PROVE FALSE
  BY <1>1
<1>4. q * m <= p * m
  BY <1>1, <1>3
<1> QED
  BY <1>1, <1>2, <1>4

LEMMA DivMonotone ==
    ASSUME NEW a \in Nat, NEW b \in Nat, NEW m \in Nat \ {0}, a <= b
    PROVE  a \div m <= b \div m
<1> DEFINE p == a \div m
           q == b \div m
<1>1. p \in Nat /\ q \in Nat /\ a = p * m + (a % m) /\ b = q * m + (b % m)
      /\ a % m \in 0..(m - 1) /\ b % m \in 0..(m - 1)
  BY Division
<1>2. SUFFICES ASSUME q + 1 <= p PROVE FALSE
  BY <1>1
<1>3. (q + 1) * m <= p * m
  BY <1>1, <1>2
<1>4. (q + 1) * m = q * m + m
  BY <1>1
<1> QED
  BY <1>1, <1>3, <1>4

\* Between two numbers on the same side of each multiple, remainders are in order.
LEMMA NoWrap ==
    ASSUME NEW a \in Nat, NEW b \in Nat, NEW c \in Nat, NEW m \in Nat \ {0},
           a <= b, b <= c, ~(c \div m > a \div m)
    PROVE  a % m <= b % m
<1> DEFINE p == a \div m
           q == b \div m
           r == c \div m
<1>1. p \in Nat /\ q \in Nat /\ r \in Nat
  BY Division
<1>2. /\ a % m \in Nat /\ a = p * m + (a % m)
      /\ b % m \in Nat /\ b = q * m + (b % m)
  BY Division
<1>3. p <= q /\ q <= r
  BY DivMonotone
<1> HIDE DEF p, q, r
<1>4. ~(r > p)
  BY DEF p, r
<1>5. q = p
  BY <1>1, <1>3, <1>4
<1>6. p * m \in Nat
  BY <1>1
<1> QED
  BY <1>2, <1>5, <1>6

(***************************************************************************)
(* The deadline of signalWait is the timeout ahead, and the whole seconds  *)
(* of the timeout once more.                                               *)
(***************************************************************************)
LEMMA DeadlineExact ==
    ASSUME NEW t \in Nat, NEW d \in Nat
    PROVE  /\ Deadline(t, d) \in [sec : Nat, frac : 0..(2 * MsPerSec - 2)]
           /\ InMs(Deadline(t, d)) \in Nat
           /\ InMs(Deadline(t, d)) = t + d + (d \div MsPerSec) * MsPerSec
           /\ t + d <= InMs(Deadline(t, d))
<1> DEFINE M == MsPerSec
           ts == t \div M
           ds == d \div M
           tf == t % M
           df == d % M
<1>1. M \in Nat \ {0}
  BY TimeAssumption
<1>2. /\ ts \in Nat /\ tf \in 0..(M - 1) /\ t = ts * M + tf
      /\ ds \in Nat /\ df \in 0..(M - 1) /\ d = ds * M + df
  BY <1>1, Division
<1>3. Deadline(t, d) = [sec |-> ts + ds + ds, frac |-> tf + df]
  BY DEF Deadline
<1> HIDE DEF M, ts, ds, tf, df
<1>4. ts + ds + ds \in Nat /\ tf + df \in 0..(2 * M - 2)
  BY <1>1, <1>2
<1>5. InMs(Deadline(t, d)) = (ts + ds + ds) * M + (tf + df)
  BY <1>3, <1>4 DEF InMs, M
<1>6. (ts + ds + ds) * M = ts * M + ds * M + ds * M
  BY <1>1, <1>2
<1>7. ts * M \in Nat /\ ds * M \in Nat
  BY <1>1, <1>2
<1>8. InMs(Deadline(t, d)) = t + d + ds * M
  BY <1>1, <1>2, <1>5, <1>6, <1>7
<1>9. InMs(Deadline(t, d)) \in Nat /\ t + d <= InMs(Deadline(t, d))
  BY <1>7, <1>8
<1>10. Deadline(t, d) \in [sec : Nat, frac : 0..(2 * M - 2)]
  BY <1>3, <1>4
<1>11. M = MsPerSec /\ ds = d \div MsPerSec
  BY DEF M, ds
<1> QED
  BY <1>8, <1>9, <1>10, <1>11

LEMMA DeadlineAhead ==
    ASSUME NEW t \in Nat, NEW d \in Nat
    PROVE  /\ Deadline(t, d) \in [sec : Nat, frac : 0..(2 * MsPerSec - 2)]
           /\ InMs(Deadline(t, d)) \in Nat
           /\ t + d <= InMs(Deadline(t, d))
BY DeadlineExact

-----------------------------------------------------------------------------
LEMMA InitInv == Init => IInv
<1> SUFFICES ASSUME Init PROVE IInv
  OBVIOUS
<1>1. /\ platform \in Platforms /\ now \in Nat /\ started = now /\ timeout \in Nat
      /\ wake = now /\ late = 0 /\ pc = "wait" /\ Lag \in Nat
  BY TimeAssumption DEF Init
<1>2. now <= InMs(Deadline(now, timeout))
      /\ Deadline(now, timeout) \in [sec : Nat, frac : 0..(2 * MsPerSec - 2)]
      /\ InMs(Deadline(now, timeout)) \in Nat
  BY <1>1, DeadlineAhead
<1>3. TypeOK
  BY <1>1, <1>2, TimeAssumption DEF Init, TypeOK, Positions
<1>4. InTime
  BY <1>1, <1>2 DEF Init, InTime
<1>5. deadline = Deadline(now, timeout)
  BY <1>1 DEF Init
<1>6. NotForLong
  BY <1>1, <1>2, <1>5 DEF NotForLong, Due
<1> QED
  BY <1>3, <1>4, <1>6 DEF IInv

LEMMA Types ==
    ASSUME IInv
    PROVE  /\ now \in Nat /\ started \in Nat /\ timeout \in Nat /\ wake \in Nat
           /\ late \in Nat /\ late <= Lag /\ Lag \in Nat
           /\ InMs(deadline) \in Nat /\ Due \in Nat
<1>1. platform \in Platforms /\ timeout \in Timeouts[platform] /\ started \in Nat
  BY DEF IInv, TypeOK
<1>2. timeout \in Nat /\ Lag \in Nat
  BY <1>1, TimeAssumption
<1>3. now \in Nat /\ wake \in Nat /\ late \in Nat /\ late <= Lag
  BY <1>2 DEF IInv, TypeOK
<1>4. deadline = Deadline(started, timeout)
  BY DEF IInv, InTime
<1>5. InMs(deadline) \in Nat
  BY <1>1, <1>2, <1>4, DeadlineAhead
<1> QED
  BY <1>1, <1>2, <1>3, <1>5 DEF Due

\* All but permits, posts, the clock, the position and what goes with it stays
\* what it was at Init.
LEMMA Kept ==
    ASSUME [Next]_vars
    PROVE  /\ UNCHANGED <<platform, started, timeout, deadline>>
           /\ Due' = Due
           /\ Deadline(started, timeout)' = Deadline(started, timeout)
           /\ Apple' = Apple /\ Invalid' = Invalid /\ CrossesModulus' = CrossesModulus
           /\ MayMissDeadline' = MayMissDeadline
<1>1. UNCHANGED <<platform, started, timeout, deadline>>
  BY DEF Next, Post, Take, Fail, TryWait, CheckClock, Tick, vars
<1> QED
  BY <1>1 DEF InMs, Deadline, Apple, Invalid, CrossesModulus, MayMissDeadline, Due

\* What the two useconds_t tell of the deadline and of the clock.
LEMMA DelayExact ==
    ASSUME IInv
    PROVE  DelayFromNow = (Due % Modulus) - (now % Modulus) /\ DelayFromNow \in Int
<1>1. now \in Nat /\ InMs(deadline) \in Nat
  BY Types
<1>2. InMs(Clock) = now
  BY <1>1, Division, TimeAssumption DEF InMs, Clock
<1>3. Due % Modulus \in Nat /\ now % Modulus \in Nat
  BY <1>1, Division, TimeAssumption DEF Due
<1> QED
  BY <1>2, <1>3 DEF DelayFromNow, TimespecToMilisec, Due

\* The loop for macOS never sleeps beyond a deadline that is still ahead.
LEMMA DelayAhead ==
    ASSUME IInv, now <= Due
    PROVE  DelayFromNow <= Due - now
<1> DEFINE d == Due \div Modulus
           n == now \div Modulus
<1>1. now \in Nat /\ Due \in Nat /\ Modulus \in Nat \ {0}
  BY Types, TimeAssumption
<1>2. /\ d \in Nat /\ Due % Modulus \in Nat /\ Due = d * Modulus + (Due % Modulus)
      /\ n \in Nat /\ now % Modulus \in Nat /\ now = n * Modulus + (now % Modulus)
  BY <1>1, Division
<1>3. n <= d
  BY <1>1, DivMonotone
<1> HIDE DEF d, n
<1>4. n * Modulus <= d * Modulus /\ n * Modulus \in Nat /\ d * Modulus \in Nat
  BY <1>1, <1>2, <1>3
<1> QED
  BY <1>1, <1>2, <1>4, DelayExact

\* It sees a deadline that is over, unless it may miss it.
LEMMA DelayOver ==
    ASSUME IInv, Due <= now, now <= Due + 2 * Lag, Apple, ~MayMissDeadline
    PROVE  DelayFromNow <= 0
<1>1. now \in Nat /\ Due \in Nat /\ Due + 2 * Lag \in Nat /\ Modulus \in Nat \ {0}
  BY Types, TimeAssumption
<1>2. ~((Due + 2 * Lag) \div Modulus > Due \div Modulus)
  BY DEF MayMissDeadline
<1>3. Due % Modulus <= now % Modulus
  BY <1>1, <1>2, NoWrap
<1>4. Due % Modulus \in Nat /\ now % Modulus \in Nat
  BY <1>1, Division
<1> QED
  BY <1>3, <1>4, DelayExact

\* What usleep makes of a number of milliseconds.
LEMMA SleepShort ==
    ASSUME NEW n \in Int, n > 0
    PROVE  n \div 1000 \in Nat /\ n \div 1000 <= n
  OBVIOUS

LEMMA TypeStep == ASSUME IInv, [Next]_vars PROVE TypeOK'
<1>t. /\ now \in Nat /\ started \in Nat /\ timeout \in Nat /\ wake \in Nat
      /\ late \in Nat /\ late <= Lag /\ Lag \in Nat
      /\ InMs(deadline) \in Nat /\ Due \in Nat
  BY Types
<1>k. UNCHANGED <<platform, started, timeout, deadline>>
  BY Kept
<1>y. TypeOK
  BY DEF IInv
<1> USE DEF TypeOK, Positions
<1>1. CASE Post
  BY <1>1, <1>k, <1>y, TimeAssumption DEF Post
<1>2. CASE Take
  BY <1>2, <1>k, <1>y, <1>t DEF Take
<1>3. CASE Fail
  BY <1>3, <1>k, <1>y, <1>t DEF Fail
<1>4. CASE TryWait
  BY <1>4, <1>k, <1>y, <1>t DEF TryWait
<1>5. CASE CheckClock
  <2>1. wake' \in Nat
    BY <1>5, <1>t, DelayExact, SleepShort DEF CheckClock
  <2> QED
    BY <1>5, <1>k, <1>y, <1>t, <2>1 DEF CheckClock
<1>6. CASE Tick
  <2>1. late' \in 0..Lag
    BY <1>6, <1>t DEF Tick
  <2> QED
    BY <1>6, <1>k, <1>y, <1>t, <2>1 DEF Tick
<1>7. CASE UNCHANGED vars
  BY <1>7, <1>y DEF vars
<1> QED
  BY <1>1, <1>2, <1>3, <1>4, <1>5, <1>6, <1>7 DEF Next

LEMMA InTimeStep == ASSUME IInv, [Next]_vars PROVE InTime'
<1>t. now \in Nat /\ started \in Nat /\ Due \in Nat
  BY Types
<1>k. /\ UNCHANGED <<platform, started, timeout, deadline>>
      /\ Due' = Due
      /\ Deadline(started, timeout)' = Deadline(started, timeout)
      /\ Apple' = Apple /\ Invalid' = Invalid /\ CrossesModulus' = CrossesModulus
  BY Kept
<1>y. InTime
  BY DEF IInv
<1>1. CASE Post
  BY <1>1, <1>k, <1>y DEF Post, InTime, Expired
<1>2. CASE Take
  BY <1>2, <1>k, <1>y DEF Take, InTime
<1>3. CASE Fail
  <2>1. Invalid \/ Expired'
    BY <1>3, <1>k DEF Fail, Expired
  <2> QED
    BY <1>3, <1>k, <1>y, <2>1 DEF Fail, InTime
<1>4. CASE TryWait
  BY <1>4, <1>k, <1>y DEF TryWait, InTime
<1>5. CASE CheckClock
  <2>1. SUFFICES ASSUME pc' = "failed", ~Expired
                 PROVE  IF Apple THEN CrossesModulus ELSE Invalid
    BY <1>5, <1>k, <1>y DEF CheckClock, InTime, Expired
  <2>2. DelayFromNow <= 0
    BY <1>5, <2>1 DEF CheckClock
  <2>3. Due % Modulus \in Nat /\ now % Modulus \in Nat /\ Modulus \in Nat \ {0}
    BY <1>t, Division, TimeAssumption
  <2>4. Due % Modulus <= now % Modulus
    BY <2>2, <2>3, DelayExact
  <2>5. Due \div Modulus > now \div Modulus
    BY <1>t, <2>1, <2>3, <2>4, Wraps DEF Expired
  <2>6. started \div Modulus <= now \div Modulus
    BY <1>t, <1>y, <2>3, DivMonotone DEF InTime
  <2>7. CrossesModulus
    BY <1>t, <2>3, <2>5, <2>6, Division DEF CrossesModulus
  <2>8. Apple
    BY <1>5, <1>y DEF InTime, CheckClock
  <2> QED
    BY <2>7, <2>8
<1>6. CASE Tick
  BY <1>6, <1>k, <1>t, <1>y DEF Tick, InTime, Expired
<1>7. CASE UNCHANGED vars
  BY <1>7, <1>k, <1>y DEF vars, InTime, Expired
<1> QED
  BY <1>1, <1>2, <1>3, <1>4, <1>5, <1>6, <1>7 DEF Next

LEMMA NotForLongStep ==
    ASSUME IInv, [Next]_vars, ~MayMissDeadline PROVE NotForLong'
<1>t. /\ now \in Nat /\ wake \in Nat /\ Due \in Nat
      /\ late \in Nat /\ late <= Lag /\ Lag \in Nat
  BY Types
<1>k. Due' = Due /\ Apple' = Apple
  BY Kept
<1>y. NotForLong /\ InTime
  BY DEF IInv
<1>1. CASE Post
  BY <1>1, <1>k, <1>y DEF Post, NotForLong
<1>2. CASE Take
  BY <1>2, <1>k, <1>y DEF Take, NotForLong
<1>3. CASE Fail
  BY <1>3, <1>k, <1>y DEF Fail, NotForLong
<1>4. CASE TryWait
  BY <1>4, <1>k, <1>t, <1>y DEF TryWait, NotForLong
<1>5. CASE CheckClock
  <2>1. Apple /\ now <= Due + 2 * Lag
    BY <1>5, <1>y DEF CheckClock, InTime, NotForLong
  <2>2. CASE DelayFromNow > 0
    <3>1. now < Due
      <4>1. ~(DelayFromNow <= 0)
        BY <2>2, DelayExact
      <4>2. ~(Due <= now)
        BY <2>1, <4>1, DelayOver, Zenon
      <4> QED
        BY <1>t, <4>2
    <3>2. DelayFromNow <= Due - now /\ DelayFromNow \in Int
      BY <1>t, <3>1, DelayAhead, DelayExact
    <3>3. DelayFromNow \div 1000 \in Nat /\ DelayFromNow \div 1000 <= DelayFromNow
      BY <2>2, <3>2, SleepShort
    <3>4. wake' = now + DelayFromNow \div 1000 /\ now' = now /\ late' = 0 /\ pc' = "wait"
      BY <1>5, <2>2, <3>2 DEF CheckClock
    <3> QED
      BY <1>k, <1>t, <3>1, <3>2, <3>3, <3>4 DEF NotForLong
  <2>3. CASE DelayFromNow <= 0
    BY <1>5, <1>k, <1>y, <2>3, DelayExact DEF CheckClock, NotForLong
  <2> QED
    BY <2>2, <2>3, DelayExact
<1>6. CASE Tick
  <2>1. CASE CanGoOn
    BY <1>6, <1>k, <1>t, <1>y, <2>1 DEF Tick, NotForLong
  <2>2. CASE ~CanGoOn
    <3>1. pc = "wait" /\ now < Due
      BY <1>6, <1>t, <1>y, <2>2 DEF Tick, CanGoOn, Asleep, Expired, NotForLong
    <3> QED
      BY <1>6, <1>k, <1>t, <1>y, <2>2, <3>1 DEF Tick, NotForLong
  <2> QED
    BY <2>1, <2>2
<1>7. CASE UNCHANGED vars
  BY <1>7, <1>k, <1>y DEF vars, NotForLong
<1> QED
  BY <1>1, <1>2, <1>3, <1>4, <1>5, <1>6, <1>7 DEF Next

LEMMA NextInv == IInv /\ [Next]_vars => IInv'
  BY TypeStep, InTimeStep, NotForLongStep, Kept DEF IInv

-----------------------------------------------------------------------------
\* A wait that fails before its deadline has crossed into the next second
\* (Linux) or past the end of a useconds_t (macOS), and none lasts longer than
\* the thread is late after it, unless it may miss its deadline.
THEOREM InvariantCorrect == Spec => []IInv
<1>1. Init => IInv
  BY InitInv
<1>2. IInv /\ [Next]_vars => IInv'
  BY NextInv
<1> QED
  BY <1>1, <1>2, PTL DEF Spec

\* signalWait fails early only when its deadline crosses.
THEOREM EarlyFailures == Spec => []FailsEarlyOnlyAcross
<1>1. IInv => FailsEarlyOnlyAcross
  <2> SUFFICES ASSUME IInv, pc = "failed", now < started + timeout
               PROVE  IF Apple THEN CrossesModulus ELSE CrossesSecond
    BY DEF FailsEarlyOnlyAcross
  <2>t. now \in Nat /\ started \in Nat /\ timeout \in Nat /\ InMs(deadline) \in Nat
    BY Types
  <2>1. started + timeout <= InMs(deadline)
    BY <2>t, DeadlineAhead DEF IInv, InTime
  <2>2. IF Apple THEN CrossesModulus ELSE Invalid
    BY <2>t, <2>1 DEF IInv, InTime, Expired, Due
  <2>3. ASSUME Invalid PROVE CrossesSecond
    <3> DEFINE sum == started + (timeout % MsPerSec)
    <3>1. /\ started % MsPerSec \in 0..(MsPerSec - 1)
          /\ timeout % MsPerSec \in 0..(MsPerSec - 1)
      BY <2>t, Division, TimeAssumption
    <3>2. (started % MsPerSec) + (timeout % MsPerSec) >= MsPerSec
      BY <2>3 DEF IInv, InTime, Invalid, Deadline
    <3>3. sum \in Nat
      BY <2>t, <3>1
    <3>4. /\ started = (started \div MsPerSec) * MsPerSec + (started % MsPerSec)
          /\ started \div MsPerSec \in Nat
      BY <2>t, Division, TimeAssumption
    <3>5. /\ sum = (sum \div MsPerSec) * MsPerSec + (sum % MsPerSec)
          /\ sum \div MsPerSec \in Nat /\ sum % MsPerSec \in 0..(MsPerSec - 1)
      BY <3>3, Division, TimeAssumption
    <3>6. (started \div MsPerSec) * MsPerSec + MsPerSec <= sum
      BY <2>t, <3>1, <3>2, <3>4, TimeAssumption
    <3>7. sum % MsPerSec < MsPerSec /\ MsPerSec \in Nat
      BY <3>5, TimeAssumption
    <3>8. sum \div MsPerSec > started \div MsPerSec
      <4> DEFINE p == started \div MsPerSec
                 q == sum \div MsPerSec
      <4>1. SUFFICES ASSUME q <= p PROVE FALSE
        BY <3>4, <3>5
      <4>2. q * MsPerSec <= p * MsPerSec
        BY <3>4, <3>5, <3>7, <4>1
      <4>3. p * MsPerSec \in Nat /\ q * MsPerSec \in Nat
        BY <3>4, <3>5, <3>7
      <4> QED
        BY <3>3, <3>5, <3>6, <3>7, <4>2, <4>3
    <3> QED
      BY <3>8 DEF CrossesSecond
  <2> QED
    BY <2>2, <2>3
<1> QED
  BY <1>1, InvariantCorrect, PTL

\* LateBySecondsOnly: adding the seconds of the timeout twice makes a wait late
\* by those seconds at most, and a timeout below a second by no more than the
\* thread is late itself, unless the clock of macOS starts again just then.
THEOREM WaitBound == Spec => []LateBySecondsOnly
<1>1. IInv => LateBySecondsOnly
  <2> SUFFICES ASSUME IInv, ~MayMissDeadline
      PROVE  now <= started + timeout + (timeout \div MsPerSec) * MsPerSec + 2 * Lag
    BY DEF LateBySecondsOnly
  <2>1. started \in Nat /\ timeout \in Nat
    BY Types
  <2>2. Due = started + timeout + (timeout \div MsPerSec) * MsPerSec
    BY <2>1, DeadlineExact DEF IInv, InTime, Due
  <2>3. now <= Due + 2 * Lag
    BY DEF IInv, NotForLong
  <2> QED
    BY <2>2, <2>3
<1> QED
  BY <1>1, InvariantCorrect, PTL

-----------------------------------------------------------------------------
(* A wait ends.                                                            *)

Ended == pc \in {"got", "failed"}

\* The clock does not stop short of the deadline, as long as the wait lasts.
TimePasses == []<>(Ended \/ Expired)

\* The fairness of the waiting thread, with the guards written out.
WaiterRuns ==
    /\ WeaklyFair(pc = "wait" /\ permits > 0 /\ ~Asleep, Take, vars)
    /\ WeaklyFair(~Apple /\ pc = "wait" /\ (Invalid \/ Expired), Fail, vars)
    /\ WeaklyFair(Apple /\ pc = "wait" /\ permits = 0 /\ ~Asleep, TryWait, vars)
    /\ WeaklyFair(pc = "check", CheckClock, vars)

\* The deadline is over, and on macOS so is any sleep before it: on Linux the
\* wait can only end; on macOS the thread finds a permit or looks at the clock.
LateLinux == ~Apple /\ pc = "wait" /\ Expired
LateFound == Apple /\ pc = "wait" /\ permits > 0 /\ Expired
LateTries == Apple /\ pc = "wait" /\ permits = 0 /\ Expired
LateChecks == pc = "check" /\ Expired

\* The end of the time is not lost again.
LEMMA LateStep ==
    ASSUME IInv, [Next]_vars, ~MayMissDeadline
    PROVE  /\ Ended => Ended'
           /\ LateLinux => LateLinux' \/ Ended'
           /\ LateFound => LateFound' \/ Ended'
           /\ LateTries => LateTries' \/ LateFound' \/ LateChecks' \/ Ended'
           /\ LateChecks => LateChecks' \/ Ended'
<1>1. permits \in Nat /\ now \in Nat /\ Due \in Nat
  BY Types, TimeAssumption DEF IInv, TypeOK
<1>2. Due' = Due /\ Apple' = Apple
  BY Kept
<1>3. now' \in {now, now + 1}
  BY DEF Next, Post, Take, Fail, TryWait, CheckClock, Tick, vars
<1>4. Expired => Expired'
  BY <1>1, <1>2, <1>3 DEF Expired
<1>5. CheckClock /\ Expired => pc' = "failed"
  <2> SUFFICES ASSUME CheckClock, Expired PROVE pc' = "failed"
    OBVIOUS
  <2>1. Apple /\ now <= Due + 2 * Lag
    BY DEF CheckClock, IInv, InTime, NotForLong
  <2>2. DelayFromNow <= 0
    BY <1>1, <2>1, DelayOver DEF Expired
  <2> QED
    BY <2>2, DelayExact DEF CheckClock
<1> USE DEF Ended, LateLinux, LateFound, LateTries, LateChecks
<1>6. CASE Post
  BY <1>1, <1>2, <1>4, <1>6 DEF Post
<1>7. CASE Take
  BY <1>7 DEF Take
<1>8. CASE Fail
  BY <1>8 DEF Fail
<1>9. CASE TryWait
  BY <1>4, <1>9 DEF TryWait
<1>10. CASE CheckClock
  BY <1>5, <1>10 DEF CheckClock
<1>11. CASE Tick
  BY <1>2, <1>4, <1>11 DEF Tick
<1>12. CASE UNCHANGED vars
  BY <1>2, <1>4, <1>12 DEF vars
<1> QED
  BY <1>6, <1>7, <1>8, <1>9, <1>10, <1>11, <1>12 DEF Next

\* The thread looks at the semaphore and at the clock, and sees them.
LEMMA LateMove ==
    /\ LateLinux /\ Fail => Ended'
    /\ LateFound /\ Take => Ended'
    /\ LateTries /\ TryWait => ~LateTries'
    /\ LateChecks /\ CheckClock => ~LateChecks'
BY DEF LateLinux, LateFound, LateTries, LateChecks, Ended, Take, Fail, TryWait, CheckClock

\* Where a wait is when its deadline is over, and that the thread can go on.
LEMMA LatePlaces ==
    ASSUME IInv, ~MayMissDeadline
    PROVE  /\ Expired => Ended \/ LateLinux \/ LateFound \/ LateTries \/ LateChecks
           /\ LateFound \/ LateTries => ~Asleep
<1>1. /\ permits \in Nat /\ now \in Nat /\ Due \in Nat /\ wake \in Nat
      /\ pc \in Positions
  BY Types, TimeAssumption DEF IInv, TypeOK
<1>2. Expired => Ended \/ LateLinux \/ LateFound \/ LateTries \/ LateChecks
  BY <1>1 DEF Positions, Ended, LateLinux, LateFound, LateTries, LateChecks
<1>3. Apple /\ pc = "wait" /\ Expired => ~Asleep
  BY <1>1 DEF IInv, NotForLong, Expired, Asleep
<1> QED
  BY <1>2, <1>3 DEF LateFound, LateTries

\* EveryWaitEnds: signalWait with a timeout comes to an end on both platforms,
\* whether or not anybody posts, if the clock goes on and the thread runs, and
\* unless the loop for macOS may look only when its clock has started again.
THEOREM WaitsEnd == Spec /\ TimePasses /\ WaiterRuns => EveryWaitEnds
<1>1. IInv /\ [Next]_vars => (MayMissDeadline <=> MayMissDeadline')
  BY Kept
<1>2. IInv /\ ~MayMissDeadline /\ Expired =>
        Ended \/ LateLinux \/ LateFound \/ LateTries \/ LateChecks
  BY LatePlaces
<1>3. IInv /\ [Next]_vars /\ ~MayMissDeadline =>
        /\ Ended => Ended'
        /\ LateLinux => LateLinux' \/ Ended'
        /\ LateFound => LateFound' \/ Ended'
        /\ LateTries => LateTries' \/ LateFound' \/ LateChecks' \/ Ended'
        /\ LateChecks => LateChecks' \/ Ended'
  BY LateStep
<1>4. /\ LateLinux /\ Fail => Ended'
      /\ LateFound /\ Take => Ended'
      /\ LateTries /\ TryWait => ~LateTries'
      /\ LateChecks /\ CheckClock => ~LateChecks'
  BY LateMove
<1>5. IInv /\ ~MayMissDeadline =>
        /\ LateLinux => ~Apple /\ pc = "wait" /\ (Invalid \/ Expired)
        /\ LateFound => pc = "wait" /\ permits > 0 /\ ~Asleep
        /\ LateTries => Apple /\ pc = "wait" /\ permits = 0 /\ ~Asleep
        /\ LateChecks => pc = "check"
  BY LatePlaces DEF LateLinux, LateFound, LateTries, LateChecks
<1>6. Ended <=> pc \in {"got", "failed"}
  BY DEF Ended
<1> QED
  BY <1>1, <1>2, <1>3, <1>4, <1>5, <1>6, InvariantCorrect, PTL
     DEF Spec, TimePasses, WaiterRuns, WeaklyFair, EveryWaitEnds
=============================================================================
