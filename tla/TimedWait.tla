----------------------------- MODULE TimedWait ------------------------------
(***************************************************************************)
(* IpcBase::signalWait with a timeout: how the deadline is computed, and   *)
(* what sem_timedwait makes of it.  On Linux sem_timedwait is the C        *)
(* library's; on macOS it is the project's own polling loop.               *)
(*                                                                         *)
(* Time is counted in milliseconds, which is also the resolution of the    *)
(* code's timeouts.  The clock is CLOCK_REALTIME, read as seconds and a    *)
(* fraction of a second.                                                   *)
(***************************************************************************)
EXTENDS Integers

CONSTANTS
    Platforms,    \* where the code runs
    MsPerSec,     \* 1000
    Modulus,      \* useconds_t counts up to Modulus - 1 (2^32 - 1 on macOS)
    Timeouts,     \* per platform: the timeouts that are asked for
    Starts,       \* per platform: the times at which a wait may start
    MaxPosts,     \* bound on the posts to the semaphore
    Lag,          \* how late the waiting thread may be with its next step
    Horizon       \* bound on the time after the deadline

ASSUME TimeAssumption ==
    /\ Platforms \subseteq {"linux", "macos"}
    /\ MsPerSec \in Nat \ {0} /\ Modulus \in Nat \ {0}
    /\ \A p \in Platforms : Timeouts[p] \subseteq Nat \ {0} /\ Starts[p] \subseteq Nat
    /\ MaxPosts \in Nat /\ Lag \in Nat /\ Horizon \in Nat

VARIABLES
    platform,   \* which sem_timedwait it is
    now,        \* CLOCK_REALTIME
    permits,    \* the semaphore
    posts,      \* how often it has been posted
    pc,         \* where the waiting thread is
    started,    \* when its wait started
    timeout,    \* dwTimeout
    deadline,   \* ts
    wake,       \* when the sleep of the loop for macOS is over
    late        \* for how long the thread could have gone on

vars == <<platform, now, permits, posts, pc, started, timeout, deadline, wake, late>>

\* sem_timedwait is the project's own.
Apple == platform = "macos"

\* "wait" is inside sem_timedwait; "check" is, in the loop for macOS, between
\* sem_trywait and the look at the clock.
Positions == {"wait", "check", "got", "failed"}

\* Fault: the fraction gets the whole timeout instead of the part below 1 s.
DeadlineFractionTooLarge(t, d) ==
    [sec  |-> (t \div MsPerSec) + 2 * (d \div MsPerSec),
     frac |-> (t % MsPerSec) + d]

\* Fault: only the whole seconds of the timeout are added.
DeadlineInSeconds(t, d) ==
    [sec |-> (t \div MsPerSec) + 2 * (d \div MsPerSec), frac |-> t % MsPerSec]

\* Fault: a timeout is rounded up to the next second.
DeadlineRoundedUp(t, d) ==
    [sec  |-> (t \div MsPerSec) + 2 * (d \div MsPerSec) + 1,
     frac |-> (t % MsPerSec) + (d % MsPerSec)]

\* ts.tv_sec and ts.tv_nsec; the seconds of the timeout are added twice, and
\* nothing is carried from the fraction to the seconds.
Deadline(t, d) ==
    [sec  |-> (t \div MsPerSec) + (d \div MsPerSec) + (d \div MsPerSec),
     frac |-> (t % MsPerSec) + (d % MsPerSec)]

InMs(ts) == ts.sec * MsPerSec + ts.frac

\* timespec_to_milisec: 64 bit arithmetic, cut down to a useconds_t.
TimespecToMilisec(ts) == InMs(ts) % Modulus
Clock == [sec |-> now \div MsPerSec, frac |-> now % MsPerSec]

Init ==
    /\ platform \in Platforms
    /\ now \in Starts[platform] /\ started = now
    /\ timeout \in Timeouts[platform]
    /\ deadline = Deadline(started, timeout)
    /\ permits = 0 /\ posts = 0
    /\ pc = "wait" /\ wake = now /\ late = 0

\* The other side posts the semaphore.
Post ==
    /\ posts < MaxPosts
    /\ posts' = posts + 1 /\ permits' = permits + 1
    /\ UNCHANGED <<platform, now, pc, started, timeout, deadline, wake, late>>

-----------------------------------------------------------------------------
(* Linux: a permit is taken if there is one.  A wait fails with EINVAL     *)
(* when the fraction of its deadline is not below a second, and some C     *)
(* libraries look at that first; or with ETIMEDOUT, which may also happen  *)
(* when the permit comes as the time runs out.                             *)

Asleep == Apple /\ now < wake

Take ==
    /\ pc = "wait" /\ permits > 0 /\ ~Asleep
    /\ permits' = permits - 1
    /\ pc' = "got" /\ late' = 0
    /\ UNCHANGED <<platform, now, posts, started, timeout, deadline, wake>>

Due == InMs(deadline)
Invalid == deadline.frac >= MsPerSec
Expired == now >= Due

Fail ==
    /\ ~Apple /\ pc = "wait"
    /\ Invalid \/ Expired
    /\ pc' = "failed" /\ late' = 0
    /\ UNCHANGED <<platform, now, permits, posts, started, timeout, deadline, wake>>

-----------------------------------------------------------------------------
(* macOS: sem_trywait, then the clock, then a sleep, and again.            *)

TryWait ==
    /\ Apple /\ pc = "wait" /\ permits = 0 /\ ~Asleep
    /\ pc' = "check" /\ late' = 0
    /\ UNCHANGED <<platform, now, permits, posts, started, timeout, deadline, wake>>

\* Fault: the loop waits for the semaphore without looking at the clock.
CheckClockSkipped ==
    /\ pc = "check"
    /\ pc' = "wait" /\ late' = 0
    /\ UNCHANGED <<platform, now, permits, posts, started, timeout, deadline, wake>>

\* What is left of the wait, as two useconds_t tell it.
DelayFromNow == TimespecToMilisec(deadline) - TimespecToMilisec(Clock)

\* usleep takes the milliseconds that are left for microseconds.
CheckClock ==
    /\ pc = "check" /\ late' = 0
    /\ \/ DelayFromNow > 0 /\ pc' = "wait" /\ wake' = now + DelayFromNow \div 1000
       \/ DelayFromNow <= 0 /\ pc' = "failed" /\ UNCHANGED wake
    /\ UNCHANGED <<platform, now, permits, posts, started, timeout, deadline>>

-----------------------------------------------------------------------------
\* The thread has something to do.
CanGoOn ==
    \/ pc = "check"
    \/ pc = "wait" /\ (IF Apple THEN ~Asleep ELSE permits > 0 \/ Invalid \/ Expired)

\* Time passes; a thread that can go on has done so when Lag is over.
Tick ==
    /\ pc \in {"wait", "check"}
    /\ CanGoOn => late < Lag
    /\ now < Due + Horizon
    /\ now' = now + 1
    /\ late' = IF CanGoOn THEN late + 1 ELSE 0
    /\ UNCHANGED <<platform, permits, posts, pc, started, timeout, deadline, wake>>

Next == Post \/ Take \/ Fail \/ TryWait \/ CheckClock \/ Tick

Spec == Init /\ [][Next]_vars
\* Time passes and the waiting thread runs; nobody has to post.
FairSpec ==
    /\ Spec
    /\ WF_vars(Tick) /\ WF_vars(Take) /\ WF_vars(Fail)
    /\ WF_vars(TryWait) /\ WF_vars(CheckClock)

-----------------------------------------------------------------------------
(* Safety.                                                                 *)

\* The type invariant.
TypeOK ==
    /\ platform \in Platforms
    /\ now \in Nat /\ started \in Nat /\ timeout \in Timeouts[platform]
    /\ posts \in 0..MaxPosts /\ permits \in 0..posts
    /\ pc \in Positions /\ wake \in Nat /\ late \in 0..Lag
    /\ deadline \in [sec : Nat, frac : 0..(2 * MsPerSec - 2)]

(***************************************************************************)
(* A wait does not fail before its time is up.  The test singleTestTimeout *)
(* 10 relies on that: it sends with a timeout of 10 ms, lets the client    *)
(* reply at once and compares the two messages without looking for a NULL. *)
(***************************************************************************)
FailsNoEarlier == pc = "failed" => now >= started + timeout

(***************************************************************************)
(* The waits that do fail early are those whose deadline crosses into the  *)
(* next second (Linux), or past the end of a useconds_t (macOS).           *)
(***************************************************************************)
CrossesSecond == (started + (timeout % MsPerSec)) \div MsPerSec > started \div MsPerSec
CrossesModulus == Due \div Modulus > started \div Modulus
FailsEarlyOnlyAcross ==
    pc = "failed" /\ now < started + timeout =>
        IF Apple THEN CrossesModulus ELSE CrossesSecond

(***************************************************************************)
(* The loop for macOS sees that its time is up when it looks at the clock  *)
(* before that starts again from 0.  If it is late, and looks only after   *)
(* that, it finds the deadline ahead, and waits for another 49 days.       *)
(***************************************************************************)
MayMissDeadline == Apple /\ (Due + 2 * Lag) \div Modulus > Due \div Modulus

(***************************************************************************)
(* Seconds count twice: a wait is late by the whole seconds of its timeout *)
(* at most, and by what the thread is late itself: once in the wait and    *)
(* once before the look at the clock.  Those the code asks for, all below  *)
(* a second, take no longer than that, unless the deadline is missed.      *)
(***************************************************************************)
LateBySecondsOnly ==
    ~MayMissDeadline =>
        now <= started + timeout + (timeout \div MsPerSec) * MsPerSec + 2 * Lag

\* The invariant behind them: a wait that fails before its deadline has
\* crossed, and a wait goes on past it only as long as the thread is late.
InTime ==
    /\ deadline = Deadline(started, timeout)
    /\ started <= now
    /\ pc = "check" => Apple
    /\ pc = "failed" => Expired \/ IF Apple THEN CrossesModulus ELSE Invalid

NotForLong ==
    /\ pc = "wait" => now <= Due + late
    /\ pc = "wait" /\ Apple => wake <= Due
    /\ pc = "check" => now <= Due + Lag + late
    /\ now <= Due + 2 * Lag

IInv == TypeOK /\ InTime /\ (~MayMissDeadline => NotForLong)

\* A wait with a timeout ends, whether or not anybody posts, unless it is one
\* of those that may miss their deadline.
EveryWaitEnds == ~MayMissDeadline => <>(pc \in {"got", "failed"})
=============================================================================
