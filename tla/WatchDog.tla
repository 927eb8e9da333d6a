------------------------------ MODULE WatchDog ------------------------------
(***************************************************************************)
(* How the FMU's JVM notices that the engine is gone.  A thread of the     *)
(* engine (IpcServer::connWatchDog) posts the semaphore connWatchDog every *)
(* ALIVE_DELAY; a thread of the JVM (ProtocolDriver.setWatchDog) lets      *)
(* tasks wait for it one post at a time, and frees the instance when a     *)
(* task takes longer than getAliveInterval.                                *)
(*                                                                         *)
(* Time passes in ticks of 100 ms.  Threads are late: the engine's poster  *)
(* by at most EngineLag, a thread of the JVM by at most JvmLag (scheduling *)
(* and garbage collection together), for every step it could take.  The    *)
(* command channel is reduced to one message under way, as Rpc allows.     *)
(***************************************************************************)
EXTENDS Integers

CONSTANTS
    AliveDelay,     \* IpcServer::ALIVE_DELAY, 200 ms
    AliveInterval,  \* SharedMemory.ALIVE_INTERVAL, 200 ms
    EngineLag,      \* how late the engine's poster may be
    JvmLag,         \* how late a thread of the JVM may be
    MaxPermits      \* SEM_VALUE_MAX

\* Fault: the interval is not stretched.
GetAliveIntervalTight == AliveInterval

\* Fault: the interval is stretched twice.
GetAliveIntervalSlack == AliveInterval * 4 * 4

\* SharedMemory.getAliveInterval: "allow for missing events".
GetAliveInterval == AliveInterval * 4

ASSUME DelayAssumption ==
    /\ AliveDelay \in Nat \ {0} /\ AliveInterval \in Nat
    /\ EngineLag \in Nat /\ JvmLag \in Nat
    /\ MaxPermits \in Nat \ {0}

\* The machine is fast enough for the interval the code has chosen.
ASSUME LagAssumption ==
    /\ AliveDelay + EngineLag + JvmLag < AliveInterval * 4
    /\ JvmLag + JvmLag < AliveInterval * 4

VARIABLES
    engine,     \* the engine's main thread and the fate of its process
    alive,      \* IpcServer::m_connected
    poster,     \* the thread of connWatchDog
    since,      \* ticks since its latest post, or since its end
    left,       \* the permits it had posted ahead when it ended
    permits,    \* the semaphore connWatchDog
    message,    \* the message under way to the command thread
    connected,  \* ProtocolDriver.connected
    client,     \* g_client
    command,    \* the thread of ProtocolDriver.run
    closer,     \* a thread in ProtocolDriver.close
    dog,        \* the thread of setWatchDog
    waited,     \* ticks since it called future.get
    dogLag,     \* ticks it could have gone on
    task,       \* the task it has submitted
    taskLag,    \* ticks the task could have gone on
    freed       \* how often FreeInstantiate was called

engineVars == <<engine, alive, poster, since, left>>
driverVars == <<connected, client, command, closer, freed>>
dogVars == <<dog, waited, dogLag, task, taskLag>>
vars == <<engineVars, permits, message, driverVars, dogVars>>

EngineStates == {"idle", "calling", "freeing", "joining", "gone", "crashed"}
PosterStates == {"post", "sleep", "done"}
CommandStates == {"none", "poll", "read", "call", "free", "done"}
DogStates == {"none", "check", "get", "alarm", "freeing", "done"}
TaskStates == {"none", "submitted", "waiting", "true", "false"}

\* IpcServer::create has just started the poster; the JVM is not up yet.
Init ==
    /\ engine = "idle" /\ alive = TRUE
    /\ poster = "post" /\ since = 0 /\ left = 0
    /\ permits = 0 /\ message = "none"
    /\ connected = FALSE /\ client = "none" /\ command = "none"
    /\ closer = "none" /\ freed = 0
    /\ dog = "none" /\ waited = 0 /\ dogLag = 0
    /\ task = "none" /\ taskLag = 0

-----------------------------------------------------------------------------
(* The engine.                                                             *)

\* signalPost, which only complains when the semaphore is full.
Post ==
    /\ poster = "post"
    /\ permits' = IF permits < MaxPermits THEN permits + 1 ELSE permits
    /\ since' = 0
    /\ poster' = "sleep"
    /\ UNCHANGED <<engine, alive, left, message, driverVars, dogVars>>

PosterEnds ==
    /\ poster' = "done"
    /\ since' = 0 /\ left' = permits

\* Fault: the poster does not loop.
WakeOnce ==
    /\ poster = "sleep" /\ since >= AliveDelay
    /\ PosterEnds
    /\ UNCHANGED <<engine, alive, permits, message, driverVars, dogVars>>

\* sleep(ALIVE_DELAY) is over: while (m_connected).
Wake ==
    /\ poster = "sleep" /\ since >= AliveDelay
    /\ \/ alive /\ poster' = "post" /\ UNCHANGED <<since, left>>
       \/ ~alive /\ PosterEnds
    /\ UNCHANGED <<engine, alive, permits, message, driverVars, dogVars>>

\* An FMI call sends its request and waits.
Call ==
    /\ engine = "idle"
    /\ engine' = "calling" /\ message' = "call"
    /\ UNCHANGED <<alive, poster, since, left, permits, driverVars, dogVars>>

\* fmi2FreeInstance sends its request and does not wait for an answer.
Free ==
    /\ engine = "idle"
    /\ engine' = "freeing" /\ message' = "free"
    /\ UNCHANGED <<alive, poster, since, left, permits, driverVars, dogVars>>

\* ~IpcServer stops the poster and joins it.
StopPoster ==
    /\ engine = "freeing"
    /\ engine' = "joining" /\ alive' = FALSE
    /\ UNCHANGED <<poster, since, left, permits, message, driverVars, dogVars>>

JoinPoster ==
    /\ engine = "joining" /\ poster = "done"
    /\ engine' = "gone"
    /\ UNCHANGED <<alive, poster, since, left, permits, message, driverVars, dogVars>>

EngineCrash ==
    /\ engine \notin {"gone", "crashed"}
    /\ engine' = "crashed"
    /\ IF poster = "done" THEN UNCHANGED <<poster, since, left>> ELSE PosterEnds
    /\ UNCHANGED <<alive, permits, message, driverVars, dogVars>>

-----------------------------------------------------------------------------
(* The driver: open, run and close.                                        *)

\* ProtocolDriver.open.  The names outlive a crash, but not ~IpcServer; what
\* came before it starts to watch, the dog cannot know.
Open ==
    /\ command = "none" /\ engine # "gone"
    /\ connected' = TRUE /\ client' = "open"
    /\ command' = "poll" /\ dog' = "check"
    /\ since' = IF poster = "done" THEN 0 ELSE since
    /\ UNCHANGED <<engine, alive, poster, left, permits, message, closer, freed,
                   waited, dogLag, task, taskLag>>

OpenFails ==
    /\ command = "none" /\ engine = "gone"
    /\ command' = "done"
    /\ UNCHANGED <<engineVars, permits, message, connected, client, closer, freed, dogVars>>

\* while (connected)
Poll ==
    /\ command = "poll"
    /\ command' = IF connected THEN "read" ELSE "done"
    /\ UNCHANGED <<engineVars, permits, message, connected, client, closer, freed, dogVars>>

\* read takes the message, or returns null after 5 ms.  g_client may have
\* been deleted meanwhile: that read may also find nothing.
Read ==
    /\ command = "read"
    /\ \/ /\ client = "open" /\ message # "none"
          /\ command' = message /\ message' = "none"
       \/ /\ client # "open" \/ message = "none"
          /\ command' = "poll" /\ UNCHANGED message
    /\ UNCHANGED <<engineVars, permits, connected, client, closer, freed, dogVars>>

\* The service answers a call, and the engine gets its reply.
Reply ==
    /\ command = "call"
    /\ command' = "poll"
    /\ engine' = IF engine = "calling" THEN "idle" ELSE engine
    /\ UNCHANGED <<alive, poster, since, left, permits, message,
                   connected, client, closer, freed, dogVars>>

\* service.FreeInstantiate for fmi2FreeInstance, which gets no reply.
FreeInstantiate ==
    /\ command = "free"
    /\ command' = "poll" /\ freed' = freed + 1
    /\ UNCHANGED <<engineVars, permits, message, connected, client, closer, dogVars>>

\* ProtocolDriver.close, called by any thread: first connected, then stop.
CloseDriver ==
    /\ connected /\ closer = "none"
    /\ connected' = FALSE /\ closer' = "stop"
    /\ UNCHANGED <<engineVars, permits, message, client, command, freed, dogVars>>

StopClient ==
    /\ closer = "stop"
    /\ closer' = "done" /\ client' = "deleted"
    /\ UNCHANGED <<engineVars, permits, message, connected, command, freed, dogVars>>

\* A thread that uses the deleted g_client may take the JVM down: the command
\* thread in read, or in send with the reply to a call, or a task whose
\* semaphore is posted.
UsesDeletedClient ==
    /\ client = "deleted"
    /\ command \in {"read", "call"} \/ (task = "waiting" /\ permits > 0)

JvmCrash ==
    /\ UsesDeletedClient
    /\ command' = "done" /\ dog' = "done" /\ task' = "none"
    /\ UNCHANGED <<engineVars, permits, message, connected, client, closer, freed,
                   waited, dogLag, taskLag>>

-----------------------------------------------------------------------------
(* The watch dog of the JVM.                                               *)

\* The head of the loop: submit the task and call future.get, or stop.
CheckConnected ==
    /\ dog = "check"
    /\ dogLag' = 0
    /\ \/ /\ connected
          /\ dog' = "get" /\ waited' = 0
          /\ task' = "submitted" /\ taskLag' = 0
       \/ /\ ~connected
          /\ dog' = "done"
          /\ UNCHANGED <<waited, task, taskLag>>
    /\ UNCHANGED <<engineVars, permits, message, driverVars>>

\* waitForWatchDogEvent looks at g_client, then waits without a timeout.
TaskStart ==
    /\ task = "submitted"
    /\ task' = IF client = "open" THEN "waiting" ELSE "false"
    /\ taskLag' = 0
    /\ UNCHANGED <<engineVars, permits, message, driverVars, dog, waited, dogLag>>

TaskTake ==
    /\ task = "waiting" /\ permits > 0
    /\ permits' = permits - 1
    /\ task' = "true" /\ taskLag' = 0
    /\ UNCHANGED <<engineVars, message, driverVars, dog, waited, dogLag>>

TaskDone == task \in {"true", "false"}

GetResult ==
    /\ dog = "get" /\ TaskDone
    /\ dog' = IF task = "true" THEN "check" ELSE "alarm"
    /\ dogLag' = 0
    /\ task' = "none"
    /\ UNCHANGED <<engineVars, permits, message, driverVars, waited, taskLag>>

\* TimeoutException.  future.cancel stops a task that has not started yet; one
\* that waits in sem_wait is left behind.
GetTimeout ==
    /\ dog = "get" /\ ~TaskDone /\ waited >= GetAliveInterval
    /\ dog' = "alarm" /\ dogLag' = 0
    /\ task' = IF task = "submitted" THEN "none" ELSE task
    /\ UNCHANGED <<engineVars, permits, message, driverVars, waited, taskLag>>

\* Fault: the driver stays connected.
HandleTimeoutStaysConnected ==
    /\ dog = "alarm"
    /\ dog' = "freeing" /\ dogLag' = 0
    /\ UNCHANGED <<engineVars, permits, message, driverVars, waited, task, taskLag>>

\* handleTimeout: first connected, then the service.
HandleTimeout ==
    /\ dog = "alarm"
    /\ connected' = FALSE
    /\ dog' = "freeing" /\ dogLag' = 0
    /\ UNCHANGED <<engineVars, permits, message, client, command, closer, freed,
                   waited, task, taskLag>>

DogFrees ==
    /\ dog = "freeing"
    /\ freed' = freed + 1
    /\ dog' = "done"
    /\ UNCHANGED <<engineVars, permits, message, connected, client, command, closer,
                   waited, dogLag, task, taskLag>>

-----------------------------------------------------------------------------
(* Time.                                                                   *)

TaskCanRun ==
    \/ task = "submitted"
    \/ task = "waiting" /\ permits > 0 /\ client = "open"

DogCanRun ==
    \/ dog \in {"check", "alarm"}
    \/ dog = "get" /\ (TaskDone \/ waited >= GetAliveInterval)

Watching == dog \in {"check", "get", "alarm"}

Tick ==
    /\ poster # "done" \/ Watching
    /\ poster # "done" => since < AliveDelay + EngineLag
    /\ TaskCanRun => taskLag < JvmLag
    /\ DogCanRun => dogLag < JvmLag
    /\ since' = since + 1
    /\ waited' = IF dog = "get" /\ waited < GetAliveInterval THEN waited + 1 ELSE waited
    /\ dogLag' = IF DogCanRun THEN dogLag + 1 ELSE dogLag
    /\ taskLag' = IF TaskCanRun THEN taskLag + 1 ELSE taskLag
    /\ UNCHANGED <<engine, alive, poster, left, permits, message, driverVars, dog, task>>

-----------------------------------------------------------------------------
EngineNext ==
    \/ Post \/ Wake \/ Call \/ Free \/ StopPoster \/ JoinPoster \/ EngineCrash

DriverNext ==
    \/ Open \/ OpenFails \/ Poll \/ Read \/ Reply \/ FreeInstantiate
    \/ CloseDriver \/ StopClient \/ JvmCrash

DogNext ==
    \/ CheckConnected \/ TaskStart \/ TaskTake \/ GetResult \/ GetTimeout
    \/ HandleTimeout \/ DogFrees

Next == EngineNext \/ DriverNext \/ DogNext \/ Tick

Spec == Init /\ [][Next]_vars

(***************************************************************************)
(* Time passes; the poster, the JVM and a fmi2FreeInstance once begun go   *)
(* on; the service returns.  Nobody has to call, close or crash.           *)
(***************************************************************************)
FairSpec ==
    /\ Spec
    /\ WF_vars(Tick) /\ WF_vars(Post) /\ WF_vars(Wake)
    /\ WF_vars(StopPoster) /\ WF_vars(JoinPoster)
    /\ WF_vars(Open \/ OpenFails)
    /\ WF_vars(Poll \/ Read \/ Reply \/ FreeInstantiate)
    /\ WF_vars(StopClient)
    /\ WF_vars(CheckConnected \/ GetResult \/ GetTimeout \/ HandleTimeout \/ DogFrees)
    /\ WF_vars(TaskStart \/ TaskTake)

-----------------------------------------------------------------------------
(* Safety.                                                                 *)

\* The type invariant.
TypeOK ==
    /\ engine \in EngineStates /\ alive \in BOOLEAN
    /\ poster \in PosterStates /\ since \in Nat /\ left \in 0..MaxPermits
    /\ permits \in 0..MaxPermits /\ message \in {"none", "call", "free"}
    /\ connected \in BOOLEAN /\ client \in {"none", "open", "deleted"}
    /\ command \in CommandStates /\ closer \in {"none", "stop", "done"}
    /\ freed \in Nat
    /\ dog \in DogStates /\ waited \in Nat /\ dogLag \in Nat
    /\ task \in TaskStates /\ taskLag \in Nat

(***************************************************************************)
(* No false alarm: handleTimeout only runs when the engine's poster has    *)
(* stopped, or when the driver has been closed by hand.  A false alarm     *)
(* would free the instance and leave the engine's next call unanswered.    *)
(***************************************************************************)
NoFalseAlarm ==
    dog \in {"alarm", "freeing"} => poster = "done" \/ client = "deleted"

(***************************************************************************)
(* The alarm is not late: once the poster has ended, the dog watches for   *)
(* no longer than four times ALIVE_INTERVAL, the lags of its last round,   *)
(* and those of a round for each post the engine was ahead of it.  The     *)
(* semaphore counts: what was posted while the JVM started up has to be    *)
(* worked off first.                                                       *)
(***************************************************************************)
DetectedInTime ==
    poster = "done" /\ Watching =>
        since <= 4 * AliveInterval + 4 * (JvmLag * left + JvmLag)

-----------------------------------------------------------------------------
(* The inductive invariant behind NoFalseAlarm and DetectedInTime.         *)

\* Who is there: the dog has a task while it waits, close takes the client.
Roles ==
    /\ client = "none" <=> dog = "none"
    /\ command = "none" => dog = "none"
    /\ client # "open" => ~connected
    /\ closer # "none" => ~connected /\ dog # "none"
    /\ dog \in {"none", "check"} => task = "none"
    /\ dog = "get" => task # "none"
    /\ task = "false" => client = "deleted"

\* Nobody is later than the machine allows.
LagsBounded ==
    /\ poster # "done" => since <= AliveDelay + EngineLag
    /\ taskLag <= JvmLag /\ dogLag <= JvmLag
    /\ waited <= GetAliveInterval

\* How long the dog has waited for a task that has not returned.
WaitBounded ==
    dog = "get" /\ client = "open" =>
        /\ task = "submitted" => waited <= taskLag
        /\ ~TaskDone /\ permits = 0 /\ poster # "done" => waited <= since
        /\ task = "waiting" /\ permits > 0 =>
            \/ waited <= AliveDelay + EngineLag + taskLag
            \/ waited <= JvmLag + taskLag

\* A lag for each post the dog has worked off since the poster has ended.
Rounds == JvmLag * (left - permits)

\* How long the poster has been silent, at each position of the dog.
SilenceBounded ==
    poster = "done" =>
        /\ permits <= left
        /\ dog = "check" =>
            \/ since <= 4 * Rounds + JvmLag + dogLag
            \/ client = "deleted" /\ since <= 4 * Rounds + 3 * JvmLag + GetAliveInterval + dogLag
        /\ dog = "get" => since <= 4 * Rounds + 2 * JvmLag + waited + dogLag
        /\ dog = "get" /\ client = "open" =>
            /\ task = "submitted" => since <= 4 * Rounds + 2 * JvmLag + taskLag
            /\ task = "waiting" /\ permits > 0 => since <= 4 * Rounds + 3 * JvmLag + taskLag
            /\ task = "true" => since <= 4 * Rounds + dogLag
        /\ dog = "alarm" => since <= 4 * Rounds + 3 * JvmLag + GetAliveInterval + dogLag

\* As long as the poster runs and nobody has closed the driver, the command
\* thread goes on, and a call that waits for its reply is on its way to it.
CommandsServed ==
    /\ engine \in {"idle", "calling", "freeing"} => alive /\ poster # "done"
    /\ engine = "gone" => poster = "done"
    /\ client = "deleted" => closer # "none"
    /\ poster # "done" /\ closer = "none" =>
        /\ command # "done"
        /\ command # "none" => connected /\ client = "open"
        /\ engine = "calling" => message = "call" \/ command = "call"

\* The dog disconnects the driver before it frees the instance; otherwise only
\* close() does.
Disconnects ==
    /\ Watching /\ ~connected => closer # "none"
    /\ dog \in {"freeing", "done"} => ~connected
    /\ dog = "done" => freed > 0 \/ closer # "none"

IInv ==
    /\ TypeOK /\ Roles /\ LagsBounded /\ WaitBounded
    /\ NoFalseAlarm /\ SilenceBounded /\ CommandsServed /\ Disconnects

-----------------------------------------------------------------------------
(* Liveness.                                                               *)

(***************************************************************************)
(* An orphan ends: when the engine is gone, the JVM frees the instance and *)
(* both of its threads end, unless the driver was closed by hand.          *)
(***************************************************************************)
OrphanIsFreed ==
    poster = "done" /\ dog # "none" ~>
        dog = "done" /\ command = "done" /\ (freed > 0 \/ closer # "none")

\* A call of the engine is answered, unless the driver was closed by hand.
CallIsAnswered ==
    engine = "calling" ~> engine # "calling" \/ closer # "none"
=============================================================================
