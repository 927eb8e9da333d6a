# Verification of shm-fmi in TLA+

shm-fmi lets a co-simulation engine use an FMU that runs in a process of its own, usually a JVM.
The engine loads `libshmfmu`, which implements the FMI 2.0 functions; every function becomes a
protobuf message in a piece of shared memory, and a command loop in the JVM hands it to the FMU's
service. This directory models the parts of that on which its correctness rests, checks the models
with TLC and proves their properties, safety and most of the liveness, with TLAPS.

## 1. The system

| Component | State it keeps | Operations |
|---|---|---|
| Channel: `libshmipc` `IpcServer`, `IpcClient`, `SharedFmiMessage.h` | one message slot in shared memory; the semaphores `avail` and `signal` | `send` (write, post avail, wait for signal), `getMessage`, `sendReply` |
| Names: `IpcBase`, `create`, `connect`, destructors | shm and semaphore names of the operating system, the handles of both ends | `openShm`, `createSignal`, `~IpcBase` |
| Timed wait: `IpcBase::signalWait`, `sem_timedwait.cpp` | semaphore, clock | wait with a deadline |
| `libshmfmi` `FmuProxy` | none between calls | one function per FMI function: serialise, send, parse |
| `libshmfmu` `fmu.cpp`, `FmuContainer` | `g_clients`, per instance the proxy, the launcher and the callback thread | `fmi2Instantiate`, the FMI calls, `fmi2FreeInstance`, `callbackThreadFunc` |
| `shmfmi-server` `ProtocolDriver` | `connected`, the command thread, the watch dog thread | `open`, `run`, `setWatchDog`, `handleTimeout`, `close` |
| `LogProtocolDriver`, `SharedMemoryServer` | `g_server`, `connected` | constructor, `log`, `close` |
| `SharedMemory` (native) | `g_client` | `setId`, `read`, `send`, `waitForWatchDogEvent`, `stop` |
| Watch dog: `connWatchDog`, `setWatchDog` | the `connWatchDog` semaphore | a post every 200 ms, a wait of 800 ms |
| `JavaLauncher`, `ConfigFile`, `uri.c` | the launched process, its arguments | `launch`, `terminate`, parsing |

How they interact. The *command channel*: `FmuProxy::send` is the server, waits without a timeout
and parses the reply out of the slot; the thread of `ProtocolDriver` is the client. The *log channel*
runs the other way: `LogProtocolDriver` is the server and gives up after 20 ms,
`callbackThreadFunc` in the engine is the client. Either channel exists twice over: as objects that
processes have open, and as names through which the other side finds them. The engine creates the
command channel before it launches the JVM; the service creates the log channel while it serves
`fmi2Instantiate`, before the engine starts the callback thread.

What is hard. Two processes share a slot without a lock. A wait that fails leaves its permit behind.
Names outlive the processes that made them. The deadline of a wait is computed by hand. Messages
have a maximal length, and an empty message parses as a reply of every type. Threads are stopped by
unsynchronised flags. A semaphore that is meant as a heart beat counts the beats nobody has listened to.
The thread that uses an instance's container is not the one that deletes it. `PROJECT.json` lists the hazards one by one, at their lines.

## 2. The modules

| Module | Models | Correspondence |
|---|---|---|
| `Rpc` | what the command channel promises | `calls`, `executed`, `returned` number the FMI calls |
| `Delivery` | what a channel promises the side that sends, in either mode | `sent` numbers the messages, `given` is what the other side was given, `waiting` is a send in progress; until a send has given up each message is delivered once and before its send returns (`DeliverNext`); afterwards it may come late (`DeliverLate`) or something that nobody sent in its place (`MakeUp`), but no message comes twice or after a newer one |
| `IpcChannel` | one channel, connected | one action per step of `send` (`SendBegin`, `SendWrite`, `PostAvail`, `WaitSignal` or `GiveUpWait`, `Parse`) and of the client (`GetMessage`, `ReadCmd`, `ReadSize`, `ReadBody`, `Serve`, `WriteReply`, `PostSignal`); `given` is what the service was called with |
| `CommandChannel` | the channel as `FmuProxy` uses it | `GiveUp` off, `ParsesReply` on; the refinement mapping to `Rpc` |
| `NamedIpc` | names, handles and the life of the two ends | `OpenShm`, `UnlinkSem`, `OpenSem` are the steps of `create`; `AttachShm`, `AttachSem` of `connect`; `DeleteServer`, `DeleteClient`, `RetryConnect`, `StopRetrying` run destructors; crashes do not |
| `WatchDog` | the heart beat and both threads of the JVM | `Post`, `Wake` are `connWatchDog`; `CheckConnected`, `GetResult`, `GetTimeout`, `HandleTimeout`, `DogFrees` the thread of `setWatchDog`, `TaskStart`, `TaskTake` its executor task; `Poll`, `Read`, `Reply`, `FreeInstantiate` the thread of `run`; `CloseDriver`, `StopClient` are `close`; `Tick` is 100 ms |
| `FmuSession` | one instance, step by step | `Initialize` to `Instantiated` are `fmi2Instantiate`; `Free`, `Deactivate`, `JoinCallback`, `DeleteContainer` are `fmi2FreeInstance`; `WhileNotConnected` to `DeleteClient` are `callbackThreadFunc`; `TakeRequest`, `Respond`, `LeaveUnanswered`, `ServiceThrows` are `ProtocolDriver.run`; `StartLogServer`, `BeginLog`, `LogAnswered`, `LogGivesUp`, `CloseLog` are `LogProtocolDriver` and its native server |
| `NativePath` | `URIToNativePath` (POSIX) | `SkipScheme`, then `Decode` (of `%00` too) and `Copy` for each turn of the loop, `Terminate`; the variables are the function's |
| `TimedWait` | one `signalWait` with a timeout | `Deadline` is the arithmetic of `signalWait`; `Take`, `Fail` are the C library's `sem_timedwait`; `TryWait`, `CheckClock` the project's, `wake` the end of its sleep; `Tick` is 1 ms, and `late` says for how long a thread that could go on has not been scheduled |
| `FmiCall` | an FMI function from `fmu.cpp` to the service and back | `Invoke`, `Instantiate`, `FreeInstance`; `Serve`, `Reject`, `LeaveUnanswered` in `ProtocolDriver.run`; `Return`, `ReturnInstance` |
| `MC...` | the same for TLC | |
| `...Proofs` | theorems and proofs | |
| `WeakFairness` | nothing: weak fairness in the form the proofs use | `WeaklyFair(G, A, v)` is `WF_v(A)` where G is the guard of A |

The models compose by what they assume of each other. `IpcChannel` starts connected, which is what
`NamedIpc` shows the two ends to be. `GiveUpWait` and `LogGivesUp` may find a permit there: `TimedWait` shows that
a wait may be refused before the semaphore is looked at, or fail as the permit comes. `WatchDog` and `FmuSession` reduce the command
channel to one message under way, again by `Rpc`; `FmuSession` reduces the log channel to its two semaphores
and the number of the message in the slot, which the reply overwrites as in the code. What that leaves out is accounted for by `Delivery`: the whole channel (`ChannelDelivers`)
and its reduction (`SessionDelivers`) are both proved to implement it. `FmiCall` delivers each request once and
the reply to its own call, which is what `CommandChannel` shows to be an implementation of `Rpc`.

Abstractions. A message has three parts, the command, the size and the body: enough to
tell a whole message from a torn one, since client and service read it in place, one after the other. The content of a part is its author and the number of the send it
belongs to. What the service was given is a number if size and body come from one and the same message of the server, and 0 if they do not: then it was
a mixture, or the client's own empty reply to an earlier message. A poll that times out changes nothing and is a stuttering step. In `NamedIpc` an object is
the number of the run that created it. `WatchDog` counts ticks of 100 ms and takes each
thread to be late by at most a constant; the two loops' own 100 ms and 5 ms waits are steps without a duration. In `FmuSession`
`MaxLogs` bounds the messages. In `NativePath` a character is one of the classes the code tells apart, and a uri is the longest scheme that fits with the text behind it, as the code looks for `file:///` first.
`TimedWait` counts milliseconds, lets `Modulus` stand
for 2^32, and takes the waiting thread to be at most `Lag` late with each step; the clock does not wait for it. In `FmiCall` values are not modelled, only how many of those the service returned reach the
caller; a protobuf message is the record of its fields, absent fields having their defaults; a component is
the address of its container, and a new container may get that of a freed one; the service returns at
most as many values as it is asked for. `fmi2Instantiate` has the result `OK` or `Fatal` for a
component and for NULL. In `IpcChannel` the command
channel ends before `fmi2FreeInstance`: its message is sent with a wait of 1 ms, the result is ignored and nothing is sent
afterwards. Everything is the POSIX build on Linux (on macOS `openShm` unlinks the segment before it opens it): Windows uses auto-reset events, which remember one post
at most (the fault `PostAvailCoalesced` shows what that does to the log channel).

## 3. The runs

| Run | Question | Bounds | States |
|---|---|---|---|
| `command_channel` | is the command channel a synchronous procedure call, which also returns? | 10 sends | 241 |
| `log_channel` | what survives when waits may fail, and can a dead engine block the FMU's logging? | 4 sends, no fairness for the client | 258694 |
| `named_ordered` | do ends that start in order find each other, whatever is left behind? | 3 runs with one key, the first started by hand | 657 |
| `named_retry` | does a client that retries get connected? **No.** | 1 run, started by hand | |
| `timed` | when does a wait fail early, by how much may it be late? | timeouts of the code and 1500 ms, starts around the end of a second and the wrap of the macOS clock; 2 ms of lag, up to 20 ms past the deadline | 235458 |
| `timed_test` | does a wait of 10 ms last 10 ms? **No.** | Linux, 10 ms | |
| `fmi_call` | do status and values of a call come from the service? | 2 instances, 2 values | 63652 |
| `fmi_oversized` | does a reply that is too long return fatal? **No.** | 1 instance | |
| `watch_dog` | does the JVM notice the end of the engine, and only that? | posts every 2 ticks and up to 4 late, 1 tick of lag in the JVM, 3 permits | 465049 |
| `fmu_session` | is the container used after it is deleted; are logs delivered as the whole channel does, and before the return; what returns? | 4 logs; the JVM may die, the log server fail, the service throw or return nothing | 103764 |
| `log_server_fails` | does the log server give up when it cannot be created? **No.** | 2 logs, a JVM that does not die by itself | |
| `native_path` | is the path the decoded uri, and inside its buffer? | 3 schemes, 5 characters after the scheme, 2 hexadecimal digits, one pair of which is `%00` | 486992 |

Why the bounds are enough. In `command_channel` the state after each send is that of the one before
with larger numbers, so ten sends repeat one cycle ten times; the proofs are for every number. In
`log_channel` four sends let two waits fail, the client lag by two messages and both sides
be inside the slot in every combination. In `named_ordered` the second and third run meet what a run started by hand and
one in order have left together. `timed` starts at each millisecond of the last 25 of a second, more than the longest
timeout below a second; the 20 ms it goes on past the deadline are ten times the lag, so a wait that missed its deadline is seen to. In `watch_dog` the lags
are the largest that leave slack (2 + 4 + 1 ticks are just below the 8 of `getAliveInterval`); three permits are enough for the
poster to be ahead, for the semaphore to be full and for the alarm to be late by the rounds that work them off. In
`fmu_session` four logs spread over Instantiate, calls and free, connected and not. In `native_path` five characters hold an
encoded character, a percent sign that encodes nothing and one behind which the uri ends, in every order, and decoded
slashes, backslashes, percent signs and zeros. In `fmi_call` one instance can be freed while the other is in use, or before the other is made at its address, and a
getter may return none, some and all of its values.

Four runs end in a violation; each is a disagreement of the code with what it says or tests:

- **`named_retry`**: a client whose attempt fails deletes its `IpcClient`, and `~IpcBase` removes the
  *server's* segment name (`IpcBase.cpp:108`; the test `if (m_hMapFile)` is also true for -1).
  Later attempts find no segment, for ever, although `fmu.cpp:145` promises a retry. The engine's
  order of starting (`FirstAttemptConnects`, proved) keeps this from happening as long as the peer
  is not started by hand.
- **`timed_test`**: `IpcBase.cpp:370` does not carry `tv_nsec` into `tv_sec`. A wait that crosses into the next
  second fails at once with EINVAL. `FailsEarlyOnlyAcross` shows these are the only early failures,
  `LateBySecondsOnly` bounds the error made by adding the seconds twice: for the code's timeouts, all below a second, it is nothing.
  The library may refuse such a deadline whether or not a permit is there, and the permit then stays behind.
- **`fmi_oversized`**: `ProtocolDriver.java:322` logs "Returning FATAL" and line 325 sends an empty message,
  which the engine's getters return as fmi2OK with no value.
- **`log_server_fails`**: `serverStart` deletes a server whose `create` failed, and `~IpcServer` joins a thread that was never
  started (`IpcServer.cpp:39`). The JVM dies at the first of the ten attempts that `LogProtocolDriver`
  makes before it gives up with an exception. (The exception would not bring `fmi2Instantiate` back either: see below.)

What the passing runs say about the log channel once a log has given up: the permit of a message stays behind, and the message is overwritten by the
next one or by the client's own empty reply. `callbackThreadFunc` then takes that reply for a message and calls the engine's logger with it, status OK and empty texts.
`MessagesConserved` and `ImplementsDelivery` say what is left: the logger is called once for each message sent, no message reaches it twice or after a
newer one, and each one that is lost has such an invented one in its place.

What the passing runs say about calls: they return as long as the service answers (`CallsReturn`). `ProtocolDriver.run` catches only what parsing a request throws (line 303): any
other exception of the service, like the one `LogProtocolDriver` gives up with, ends the driver's thread and leaves the engine waiting, without a timeout, for a JVM that
lives; a reply that is null is left unsent (line 330) to the same effect. Both are the variable `unanswered` of `FmuSession`.

What `timed` says about macOS: the project's `sem_timedwait` compares two 32 bit numbers of milliseconds. A thread that is late by as little as a millisecond when its deadline is the last
before the wrap finds the deadline ahead of it and waits for another 49.7 days. Such waits are `MayMissDeadline`, which `LateBySecondsOnly` and `EveryWaitEnds` have to except;
without that exception TLC violates both.

What `native_path` says about `%00`: it is decoded like any other, so the C string ends there, without the separator that the comment at `uri.c:38` promises. `PathIsDecoded` has the
bytes before it, and the separator only where there is none.

What the passing runs say about the watch dog, for a reader who wants to change its constants: the beats posted while the JVM starts
up are worked off one after the other, at the speed of the JVM's threads and not of the clock, before a missing beat can be
noticed (`DetectedInTime`); the task whose wait timed out stays behind in `sem_wait` for good; `FreeInstantiate` reaches
the service a second time when the engine has freed the instance and gone (nothing in the repository says it must not);
after `close` both threads may use the client `stop` has deleted, the command thread also to send the reply to a call (`JvmCrash`).

Deadlock is not checked, because all models may stop: the engine need not call, a wait ends, runs end.

## 4. Fairness

`IpcChannel`: the threads keep running (`ServerFairness`, `ClientFairness`), the service returns, and a wait with
a timeout ends. Nobody has to send. `log_channel` assumes the server's fairness alone, since the engine may
stop; `EveryMessageServed` has the client's as its hypothesis. `NamedIpc`: `create` runs to its end and a client that may start keeps trying; nothing has to end.
`TimedWait`: time passes and the waiting thread is scheduled, within `Lag`; nobody has to post. `WatchDog`: time passes, each thread that could go on does, and a
`fmi2FreeInstance` once begun ends; nobody has to call, free, close or crash. `FmuSession`: a function that was called goes on,
the callback thread runs and the engine's logger returns, a JVM that is up serves and its service returns or throws, and a log's wait ends; nobody has to
call, log or free. `FmiCall`: a service that is called
returns or fails, and the engine's thread goes on once the reply is there; the engine need not call. All of
these are weak fairness: each action stays enabled until its own thread takes it. The proofs assume the same, guard by guard (section 5). In `FmiCall` and `FmuSession` the service may
always choose to leave a call unanswered, which is why `CallReturns` and `CallsReturn` have that way out: without a timeout the engine then hangs.

## 5. The proofs

All theorems are for every value of the constants, from the named assumptions of the modules (`MaxSendsAssumption`,
`ModeAssumption`, `CommandModeAssumption`, `NumRunsAssumption`, `ByHandAssumption`, `BoundsAssumption`, `TimeAssumption`,
`DelayAssumption`, `LagAssumption`, `SessionAssumption`, `CharAssumption`).

- **`IpcChannelProofs`**. None of the safety properties is inductive. `NoSlotRace` needs to know that there is one permit
  on its way (`PermitsConserved`) and what the slot holds while it is (`InLockstep`): whoever has the permit owns the slot,
  and the other side's numbers fix its content. When waits have failed, what remains is
  `NumbersOrdered` (a number of the server's in the slot or in the client's copy is of a message that has not been delivered, unless the reply is about to overwrite it;
  a message that is being written cannot have been read whole), from which
  the order in `MessagesConserved` and in `ImplementsDelivery` follows, and `SlotFilled` (the first write is complete before the first permit), from which
  `NeverServesZeroedSlot` follows. `ChannelDelivers` maps each step to one of `Delivery` or to none: `Serve` delivers, and before
  a wait has failed `InLockstep` says that the message served is the one waited for; afterwards it is one that was not delivered yet (`NumbersOrdered`), or none, which is `MakeUp`. `ChannelQuiets` counts:
  a permit of `avail` is worth nine steps, what each side has still to do is a few more, and every step but `SendBegin` makes the
  sum (`Work`) smaller, so permits that failed waits have left behind never keep the channel busy by themselves.
- **`CommandChannelProofs`**. Without timeouts `gaveUp` stays 0, so the lockstep is unconditional, and every step is a
  `Call` (`SendBegin`), an `Execute` (`Serve`), a `Return` (`Parse`) or changes nothing that `Rpc` sees.
- **`NamedIpcProofs`**. Runs follow one another, so an acting run has the name space to itself (`RunsFollow`, `ActsAlone`).
  `OwnSemaphores` ties each name to the object created behind it while `create` proceeds; it needs the
  unlink before the open. For a run that is not started by hand, `LaunchedFinds` and `AttachedToServer` say that each name the
  client has yet to open still leads to its server's object, so its first attempt succeeds (`FirstAttempt`). `OrderedStart` lets the first run be started
  by hand, as the run does: its client can meet nothing but its own server's objects, since there is no earlier run and, by
  `NoneOfLaterRuns` and `OpenedExist`, no name or handle ever leads to an object of a run that has not begun.
- **`WatchDogProofs`**. `NoFalseAlarm` is a statement about time, so the invariant counts it. `LagsBounded` is what `Tick` leaves;
  `WaitBounded` says, for each position of the task, how the time the dog has waited is made up: of the task's lag, of the
  poster's silence while there is no permit, and of at most one period of the poster with its lag once there is one. With
  `LagAssumption` the wait never reaches `getAliveInterval` while the poster runs. `SilenceBounded` is the same count for
  the time since the poster's end, with a lag for each permit worked off since (`Rounds`); `DetectedInTime` follows.
- **`FmuSessionProofs`**. `Stages` ties the container to the engine's position and that to the callback thread's;
  `Turns` says that call, service and reply take turns; `LogPlaces` that, as long as no log gave up, a message is at exactly one
  place: a permit of `avail`, the callback thread, or a permit of `signal`. Once the service has returned it is at none, so all logs have reached the logger.
  The same invariant makes `CallLogger` the delivery of the message that is waited for (`SessionDelivers`). When a log has given up, `LogsCounted` is what is left: as many calls of the
  logger made or under way as messages, and a slot that holds the latest message, not yet delivered, or the reply. `StepsLeft` ranks the positions of the callback
  thread: once `active` is off, which `Stages` allows in the last states of `fmi2FreeInstance` only and nothing turns on again, each of its steps
  takes it down (`ThreadWindsDown`).
- **`NativePathProofs`**. `PositionsAgree`: `path_len + i = uri_len + j` at every turn of the loop, so at its end `path_len = j`, and what was written
  is exactly the bytes before j. With `path_start + j <= i` this keeps every write in the allocated `path_len + 2` bytes (`BufferSuffices`).
  `PathCorrect` says what is written. The reference has no loop: a position begins a character unless one of the two before it begins a `%XX`, and the
  character's place in the path is the number of those before it. `DecodedSoFar` says the loop stands at such a position with j at
  its place and the characters before it decoded; a step adds one element to the set that is counted (`OffsetNext`), places grow with
  positions (`OffsetSmaller`), so a write never disturbs an earlier character, and the code's `uri_len - 2` sees a `%XX` exactly where the reference does (`EncodedAgrees`).
- **`TimedWaitProofs`**. `InTime`: a wait that fails before its deadline has crossed. `NotForLong`: nobody waits past the deadline for longer than the thread is late, once in the wait and
  once before the look at the clock, and no sleep ends after it. The latter needs ~`MayMissDeadline`: then deadline and clock lie in the same period of the useconds_t, or the clock in an earlier one,
  whenever the thread looks (`NoWrap`), so the difference of the remainders is never positive when the time is over (`DelayOver`) and never more than is left before (`DelayAhead`). The deadline is the timeout
  ahead and the whole seconds of the timeout once more (`DeadlineExact`), and a number whose remainder is smaller although it is larger has crossed a multiple
  (`Wraps`). `FailsEarlyOnlyAcross` and `LateBySecondsOnly` follow.
- **`FmiCallProofs`**. `ReplyIsTheServices` says where a reply in flight can come from: the service, its
  cut to the defaults, or the driver's refusal. It
  makes the conjunction of the properties inductive, also where a new container gets the address of one that the engine still knows.

**Liveness.** A run's liveness properties are theorems too, all but two (below). The provers know neither `WF_vars(A)` nor ENABLED, but
they do know the temporal operators, so the fairness of an action is a hypothesis with the action's guard written out: `WeaklyFair(G, A, vars)` is
`<>[]G => []<><<A>>_vars` (`WeakFairness`), which is `WF_vars(A)` because G holds exactly where a step of A is possible. The guards
stand beside the actions they belong to (`ServerRuns`, `ClientRuns`, `WaiterRuns`, `DriverRuns`, `EngineRuns`, `CallbackRuns`, `ServiceRuns`, `LogRuns`, `DogRuns`);
that each is equivalent to ENABLED of its action in every reachable state of the runs was confirmed with TLC. Each proof has the same shape: the invariant says at which places the
work can be, a lemma that a step leaves it at its place or takes it to a later one (`...Step`), a lemma that the step of the fair action takes it on (`...Move`), and
temporal logic chains the places. No fairness is assumed that `FairSpec` of the module does not state, but for two hypotheses:

- `TimePasses`, of `TimedWait` and `WatchDog`. The runs have `WF_vars(Tick)`. From there the time passes any bound by induction over its ticks, which is out of
  reach here, so the theorems say it at once: the clock does not stop short of the deadline unless the wait ends before (`TimedWait`); whatever n is, the poster's silence outlasts n
  unless the orphan's life ends before (`WatchDog`). What the proofs add is that the thread then sees it: a look at the clock after the deadline ends the wait, whatever the two 32 bit numbers
  are (`DelayOver`), and the dog notices the silence within a bound (`SilenceEnds`).
- `LogsFinitely`, of `FmuSession`: a call whose service logs for ever does not return. In the run `MaxLogs` sees to that.

What is proved in this way:

- `SendReturns` and `CommandReturns` are `EverySendReturns` in the two modes. With a timeout the server's fairness is enough. Without, the permit that
  `PermitsConserved` promises is followed through the client (`WaitPlaces`, `WaitStep`, `ClientStep`). `CommandChannelIsFairRpc` is the rest of `ImplementsRpc`: the fairness of
  `Execute` and `Return`, because between two calls nothing is left to execute or to return (`QuietWhenIdle`).
- `NextMessageServed`: `EveryMessageServed` for one message, whatever waits have failed.
- `LaunchedConnect` (`OrderedStartConnects`), for any number of runs, started by hand or not: `FirstAttempt` says that no attempt fails, so connecting only goes forward.
- `WaitsEnd` (`EveryWaitEnds`): unless it may miss its deadline, a wait that goes on past it finds a permit or the end of its time, and loses neither again (`LateStep`).
- `CallEnds` (`CallReturns`) needs `Answerable` in the invariant: a call asks for a number of values its command allows, and no driver's thread has ended unless the call that ended it is the one that waits.
- `CallsAnswered` (`CallIsAnswered`) and `OrphansEnd` (`OrphanIsFreed`) need `CommandsServed` (while the poster runs and nobody closes the driver, the command thread goes on, and a call that waits is in the channel or with it) and
  `Disconnects` (a dog that frees the instance, or has ended, has disconnected the driver, so the command thread leaves its loop).
- `FreeingEnds` (`FreeReturns`): with `active` off the callback thread has at most five steps left, and `join` returns. `CallingEnds` (`CallsReturn`) needs
  `CallPlaces`: while an engine waits, its call is a request, inside the service, or a reply, or the service has left it unanswered.

Only model-checked: `EveryMessageServed` as a whole, since going from one message to all of them is an induction over their number under a
temporal formula (`NextMessageServed` is its step); and `ImplementsRpc` in the form `R!Spec`, whose `WF` contains ENABLED (`CommandChannelIsFairRpc` has the same
content with the guards in place of ENABLED). Every other property a passing run checks is proved: every invariant, action property and refinement, and the liveness.
`WorkRunsOut` and `CallbackWindsDown` say without any fairness what some of the liveness rests on: the channel comes to rest, the callback thread has an end.

Proved and in no run: `WorkRunsOut`, `WritesInBuffer` (a part of the
`IInv` of `native_path`), `ImplementsRpcSafety` and `RpcRuns` (together `ImplementsRpc`).

Every property of a passing run comes with a mutant of the code, defined beside the definition it
mutates and marked `Fault:`, which breaks it.

## 6. What is not modelled, and the plan

Not modelled, and why:

- Windows events, mappings and `CreateProcess`: the runs are about the POSIX build.
- `fork`, `exec`, `chdir` in `JavaLauncher`: `FmuSession` has what they leave, a JVM that comes up or does not. A failed `execvp`
  leaves a copy of the engine's process running on inside `fmi2Instantiate`; that is listed as a hazard.
- `ConfigFile`: it reads lines with the standard library and keeps no state; `uuid4` and `protobuf` come from elsewhere.
- An engine that goes on using a component it has freed: `FmiCall` lets it, and the call then reaches whatever instance has that address.
- Two engine threads in `fmi2Instantiate` or `fmi2FreeInstance` at a time, which race on the vector `g_clients`.
- Two runs with one callback key that overlap: two live instances of the same GUID and name, or an engine started again after a crash
  while the old JVM is still waiting for its watch dog. Either server can then take the names from the other; nothing in the repository
  says it must not. `NamedIpc` has runs with one key follow one another.
- The sample service `TestResponder` and the test drivers; `FmiCall` and `FmuSession` have a service that may do anything the interface allows.
- `src/shmfmi-server/src/jni` holds the headers (and the accessibility bridge) of two Java development kits, vendored for cross
  compilation. They are most of the repository's C lines and none of its logic.

What is left to do, in this order:

1. What can be kept when runs of one callback key overlap: the invariants of `NamedIpc` (`RunsFollow`, `ActsAlone`) have to
   be restated per object instead of per run.
2. A second engine thread in `FmuSession`, for `g_clients`.
3. A composition of `FmuSession` with `NamedIpc` for the log channel, which would replace the abstract `Connect`.
4. `ConfigFile` against a reference definition, once lines are modelled as sequences of character classes as in `NativePath`.
