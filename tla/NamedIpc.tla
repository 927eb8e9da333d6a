------------------------------ MODULE NamedIpc ------------------------------
(***************************************************************************)
(* How the two ends of a channel find each other on POSIX systems: by the  *)
(* names of a shared memory segment and of three semaphores, all derived   *)
(* from one key.  A name is only a directory entry: the object it refers   *)
(* to lives on in the processes that opened it when the name is removed or *)
(* is given to a new object, so two ends that "connect" under the same     *)
(* names need not end up with the same objects.                            *)
(*                                                                         *)
(* A run is one IpcServer and the IpcClient meant for it.  All runs of the *)
(* model use the same key, as runs do with the fixed key "shmFmiTest" of   *)
(* a skipped launch and with the callback key, made from the FMU's GUID    *)
(* and the instance's name.  Runs follow one another, and each finds what  *)
(* the earlier ones have left behind.                                      *)
(***************************************************************************)
EXTENDS Naturals

CONSTANTS
    NumRuns,    \* how many runs use the key
    ByHand      \* the runs whose client may start before create() is over

ASSUME NumRunsAssumption == NumRuns \in Nat

Runs == 1..NumRuns

ASSUME ByHandAssumption == ByHand \subseteq Runs

Semaphores == {"sig", "avail", "dog"}
Names == {"shm"} \cup Semaphores

\* An object is known by the run whose server created it; 0 is no object.
None == 0
Object == 0..NumRuns
NoHandles == [n \in Names |-> None]

VARIABLES
    names,     \* the name space of the operating system: names to objects
    spc,       \* per run: where the server is in its life
    opened,    \* per run: the objects the server has open
    cpc,       \* per run: where the client is in its life
    attached   \* per run: the objects the client has open

serverVars == <<spc, opened>>
clientVars == <<cpc, attached>>
vars == <<names, serverVars, clientVars>>

\* IpcServer::create: each semaphore is unlinked and then created.
ServerStates ==
    {"new", "unlink sig", "sig", "unlink avail", "avail", "unlink dog", "dog",
     "up", "gone"}
AfterShm == "unlink sig"
UnlinkOf(n) ==
    CASE n = "sig"   -> "unlink sig"
      [] n = "avail" -> "unlink avail"
      [] n = "dog"   -> "unlink dog"
AfterServer(n) ==
    CASE n = "sig"   -> "unlink avail"
      [] n = "avail" -> "unlink dog"
      [] n = "dog"   -> "up"

\* IpcClient::connect opens the semaphores in the same order.
ClientStates == {"unborn", "new", "sig", "avail", "dog", "up", "failed", "gone"}
AfterClient(n) ==
    CASE n = "sig"   -> "avail"
      [] n = "avail" -> "dog"
      [] n = "dog"   -> "up"

Init ==
    /\ names = [n \in Names |-> None]
    /\ spc = [r \in Runs |-> "new"] /\ opened = [r \in Runs |-> NoHandles]
    /\ cpc = [r \in Runs |-> "unborn"] /\ attached = [r \in Runs |-> NoHandles]

\* A run is over when both of its processes have let go of the channel.
Over(r) == spc[r] = "gone" /\ cpc[r] = "gone"
MayStart(r) == \A q \in Runs : q < r => Over(q)

-----------------------------------------------------------------------------
(* IpcServer::create                                                       *)

\* shm_open(O_CREAT | O_TRUNC), ftruncate and mmap: a segment that a name is
\* left for is emptied and used again.
OpenShm(r) ==
    /\ spc[r] = "new" /\ MayStart(r)
    /\ LET shm == IF names["shm"] = None THEN r ELSE names["shm"]
       IN  /\ names' = [names EXCEPT !["shm"] = shm]
           /\ opened' = [opened EXCEPT ![r]["shm"] = shm]
    /\ spc' = [spc EXCEPT ![r] = AfterShm]
    /\ UNCHANGED clientVars

\* Fault: createSignal does not unlink the semaphore of an earlier run.
UnlinkSemSkipped(r, n) ==
    /\ spc[r] = UnlinkOf(n)
    /\ spc' = [spc EXCEPT ![r] = n]
    /\ UNCHANGED <<names, opened, clientVars>>

UnlinkSem(r, n) ==
    /\ spc[r] = UnlinkOf(n)
    /\ names' = [names EXCEPT ![n] = None]
    /\ spc' = [spc EXCEPT ![r] = n]
    /\ UNCHANGED <<opened, clientVars>>

\* sem_open(O_CREAT) without O_EXCL: opens the semaphore if there is one.
OpenSem(r, n) ==
    /\ spc[r] = n
    /\ LET sem == IF names[n] = None THEN r ELSE names[n]
       IN  /\ names' = [names EXCEPT ![n] = sem]
           /\ opened' = [opened EXCEPT ![r][n] = sem]
    /\ spc' = [spc EXCEPT ![r] = AfterServer(n)]
    /\ UNCHANGED clientVars

\* ~IpcServer and ~IpcBase: only the name of the segment is removed, whatever
\* segment it stands for by now.
DeleteServer(r) ==
    /\ spc[r] = "up"
    /\ names' = [names EXCEPT !["shm"] = None]
    /\ opened' = [opened EXCEPT ![r] = NoHandles]
    /\ spc' = [spc EXCEPT ![r] = "gone"]
    /\ UNCHANGED clientVars

\* The server's process ends without running the destructor.
CrashServer(r) ==
    /\ spc[r] \notin {"new", "gone"}
    /\ opened' = [opened EXCEPT ![r] = NoHandles]
    /\ spc' = [spc EXCEPT ![r] = "gone"]
    /\ UNCHANGED <<names, clientVars>>

-----------------------------------------------------------------------------
(* IpcClient::connect and the loops that retry it                          *)

\* Fault: the FMU's process is launched before FmuProxy::initialize.
LaunchEarly(r) ==
    /\ cpc[r] = "unborn" /\ MayStart(r)
    /\ cpc' = [cpc EXCEPT ![r] = "new"]
    /\ UNCHANGED <<names, serverVars, attached>>

\* fmi2Instantiate launches the FMU's process, and starts the callback thread,
\* after create() has returned.  A client that is started by hand may be early.
Launch(r) ==
    /\ cpc[r] = "unborn"
    /\ IF r \in ByHand THEN MayStart(r) ELSE spc[r] = "up"
    /\ cpc' = [cpc EXCEPT ![r] = "new"]
    /\ UNCHANGED <<names, serverVars, attached>>

AttachShm(r) ==
    /\ cpc[r] = "new"
    /\ IF names["shm"] = None
       THEN cpc' = [cpc EXCEPT ![r] = "failed"] /\ UNCHANGED attached
       ELSE /\ attached' = [attached EXCEPT ![r]["shm"] = names["shm"]]
            /\ cpc' = [cpc EXCEPT ![r] = "sig"]
    /\ UNCHANGED <<names, serverVars>>

\* Fault: a semaphore that could not be opened does not make connect fail.
AttachSemUnchecked(r, n) ==
    /\ cpc[r] = n
    /\ attached' = [attached EXCEPT ![r][n] = names[n]]
    /\ cpc' = [cpc EXCEPT ![r] = AfterClient(n)]
    /\ UNCHANGED <<names, serverVars>>

AttachSem(r, n) ==
    /\ cpc[r] = n
    /\ IF names[n] = None
       THEN cpc' = [cpc EXCEPT ![r] = "failed"] /\ UNCHANGED attached
       ELSE /\ attached' = [attached EXCEPT ![r][n] = names[n]]
            /\ cpc' = [cpc EXCEPT ![r] = AfterClient(n)]
    /\ UNCHANGED <<names, serverVars>>

\* A failed IpcClient is deleted and connect is tried again.  The destructor
\* removes the segment's name even when shm_open failed: the handle -1 is not
\* 0.
RetryConnect(r) ==
    /\ cpc[r] = "failed"
    /\ names' = [names EXCEPT !["shm"] = None]
    /\ attached' = [attached EXCEPT ![r] = NoHandles]
    /\ cpc' = [cpc EXCEPT ![r] = "new"]
    /\ UNCHANGED serverVars

\* The retry loop ends without a connection: ProtocolDriver.open has used up
\* its retries, or the container is no longer active.
StopRetrying(r) ==
    /\ cpc[r] = "failed"
    /\ names' = [names EXCEPT !["shm"] = None]
    /\ attached' = [attached EXCEPT ![r] = NoHandles]
    /\ cpc' = [cpc EXCEPT ![r] = "gone"]
    /\ UNCHANGED serverVars

DeleteClient(r) ==
    /\ cpc[r] = "up"
    /\ names' = [names EXCEPT !["shm"] = None]
    /\ attached' = [attached EXCEPT ![r] = NoHandles]
    /\ cpc' = [cpc EXCEPT ![r] = "gone"]
    /\ UNCHANGED serverVars

\* The client's process ends, or is never started.
CrashClient(r) ==
    /\ cpc[r] # "gone" /\ MayStart(r)
    /\ attached' = [attached EXCEPT ![r] = NoHandles]
    /\ cpc' = [cpc EXCEPT ![r] = "gone"]
    /\ UNCHANGED <<names, serverVars>>

-----------------------------------------------------------------------------
ServerCreates(r) ==
    OpenShm(r) \/ \E n \in Semaphores : UnlinkSem(r, n) \/ OpenSem(r, n)

ClientConnects(r) ==
    \/ Launch(r) \/ AttachShm(r) \/ RetryConnect(r)
    \/ \E n \in Semaphores : AttachSem(r, n)

Ends(r) ==
    \/ DeleteServer(r) \/ CrashServer(r)
    \/ StopRetrying(r) \/ DeleteClient(r) \/ CrashClient(r)

Acts(r) == ServerCreates(r) \/ ClientConnects(r) \/ Ends(r)

Next == \E r \in Runs : Acts(r)

Spec == Init /\ [][Next]_vars

(***************************************************************************)
(* create() runs to its end, and a client, once it may start, does start   *)
(* and retries for as long as it has not stopped.  Nothing has to end.     *)
(***************************************************************************)
Fairness ==
    \A r \in Runs : WF_vars(ServerCreates(r)) /\ WF_vars(ClientConnects(r))

FairSpec == Spec /\ Fairness

-----------------------------------------------------------------------------
TypeOK ==
    /\ names \in [Names -> Object]
    /\ spc \in [Runs -> ServerStates] /\ cpc \in [Runs -> ClientStates]
    /\ opened \in [Runs -> [Names -> Object]]
    /\ attached \in [Runs -> [Names -> Object]]

(***************************************************************************)
(* Two ends that both believe to be connected share the segment and all    *)
(* three semaphores; otherwise FmuProxy would wait for ever for a client   *)
(* that polls another semaphore.                                           *)
(***************************************************************************)
ConnectedEndsAgree ==
    \A r \in Runs : spc[r] = "up" /\ cpc[r] = "up" => attached[r] = opened[r]

(***************************************************************************)
(* A server never uses a semaphore of an earlier run, which may hold       *)
(* permits that were posted then.                                          *)
(***************************************************************************)
SemaphoresAreFresh ==
    \A r \in Runs : spc[r] = "up" => \A n \in Semaphores : opened[r][n] = r

(***************************************************************************)
(* A client that starts when create() has returned connects at its first   *)
(* attempt, unless the server has gone in the meantime.                    *)
(***************************************************************************)
FirstAttemptConnects ==
    \A r \in Runs \ ByHand : spc[r] = "up" => cpc[r] # "failed"

\* Such a client does get connected, unless one of the two goes.
ConnectsTo(r) ==
    spc[r] = "up" ~> cpc[r] = "up" \/ spc[r] = "gone" \/ cpc[r] = "gone"

OrderedStartConnects == \A r \in Runs \ ByHand : ConnectsTo(r)

(***************************************************************************)
(* "Unable to connect to callback shm: %s retry in 1 sec.": a client that  *)
(* tries again and again gets connected to a server that is up, unless one *)
(* of the two goes.                                                        *)
(***************************************************************************)
RetryingConnects == \A r \in Runs : ConnectsTo(r)

-----------------------------------------------------------------------------
(* The inductive invariant behind the safety properties.                   *)

\* A run that has begun has the name space to itself.
RunsFollow ==
    \A r \in Runs : spc[r] # "new" \/ cpc[r] # "unborn" => MayStart(r)

\* The states of create() in which semaphore n is the server's own.
Created(n) ==
    CASE n = "sig"   -> {"unlink avail", "avail", "unlink dog", "dog", "up"}
      [] n = "avail" -> {"unlink dog", "dog", "up"}
      [] n = "dog"   -> {"up"}

\* A server's semaphores are its own, and their names lead to them.
OwnSemaphores ==
    \A r \in Runs, n \in Semaphores :
        /\ spc[r] = n => names[n] = None
        /\ spc[r] \in Created(n) => opened[r][n] = r /\ names[n] = r

\* A launched client finds the segment and every semaphore of its server.
LaunchedFinds ==
    \A r \in Runs \ ByHand :
        /\ cpc[r] \notin {"unborn", "gone"} => spc[r] \in {"up", "gone"}
        /\ spc[r] \notin {"new", "gone"} /\ cpc[r] \in {"unborn", "new"} =>
            names["shm"] = opened[r]["shm"]

\* The states of connect() in which name n has been opened.
Opened(n) ==
    CASE n = "shm"   -> {"sig", "avail", "dog", "up"}
      [] n = "sig"   -> {"avail", "dog", "up"}
      [] n = "avail" -> {"dog", "up"}
      [] n = "dog"   -> {"up"}

\* A client of a server that is up has only that server's objects open.
AttachedToServer ==
    \A r \in Runs \ ByHand :
        spc[r] = "up" =>
            /\ cpc[r] # "failed"
            /\ \A n \in Names :
                cpc[r] \in Opened(n) => attached[r][n] = opened[r][n]

\* No name leads to an object of a run that has not begun, and no end has one
\* open.
NoneOfLaterRuns ==
    \A r \in Runs, n \in Names :
        /\ MayStart(r) /\ ~Over(r) => names[n] <= r
        /\ opened[r][n] <= r /\ attached[r][n] <= r

\* Whatever an end has opened so far, it has found or created.
OpenedExist ==
    \A r \in Runs :
        /\ spc[r] \notin {"new", "gone"} => opened[r]["shm"] # None
        /\ \A n \in Names : cpc[r] \in Opened(n) => attached[r][n] # None

IInv ==
    /\ TypeOK
    /\ RunsFollow
    /\ OwnSemaphores
    /\ LaunchedFinds
    /\ AttachedToServer
    /\ NoneOfLaterRuns
    /\ OpenedExist
=============================================================================
