--------------------------- MODULE NamedIpcProofs ---------------------------
(***************************************************************************)
(* Proofs about NamedIpc, for every number of runs. A run that acts is the *)
(* only one that has begun and is not over (ActsAlone), so each part of    *)
(* the inductive invariant is proved of the acting run, action by action,  *)
(* and holds of the other runs because nothing of theirs matters.          *)
(***************************************************************************)
EXTENDS NamedIpc, WeakFairness, TLAPS

\* Runs are numbered from 1, so that no run is the number of "no object".
LEMMA RunFacts ==
    /\ None \in Object
    /\ \A r \in Runs : r \in Object /\ r # None /\ r \in Nat
BY NumRunsAssumption DEF Runs, Object, None

\* The segment and the three semaphores have different names.
LEMMA NameFacts ==
    Semaphores \subseteq Names /\ "shm" \in Names /\ "shm" \notin Semaphores
BY DEF Names, Semaphores

\* What the tables say of the states of create() and connect().
LEMMA ServerTable ==
    \A n \in Semaphores :
        /\ AfterServer(n) \in ServerStates \ ({"new", "gone"} \cup Semaphores)
        /\ UnlinkOf(n) \in ServerStates \ ({"new", "up", "gone"} \cup Semaphores)
        /\ n \in ServerStates \ {"new", "up", "gone"}
        /\ n \notin Created(n) /\ UnlinkOf(n) \notin Created(n)
        /\ AfterShm \notin Created(n) \cup Semaphores
        /\ {"new", "gone"} \cap Created(n) = {} /\ "up" \in Created(n)
        /\ \A m \in Semaphores :
            /\ AfterServer(m) \in Created(n) /\ m # n => m \in Created(n)
            /\ UnlinkOf(m) \in Created(n) => m \in Created(n)
            /\ m \in Created(n) => UnlinkOf(m) \in Created(n)
            /\ AfterServer(m) = "up" /\ m # n => m \in Created(n)
<1>1. ASSUME NEW n \in Semaphores
      PROVE  /\ AfterServer(n) \in ServerStates \ ({"new", "gone"} \cup Semaphores)
             /\ UnlinkOf(n) \in ServerStates \ ({"new", "up", "gone"} \cup Semaphores)
             /\ n \in ServerStates \ {"new", "up", "gone"}
  BY <1>1 DEF Semaphores, AfterServer, UnlinkOf, Created, ServerStates
<1>2. ASSUME NEW n \in Semaphores
      PROVE  /\ n \notin Created(n) /\ UnlinkOf(n) \notin Created(n)
             /\ AfterShm \notin Created(n) \cup Semaphores
             /\ {"new", "gone"} \cap Created(n) = {} /\ "up" \in Created(n)
  BY <1>2 DEF Semaphores, AfterServer, UnlinkOf, Created, AfterShm
<1>3. ASSUME NEW n \in Semaphores, NEW m \in Semaphores
      PROVE  /\ AfterServer(m) \in Created(n) /\ m # n => m \in Created(n)
             /\ UnlinkOf(m) \in Created(n) => m \in Created(n)
             /\ m \in Created(n) => UnlinkOf(m) \in Created(n)
             /\ AfterServer(m) = "up" /\ m # n => m \in Created(n)
  <2>1. CASE m = "sig"
    BY <2>1 DEF Semaphores, AfterServer, UnlinkOf, Created
  <2>2. CASE m = "avail"
    BY <2>2 DEF Semaphores, AfterServer, UnlinkOf, Created
  <2>3. CASE m = "dog"
    <3>1. CASE n = "sig"
      BY <2>3, <3>1 DEF Semaphores, AfterServer, UnlinkOf, Created
    <3>2. CASE n = "avail"
      BY <2>3, <3>2 DEF Semaphores, AfterServer, UnlinkOf, Created
    <3>3. CASE n = "dog"
      BY <2>3, <3>3 DEF Semaphores, AfterServer, UnlinkOf, Created
    <3> QED
      BY <1>3, <3>1, <3>2, <3>3 DEF Semaphores
  <2> QED
    BY <1>3, <2>1, <2>2, <2>3 DEF Semaphores
<1> QED
  BY <1>1, <1>2, <1>3

\* The states of connect() come in the order in which names are opened.
LEMMA ClientTable ==
    /\ \A n \in Semaphores :
        /\ n \in ClientStates \ {"unborn", "new", "up", "failed", "gone"}
        /\ AfterClient(n) \in ClientStates \ {"unborn", "new", "failed", "gone"}
        /\ n \notin Opened(n)
        /\ \A m \in Names : AfterClient(n) \in Opened(m) /\ m # n => n \in Opened(m)
    /\ \A m \in Names :
        /\ {"unborn", "new", "failed", "gone"} \cap Opened(m) = {}
        /\ "sig" \in Opened(m) => m = "shm"
BY DEF Names, Semaphores, AfterClient, Opened, ClientStates

\* Every step keeps the values of the state of the right kind.
LEMMA TypeStep == ASSUME TypeOK, NEW p \in Runs, Acts(p) PROVE TypeOK'
<1> USE RunFacts, NameFacts DEF TypeOK, serverVars, clientVars
<1>1. CASE OpenShm(p)
  BY <1>1 DEF OpenShm, AfterShm, ServerStates
<1>2. ASSUME NEW n \in Semaphores, UnlinkSem(p, n) PROVE TypeOK'
  BY <1>2, ServerTable DEF UnlinkSem, ServerStates
<1>3. ASSUME NEW n \in Semaphores, OpenSem(p, n) PROVE TypeOK'
  BY <1>3, ServerTable DEF OpenSem
<1>4. CASE Launch(p)
  BY <1>4 DEF Launch, ClientStates
<1>5. CASE AttachShm(p)
  <2>1. CASE names["shm"] = None
    BY <1>5, <2>1 DEF AttachShm, ClientStates
  <2>2. CASE names["shm"] # None
    <3>1. cpc' \in [Runs -> ClientStates]
      BY <1>5, <2>2 DEF AttachShm, ClientStates
    <3>2. attached' = [attached EXCEPT ![p] = [@ EXCEPT !["shm"] = names["shm"]]]
      BY <1>5, <2>2 DEF AttachShm
    <3> QED
      BY <1>5, <3>1, <3>2 DEF AttachShm
  <2> QED
    BY <2>1, <2>2
<1>6. CASE RetryConnect(p)
  BY <1>6 DEF RetryConnect, ClientStates, NoHandles
<1>7. ASSUME NEW n \in Semaphores, AttachSem(p, n) PROVE TypeOK'
  <2>1. CASE names[n] = None
    BY <1>7, <2>1, ClientTable DEF AttachSem, ClientStates
  <2>2. CASE names[n] # None
    <3>1. cpc' \in [Runs -> ClientStates]
      BY <1>7, <2>2, ClientTable DEF AttachSem
    <3>2. attached' = [attached EXCEPT ![p] = [@ EXCEPT ![n] = names[n]]]
      BY <1>7, <2>2 DEF AttachSem
    <3> QED
      BY <1>7, <3>1, <3>2 DEF AttachSem
  <2> QED
    BY <2>1, <2>2
<1>8. CASE DeleteServer(p)
  BY <1>8 DEF DeleteServer, ServerStates, NoHandles
<1>9. CASE CrashServer(p)
  BY <1>9 DEF CrashServer, ServerStates, NoHandles
<1>10. CASE StopRetrying(p)
  BY <1>10 DEF StopRetrying, ClientStates, NoHandles
<1>11. CASE DeleteClient(p)
  BY <1>11 DEF DeleteClient, ClientStates, NoHandles
<1>12. CASE CrashClient(p)
  BY <1>12 DEF CrashClient, ClientStates, NoHandles
<1> QED
  BY <1>1, <1>2, <1>3, <1>4, <1>5, <1>6, <1>7, <1>8, <1>9, <1>10, <1>11,
     <1>12 DEF Acts, ServerCreates, ClientConnects, Ends

\* A run that acts has the name space to itself, and leaves the rest alone.
LEMMA ActsAlone ==
    ASSUME TypeOK, RunsFollow, NEW p \in Runs, Acts(p)
    PROVE  /\ MayStart(p)
           /\ ~Over(p)
           /\ \A r \in Runs \ {p} :
                /\ spc[r] \in {"new", "gone"} /\ cpc[r] \in {"unborn", "gone"}
                /\ spc'[r] = spc[r] /\ cpc'[r] = cpc[r]
                /\ opened'[r] = opened[r] /\ attached'[r] = attached[r]
<1>1. ~Over(p) /\ MayStart(p)
  <2> USE RunFacts DEF TypeOK, RunsFollow, Over
  <2>1. CASE OpenShm(p)
    BY <2>1 DEF OpenShm
  <2>2. ASSUME NEW n \in Semaphores, UnlinkSem(p, n) PROVE ~Over(p) /\ MayStart(p)
    BY <2>2, ServerTable DEF UnlinkSem
  <2>3. ASSUME NEW n \in Semaphores, OpenSem(p, n) PROVE ~Over(p) /\ MayStart(p)
    BY <2>3, ServerTable DEF OpenSem
  <2>4. CASE Launch(p)
    BY <2>4 DEF Launch
  <2>5. CASE AttachShm(p)
    BY <2>5 DEF AttachShm
  <2>6. CASE RetryConnect(p)
    BY <2>6 DEF RetryConnect
  <2>7. ASSUME NEW n \in Semaphores, AttachSem(p, n) PROVE ~Over(p) /\ MayStart(p)
    BY <2>7, ClientTable DEF AttachSem
  <2>8. CASE DeleteServer(p)
    BY <2>8 DEF DeleteServer
  <2>9. CASE CrashServer(p)
    BY <2>9 DEF CrashServer
  <2>10. CASE StopRetrying(p)
    BY <2>10 DEF StopRetrying
  <2>11. CASE DeleteClient(p)
    BY <2>11 DEF DeleteClient
  <2>12. CASE CrashClient(p)
    BY <2>12 DEF CrashClient
  <2> QED
    BY <2>1,   <2>2,   <2>3,   <2>4,   <2>5,   <2>6,   <2>7,   <2>8,   <2>9,   <2>10,   <2>11,
       <2>12 DEF Acts, ServerCreates, ClientConnects, Ends
<1>2. ASSUME NEW r \in Runs, r # p
      PROVE  /\ spc'[r] = spc[r] /\ cpc'[r] = cpc[r]
             /\ opened'[r] = opened[r] /\ attached'[r] = attached[r]
  <2> USE <1>2 DEF TypeOK, serverVars, clientVars
  <2>1. CASE OpenShm(p)
    BY <2>1 DEF OpenShm
  <2>2. ASSUME NEW n \in Semaphores, UnlinkSem(p, n) PROVE /\ spc'[r] = spc[r] /\ cpc'[r] = cpc[r]
             /\ opened'[r] = opened[r] /\ attached'[r] = attached[r]
    BY <2>2 DEF UnlinkSem
  <2>3. ASSUME NEW n \in Semaphores, OpenSem(p, n) PROVE /\ spc'[r] = spc[r] /\ cpc'[r] = cpc[r]
             /\ opened'[r] = opened[r] /\ attached'[r] = attached[r]
    BY <2>3 DEF OpenSem
  <2>4. CASE Launch(p)
    BY <2>4 DEF Launch
  <2>5. CASE AttachShm(p)
    BY <2>5 DEF AttachShm
  <2>6. CASE RetryConnect(p)
    BY <2>6 DEF RetryConnect
  <2>7. ASSUME NEW n \in Semaphores, AttachSem(p, n) PROVE /\ spc'[r] = spc[r] /\ cpc'[r] = cpc[r]
             /\ opened'[r] = opened[r] /\ attached'[r] = attached[r]
    BY <2>7 DEF AttachSem
  <2>8. CASE DeleteServer(p)
    BY <2>8 DEF DeleteServer
  <2>9. CASE CrashServer(p)
    BY <2>9 DEF CrashServer
  <2>10. CASE StopRetrying(p)
    BY <2>10 DEF StopRetrying
  <2>11. CASE DeleteClient(p)
    BY <2>11 DEF DeleteClient
  <2>12. CASE CrashClient(p)
    BY <2>12 DEF CrashClient
  <2> QED
    BY <2>1,   <2>2,   <2>3,   <2>4,   <2>5,   <2>6,   <2>7,   <2>8,   <2>9,   <2>10,   <2>11,
       <2>12 DEF Acts, ServerCreates, ClientConnects, Ends
<1>3. ASSUME NEW r \in Runs, r # p, ~(spc[r] \in {"new", "gone"} /\ cpc[r] \in {"unborn", "gone"})
      PROVE  FALSE
  <2>1. MayStart(r)
    BY <1>3 DEF RunsFollow
  <2>2. p < r \/ r < p
    BY <1>3, RunFacts
  <2>3. CASE p < r
    BY <1>1, <2>1, <2>3 DEF MayStart
  <2>4. CASE r < p
    BY <1>1, <1>3, <2>4 DEF MayStart, Over
  <2> QED
    BY <2>2, <2>3, <2>4
<1> QED
  BY <1>1, <1>2, <1>3

\* Every step leaves the name space to the run that has begun.
LEMMA RunsFollowStep ==
    ASSUME TypeOK, RunsFollow, NEW p \in Runs, Acts(p) PROVE RunsFollow'
<1> SUFFICES ASSUME NEW r \in Runs, spc'[r] # "new" \/ cpc'[r] # "unborn",
                    NEW q \in Runs, q < r
             PROVE  Over(q)'
  BY DEF RunsFollow, MayStart
<1>1. MayStart(r)
  BY ActsAlone DEF RunsFollow
<1>2. Over(q)
  BY <1>1 DEF MayStart
<1> QED
  BY <1>2, ActsAlone DEF Over

\* Every step leaves the names of a server's semaphores to that server.
LEMMA OwnSemaphoresStep ==
    ASSUME TypeOK, RunsFollow, OwnSemaphores, NEW p \in Runs, Acts(p)
    PROVE  OwnSemaphores'
<1> DEFINE Own(r, m) ==
      /\ spc[r] = m => names[m] = None
      /\ spc[r] \in Created(m) => opened[r][m] = r /\ names[m] = r
<1>1. ASSUME NEW r \in Runs, r # p, NEW m \in Semaphores PROVE Own(r, m)'
  BY <1>1, ActsAlone, ServerTable
<1>2. ASSUME NEW m \in Semaphores PROVE Own(p, m)'
  <2> USE <1>2, ServerTable, NameFacts, RunFacts DEF TypeOK, OwnSemaphores, serverVars, clientVars
  <2>1. CASE OpenShm(p)
    BY <2>1 DEF OpenShm
  <2>2. ASSUME NEW n \in Semaphores, UnlinkSem(p, n) PROVE Own(p, m)'
    BY <2>2 DEF UnlinkSem
  <2>3. ASSUME NEW n \in Semaphores, OpenSem(p, n) PROVE Own(p, m)'
    BY <2>3 DEF OpenSem
  <2>4. CASE Launch(p)
    BY <2>4 DEF Launch
  <2>5. CASE AttachShm(p)
    BY <2>5 DEF AttachShm
  <2>6. CASE RetryConnect(p)
    BY <2>6 DEF RetryConnect
  <2>7. ASSUME NEW n \in Semaphores, AttachSem(p, n) PROVE Own(p, m)'
    BY <2>7 DEF AttachSem
  <2>8. CASE DeleteServer(p)
    <3>1. spc'[p] = "gone"
      BY <2>8 DEF DeleteServer
    <3> QED
      BY <3>1
  <2>9. CASE CrashServer(p)
    BY <2>9 DEF CrashServer
  <2>10. CASE StopRetrying(p)
    BY <2>10 DEF StopRetrying
  <2>11. CASE DeleteClient(p)
    BY <2>11 DEF DeleteClient
  <2>12. CASE CrashClient(p)
    BY <2>12 DEF CrashClient
  <2> QED
    BY <2>1,   <2>2,   <2>3,   <2>4,   <2>5,   <2>6,   <2>7,   <2>8,   <2>9,   <2>10,   <2>11,
       <2>12 DEF Acts, ServerCreates, ClientConnects, Ends
<1> QED
  BY <1>1, <1>2 DEF OwnSemaphores

\* Every step leaves a launched client its server's segment to find.
LEMMA LaunchedFindsStep ==
    ASSUME TypeOK, RunsFollow, LaunchedFinds, AttachedToServer,
           NEW p \in Runs, Acts(p)
    PROVE  LaunchedFinds'
<1> DEFINE Finds(r) ==
      /\ cpc[r] \notin {"unborn", "gone"} => spc[r] \in {"up", "gone"}
      /\ spc[r] \notin {"new", "gone"} /\ cpc[r] \in {"unborn", "new"} =>
          names["shm"] = opened[r]["shm"]
<1>1. ASSUME NEW r \in Runs \ ByHand, r # p PROVE Finds(r)'
  <2>1. Finds(r)
    BY DEF LaunchedFinds
  <2> QED
    BY <1>1, <2>1, ActsAlone
<1>2. ASSUME p \notin ByHand PROVE Finds(p)'
  <2>0. Finds(p) /\ (spc[p] = "up" => cpc[p] # "failed")
    BY <1>2 DEF LaunchedFinds, AttachedToServer
  <2> USE <1>2, <2>0, ServerTable, NameFacts, RunFacts
          DEF TypeOK, serverVars, clientVars
  <2>1. CASE OpenShm(p)
    <3>1. cpc'[p] \in {"unborn", "gone"}
      BY <2>1 DEF OpenShm
    <3>2. names'["shm"] = opened'[p]["shm"]
      BY <2>1 DEF OpenShm
    <3> QED
      BY <3>1, <3>2
  <2>2. ASSUME NEW n \in Semaphores, UnlinkSem(p, n) PROVE Finds(p)'
    BY <2>2 DEF UnlinkSem
  <2>3. ASSUME NEW n \in Semaphores, OpenSem(p, n) PROVE Finds(p)'
    BY <2>3 DEF OpenSem
  <2>4. CASE Launch(p)
    BY <2>4 DEF Launch
  <2>5. CASE AttachShm(p)
    <3>1. cpc'[p] \in {"sig", "failed"}
      BY <2>5 DEF AttachShm
    <3>2. spc'[p] = spc[p] /\ opened'[p] = opened[p] /\ spc[p] \in {"up", "gone"}
      BY <2>5 DEF AttachShm
    <3> QED
      BY <3>1, <3>2
  <2>6. CASE RetryConnect(p)
    BY <2>6 DEF RetryConnect
  <2>7. ASSUME NEW n \in Semaphores, AttachSem(p, n) PROVE Finds(p)'
    <3>1. cpc'[p] \notin {"unborn", "new", "gone"}
      BY <2>7, ClientTable DEF AttachSem
    <3>2. spc'[p] = spc[p] /\ opened'[p] = opened[p]
      BY <2>7 DEF AttachSem
    <3>3. spc[p] \in {"up", "gone"}
      BY <2>7, ClientTable DEF AttachSem
    <3> QED
      BY <3>1, <3>2, <3>3
  <2>8. CASE DeleteServer(p)
    BY <2>8 DEF DeleteServer
  <2>9. CASE CrashServer(p)
    BY <2>9 DEF CrashServer
  <2>10. CASE StopRetrying(p)
    BY <2>10 DEF StopRetrying
  <2>11. CASE DeleteClient(p)
    BY <2>11 DEF DeleteClient
  <2>12. CASE CrashClient(p)
    BY <2>12 DEF CrashClient
  <2> QED
    BY <2>1,   <2>2,   <2>3,   <2>4,   <2>5,   <2>6,   <2>7,   <2>8,   <2>9,   <2>10,   <2>11,
       <2>12 DEF Acts, ServerCreates, ClientConnects, Ends
<1> QED
  BY <1>1, <1>2 DEF LaunchedFinds

\* Every step leaves a client with the objects of its server.
LEMMA AttachedStep ==
    ASSUME TypeOK, RunsFollow, OwnSemaphores, LaunchedFinds,
           AttachedToServer, OpenedExist, NEW p \in Runs, Acts(p)
    PROVE  AttachedToServer'
<1> DEFINE Agrees(r) ==
      spc[r] = "up" =>
        /\ cpc[r] # "failed"
        /\ \A m \in Names : cpc[r] \in Opened(m) => attached[r][m] = opened[r][m]
<1>1. ASSUME NEW r \in Runs \ ByHand, r # p PROVE Agrees(r)'
  BY <1>1, ActsAlone
<1>2. ASSUME p \notin ByHand PROVE Agrees(p)'
  <2>0. /\ Agrees(p)
        /\ cpc[p] \notin {"unborn", "gone"} => spc[p] \in {"up", "gone"}
        /\ spc[p] = "up" /\ cpc[p] \in {"unborn", "new"} =>
            names["shm"] = opened[p]["shm"]
        /\ spc[p] = "up" => opened[p]["shm"] # None
        /\ spc[p] = "up" =>
            \A n \in Semaphores : opened[p][n] = p /\ names[n] = p
    BY <1>2, ServerTable
    DEF LaunchedFinds, AttachedToServer, OwnSemaphores, OpenedExist
  <2> USE <1>2, <2>0, ServerTable, ClientTable, NameFacts, RunFacts
          DEF TypeOK, serverVars, clientVars
  <2>1. CASE OpenShm(p)
    BY <2>1 DEF OpenShm, AfterShm
  <2>2. ASSUME NEW n \in Semaphores, UnlinkSem(p, n) PROVE Agrees(p)'
    BY <2>2 DEF UnlinkSem
  <2>3. ASSUME NEW n \in Semaphores, OpenSem(p, n) PROVE Agrees(p)'
    BY <2>3 DEF OpenSem
  <2>4. CASE Launch(p)
    BY <2>4 DEF Launch
  <2>5. CASE AttachShm(p)
    BY <2>5 DEF AttachShm
  <2>6. CASE RetryConnect(p)
    BY <2>6 DEF RetryConnect
  <2>7. ASSUME NEW n \in Semaphores, AttachSem(p, n) PROVE Agrees(p)'
    BY <2>7 DEF AttachSem
  <2>8. CASE DeleteServer(p)
    BY <2>8 DEF DeleteServer
  <2>9. CASE CrashServer(p)
    BY <2>9 DEF CrashServer
  <2>10. CASE StopRetrying(p)
    BY <2>10 DEF StopRetrying
  <2>11. CASE DeleteClient(p)
    BY <2>11 DEF DeleteClient
  <2>12. CASE CrashClient(p)
    BY <2>12 DEF CrashClient
  <2> QED
    BY <2>1,   <2>2,   <2>3,   <2>4,   <2>5,   <2>6,   <2>7,   <2>8,   <2>9,   <2>10,   <2>11,
       <2>12 DEF Acts, ServerCreates, ClientConnects, Ends
<1> QED
  BY <1>1, <1>2 DEF AttachedToServer

\* Every step leaves the objects of later runs to those.
LEMMA NoneOfLaterStep ==
    ASSUME TypeOK, RunsFollow, NoneOfLaterRuns, NEW p \in Runs, Acts(p)
    PROVE  NoneOfLaterRuns'
<1> DEFINE UpTo(m) ==
      names[m] <= p /\ opened[p][m] <= p /\ attached[p][m] <= p
<1>1. ASSUME NEW m \in Names PROVE UpTo(m)'
  <2>0. UpTo(m) /\ None <= p /\ p <= p
    BY <1>1, ActsAlone, RunFacts DEF NoneOfLaterRuns, None
  <2> USE <1>1, <2>0, NameFacts, RunFacts DEF TypeOK, serverVars, clientVars
  <2>1. CASE OpenShm(p)
    BY <2>1 DEF OpenShm
  <2>2. ASSUME NEW n \in Semaphores, UnlinkSem(p, n) PROVE UpTo(m)'
    BY <2>2 DEF UnlinkSem
  <2>3. ASSUME NEW n \in Semaphores, OpenSem(p, n) PROVE UpTo(m)'
    BY <2>3 DEF OpenSem
  <2>4. CASE Launch(p)
    BY <2>4 DEF Launch
  <2>5. CASE AttachShm(p)
    BY <2>5 DEF AttachShm
  <2>6. CASE RetryConnect(p)
    BY <2>6 DEF RetryConnect, NoHandles
  <2>7. ASSUME NEW n \in Semaphores, AttachSem(p, n) PROVE UpTo(m)'
    BY <2>7 DEF AttachSem
  <2>8. CASE DeleteServer(p)
    BY <2>8 DEF DeleteServer, NoHandles
  <2>9. CASE CrashServer(p)
    BY <2>9 DEF CrashServer, NoHandles
  <2>10. CASE StopRetrying(p)
    BY <2>10 DEF StopRetrying, NoHandles
  <2>11. CASE DeleteClient(p)
    BY <2>11 DEF DeleteClient, NoHandles
  <2>12. CASE CrashClient(p)
    BY <2>12 DEF CrashClient, NoHandles
  <2> QED
    BY <2>1, <2>2, <2>3, <2>4, <2>5, <2>6, <2>7, <2>8, <2>9, <2>10, <2>11,
       <2>12 DEF Acts, ServerCreates, ClientConnects, Ends
<1>2. ASSUME NEW r \in Runs, r # p, NEW m \in Names
      PROVE  /\ opened'[r][m] <= r /\ attached'[r][m] <= r
             /\ MayStart(r)' /\ ~Over(r)' => names'[m] <= r
  <2>1. opened'[r][m] <= r /\ attached'[r][m] <= r
    BY <1>2, ActsAlone DEF NoneOfLaterRuns
  <2>2. r < p => Over(r)'
    BY <1>2, ActsAlone DEF MayStart, Over
  <2>3. p < r => names'[m] <= r
    <3>1. names'[m] <= p /\ names'[m] \in Nat
      BY <1>1, <1>2, TypeStep, NumRunsAssumption DEF TypeOK, Object
    <3> QED
      BY <3>1, RunFacts
  <2> QED
    BY <1>2, <2>1, <2>2, <2>3, RunFacts
<1> QED
  BY <1>1, <1>2 DEF NoneOfLaterRuns

\* Every step leaves what an end has opened.
LEMMA OpenedExistStep ==
    ASSUME TypeOK, RunsFollow, OpenedExist, NEW p \in Runs, Acts(p)
    PROVE  OpenedExist'
<1> DEFINE Exist(r) ==
      /\ spc[r] \notin {"new", "gone"} => opened[r]["shm"] # None
      /\ \A m \in Names : cpc[r] \in Opened(m) => attached[r][m] # None
<1>1. ASSUME NEW r \in Runs, r # p PROVE Exist(r)'
  BY <1>1, ActsAlone DEF OpenedExist
<1>2. Exist(p)'
  <2>0. Exist(p)
    BY DEF OpenedExist
  <2> USE <2>0, ServerTable, ClientTable, NameFacts, RunFacts
          DEF TypeOK, serverVars, clientVars
  <2>1. CASE OpenShm(p)
    BY <2>1 DEF OpenShm
  <2>2. ASSUME NEW n \in Semaphores, UnlinkSem(p, n) PROVE Exist(p)'
    BY <2>2 DEF UnlinkSem
  <2>3. ASSUME NEW n \in Semaphores, OpenSem(p, n) PROVE Exist(p)'
    BY <2>3 DEF OpenSem
  <2>4. CASE Launch(p)
    BY <2>4 DEF Launch
  <2>5. CASE AttachShm(p)
    BY <2>5 DEF AttachShm
  <2>6. CASE RetryConnect(p)
    BY <2>6 DEF RetryConnect
  <2>7. ASSUME NEW n \in Semaphores, AttachSem(p, n) PROVE Exist(p)'
    BY <2>7 DEF AttachSem
  <2>8. CASE DeleteServer(p)
    BY <2>8 DEF DeleteServer
  <2>9. CASE CrashServer(p)
    BY <2>9 DEF CrashServer
  <2>10. CASE StopRetrying(p)
    BY <2>10 DEF StopRetrying
  <2>11. CASE DeleteClient(p)
    BY <2>11 DEF DeleteClient
  <2>12. CASE CrashClient(p)
    BY <2>12 DEF CrashClient
  <2> QED
    BY <2>1, <2>2, <2>3, <2>4, <2>5, <2>6, <2>7, <2>8, <2>9, <2>10, <2>11,
       <2>12 DEF Acts, ServerCreates, ClientConnects, Ends
<1> QED
  BY <1>1, <1>2 DEF OpenedExist

\* In the beginning no run has begun.
LEMMA InitIInv == Init => IInv
<1> SUFFICES ASSUME Init PROVE IInv
  OBVIOUS
<1>1. TypeOK
  BY RunFacts DEF Init, TypeOK, NoHandles, ServerStates, ClientStates
<1>2. RunsFollow
  BY DEF Init, RunsFollow
<1>3. OwnSemaphores
  BY ServerTable DEF Init, OwnSemaphores
<1>4. LaunchedFinds /\ AttachedToServer
  BY DEF Init, LaunchedFinds, AttachedToServer
<1>5. NoneOfLaterRuns
  BY RunFacts DEF Init, NoneOfLaterRuns, NoHandles, None
<1>6. OpenedExist
  BY ClientTable DEF Init, OpenedExist
<1> QED
  BY <1>1, <1>2, <1>3, <1>4, <1>5, <1>6 DEF IInv

\* Every step preserves the inductive invariant.
LEMMA StepIInv == IInv /\ [Next]_vars => IInv'
<1> SUFFICES ASSUME IInv, [Next]_vars PROVE IInv'
  OBVIOUS
<1>1. ASSUME NEW p \in Runs, Acts(p) PROVE IInv'
  <2>1. TypeOK'
    BY <1>1, TypeStep DEF IInv
  <2>2. RunsFollow'
    BY <1>1, RunsFollowStep DEF IInv
  <2>3. OwnSemaphores'
    BY <1>1, OwnSemaphoresStep DEF IInv
  <2>4. LaunchedFinds' /\ AttachedToServer'
    BY <1>1, LaunchedFindsStep, AttachedStep DEF IInv
  <2>5. NoneOfLaterRuns' /\ OpenedExist'
    BY <1>1, NoneOfLaterStep, OpenedExistStep DEF IInv
  <2> QED
    BY <2>1, <2>2, <2>3, <2>4, <2>5 DEF IInv
<1>2. CASE UNCHANGED vars
  BY <1>2 DEF vars, serverVars, clientVars, IInv, TypeOK, RunsFollow, MayStart,
     Over, OwnSemaphores, LaunchedFinds, AttachedToServer, NoneOfLaterRuns,
     OpenedExist
<1> QED
  BY <1>1, <1>2 DEF Next

\* The inductive invariant holds in every reachable state.
THEOREM InvariantCorrect == Spec => []IInv
BY InitIInv, StepIInv, PTL DEF Spec

\* SemaphoresAreFresh: IpcServer::create never ends up with a semaphore of an
\* earlier run, in whatever order servers and clients start.
THEOREM FreshSemaphores == Spec => []SemaphoresAreFresh
<1>1. IInv => SemaphoresAreFresh
  BY ServerTable DEF IInv, OwnSemaphores, SemaphoresAreFresh
<1> QED
  BY <1>1, InvariantCorrect, PTL

\* FirstAttemptConnects: launched as fmi2Instantiate launches it, the FMU's
\* process connects at once, whatever other runs with the same key have left
\* behind and however those were started.
THEOREM FirstAttempt == Spec => []FirstAttemptConnects
<1>1. IInv => FirstAttemptConnects
  BY DEF IInv, AttachedToServer, FirstAttemptConnects
<1> QED
  BY <1>1, InvariantCorrect, PTL

\* ConnectedEndsAgree: where a client is started by hand in the first run with
\* a key only, a connected client has the very objects of its server.  In the
\* first run there are no objects but that run's; in the later ones the client
\* has found its server's.
THEOREM OrderedStart == Spec => [](ByHand \subseteq {1} => ConnectedEndsAgree)
<1>1. IInv => (ByHand \subseteq {1} => ConnectedEndsAgree)
  <2> SUFFICES ASSUME IInv, ByHand \subseteq {1},
                      NEW r \in Runs, spc[r] = "up", cpc[r] = "up"
               PROVE  attached[r] = opened[r]
    BY DEF ConnectedEndsAgree
  <2>1. \A n \in Names : "up" \in Opened(n)
    BY DEF Names, Semaphores, Opened
  <2>2. (\A n \in Names : attached[r][n] = opened[r][n]) => attached[r] = opened[r]
    BY DEF IInv, TypeOK
  <2>3. CASE r \notin ByHand
    BY <2>1, <2>2, <2>3 DEF IInv, AttachedToServer
  <2>4. CASE r = 1
    <3>1. ASSUME NEW n \in Names PROVE attached[r][n] = 1
      <4>1. attached[r][n] # None /\ attached[r][n] <= 1
        BY <2>1, <2>4 DEF IInv, OpenedExist, NoneOfLaterRuns
      <4> QED
        BY <4>1, NumRunsAssumption DEF IInv, TypeOK, Object, None
    <3>2. ASSUME NEW n \in Names PROVE opened[r][n] = 1
      <4>1. CASE n \in Semaphores
        BY <2>4, <4>1, ServerTable DEF IInv, OwnSemaphores
      <4>2. CASE n = "shm"
        <5>1. opened[r][n] # None /\ opened[r][n] <= 1
          BY <2>4, <4>2 DEF IInv, OpenedExist, NoneOfLaterRuns
        <5> QED
          BY <5>1, NumRunsAssumption DEF IInv, TypeOK, Object, None
      <4> QED
        BY <4>1, <4>2 DEF Names
    <3> QED
      BY <2>2, <3>1, <3>2
  <2> QED
    BY <2>3, <2>4
<1> QED
  BY <1>1, InvariantCorrect, PTL

-----------------------------------------------------------------------------
(* A launched client gets connected.                                       *)

\* The fairness of a launched client, with the guards written out.
ClientRuns(r) ==
    WeaklyFair(\/ cpc[r] = "unborn" /\ spc[r] = "up"
               \/ cpc[r] \in {"new", "sig", "avail", "dog", "failed"},
               ClientConnects(r), vars)

\* How far the client of a server that is up has come, and what ends its way.
At(r, c) == spc[r] = "up" /\ cpc[r] = c
Arrived(r) == cpc[r] = "up" \/ spc[r] = "gone" \/ cpc[r] = "gone"

\* The client's own steps take it on to the next name, or to its end.
LEMMA OwnStep ==
    ASSUME IInv, IInv', NEW r \in Runs \ ByHand, Acts(r)
    PROVE  /\ At(r, "unborn") => At(r, "unborn")' \/ At(r, "new")' \/ Arrived(r)'
           /\ At(r, "new") => At(r, "new")' \/ At(r, "sig")' \/ Arrived(r)'
           /\ At(r, "sig") => At(r, "sig")' \/ At(r, "avail")' \/ Arrived(r)'
           /\ At(r, "avail") => At(r, "avail")' \/ At(r, "dog")' \/ Arrived(r)'
           /\ At(r, "dog") => At(r, "dog")' \/ Arrived(r)'
<1> USE DEF At, Arrived, IInv, TypeOK, serverVars, clientVars
<1>1. spc'[r] = "up" => cpc'[r] # "failed"
  BY DEF AttachedToServer
<1>2. CASE Launch(r)
  BY <1>2 DEF Launch
<1>3. CASE AttachShm(r)
  BY <1>1, <1>3 DEF AttachShm
<1>4. ASSUME NEW n \in Semaphores, AttachSem(r, n)
      PROVE  spc'[r] = spc[r] /\ cpc[r] = n /\ cpc'[r] \in {"failed", AfterClient(n)}
  BY <1>4 DEF AttachSem
<1>5. CASE \E n \in Semaphores : AttachSem(r, n)
  BY <1>1, <1>4, <1>5 DEF Semaphores, AfterClient
<1>6. CASE OpenShm(r) \/ RetryConnect(r) \/ StopRetrying(r) \/ DeleteClient(r) \/ CrashClient(r)
  BY <1>6 DEF OpenShm, RetryConnect, StopRetrying, DeleteClient, CrashClient
<1>7. CASE DeleteServer(r) \/ CrashServer(r)
  BY <1>7 DEF DeleteServer, CrashServer
<1>8. CASE \E n \in Semaphores : UnlinkSem(r, n) \/ OpenSem(r, n)
  BY <1>8, ServerTable DEF UnlinkSem, OpenSem
<1> QED
  BY <1>2, <1>3, <1>5, <1>6, <1>7, <1>8 DEF Acts, ServerCreates, ClientConnects, Ends

\* Nobody else's steps move it.
LEMMA ConnectStep ==
    ASSUME NEW r \in Runs \ ByHand
    PROVE  IInv /\ [Next]_vars =>
             /\ At(r, "unborn") => At(r, "unborn")' \/ At(r, "new")' \/ Arrived(r)'
             /\ At(r, "new") => At(r, "new")' \/ At(r, "sig")' \/ Arrived(r)'
             /\ At(r, "sig") => At(r, "sig")' \/ At(r, "avail")' \/ Arrived(r)'
             /\ At(r, "avail") => At(r, "avail")' \/ At(r, "dog")' \/ Arrived(r)'
             /\ At(r, "dog") => At(r, "dog")' \/ Arrived(r)'
<1>1. ASSUME IInv, NEW p \in Runs, p # r, Acts(p) PROVE spc'[r] = spc[r] /\ cpc'[r] = cpc[r]
  BY <1>1, ActsAlone DEF IInv
<1>2. ASSUME UNCHANGED vars PROVE spc'[r] = spc[r] /\ cpc'[r] = cpc[r]
  BY <1>2 DEF vars, serverVars, clientVars
<1>3. ASSUME spc'[r] = spc[r], cpc'[r] = cpc[r], NEW c, At(r, c) PROVE At(r, c)'
  BY <1>3 DEF At
<1> QED
  BY <1>1, <1>2, <1>3, OwnStep, StepIInv DEF Next

\* When it acts, it does get to the next name.
LEMMA ConnectMove ==
    ASSUME NEW r \in Runs \ ByHand
    PROVE  IInv /\ [Next]_vars /\ ClientConnects(r) =>
             /\ At(r, "unborn") => At(r, "new")' \/ Arrived(r)'
             /\ At(r, "new") => At(r, "sig")' \/ Arrived(r)'
             /\ At(r, "sig") => At(r, "avail")' \/ Arrived(r)'
             /\ At(r, "avail") => At(r, "dog")' \/ Arrived(r)'
             /\ At(r, "dog") => Arrived(r)'
<1> SUFFICES ASSUME IInv, [Next]_vars, ClientConnects(r) PROVE cpc'[r] # cpc[r]
  BY ConnectStep DEF At
<1> USE DEF IInv, TypeOK
<1>1. CASE Launch(r) \/ AttachShm(r) \/ RetryConnect(r)
  BY <1>1 DEF Launch, AttachShm, RetryConnect
<1>2. ASSUME NEW n \in Semaphores, AttachSem(r, n) PROVE cpc'[r] # cpc[r]
  <2>1. n # "failed" /\ n # AfterClient(n)
    BY DEF Semaphores, AfterClient
  <2> QED
    BY <1>2, <2>1 DEF AttachSem
<1> QED
  BY <1>1, <1>2 DEF ClientConnects

\* A launched client whose thread runs gets to the last name.
LEMMA OneConnects ==
    ASSUME NEW r \in Runs \ ByHand PROVE Spec /\ ClientRuns(r) => ConnectsTo(r)
<1>1. IInv /\ [Next]_vars =>
        /\ At(r, "unborn") => At(r, "unborn")' \/ At(r, "new")' \/ Arrived(r)'
        /\ At(r, "new") => At(r, "new")' \/ At(r, "sig")' \/ Arrived(r)'
        /\ At(r, "sig") => At(r, "sig")' \/ At(r, "avail")' \/ Arrived(r)'
        /\ At(r, "avail") => At(r, "avail")' \/ At(r, "dog")' \/ Arrived(r)'
        /\ At(r, "dog") => At(r, "dog")' \/ Arrived(r)'
  BY ConnectStep
<1>2. IInv /\ [Next]_vars /\ ClientConnects(r) =>
        /\ At(r, "unborn") => At(r, "new")' \/ Arrived(r)'
        /\ At(r, "new") => At(r, "sig")' \/ Arrived(r)'
        /\ At(r, "sig") => At(r, "avail")' \/ Arrived(r)'
        /\ At(r, "avail") => At(r, "dog")' \/ Arrived(r)'
        /\ At(r, "dog") => Arrived(r)'
  BY ConnectMove
<1>3. /\ At(r, "unborn") => cpc[r] = "unborn" /\ spc[r] = "up"
      /\ At(r, "new") \/ At(r, "sig") \/ At(r, "avail") \/ At(r, "dog") =>
          cpc[r] \in {"new", "sig", "avail", "dog", "failed"}
  BY DEF At
<1>4. IInv => (spc[r] = "up" =>
        At(r, "unborn") \/ At(r, "new") \/ At(r, "sig") \/ At(r, "avail") \/ At(r, "dog")
        \/ Arrived(r))
  BY DEF IInv, TypeOK, ClientStates, AttachedToServer, At, Arrived
<1>5. Arrived(r) <=> cpc[r] = "up" \/ spc[r] = "gone" \/ cpc[r] = "gone"
  BY DEF Arrived
<1> QED
  BY <1>1, <1>2, <1>3, <1>4, <1>5, InvariantCorrect, PTL
     DEF Spec, ClientRuns, WeaklyFair, ConnectsTo

\* OrderedStartConnects: a client that is launched when create() has returned
\* gets connected, unless one of the two goes.  Of the other runs, of those
\* started by hand and of the servers no fairness is needed.
THEOREM LaunchedConnect ==
    Spec /\ (\A r \in Runs \ ByHand : ClientRuns(r)) => OrderedStartConnects
BY OneConnects DEF OrderedStartConnects
=============================================================================
