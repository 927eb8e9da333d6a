--------------------------- MODULE WatchDogProofs ---------------------------
(***************************************************************************)
(* Proofs about WatchDog, for every delay and every lag that the machine   *)
(* may have.  The argument for NoFalseAlarm is that the dog's wait began   *)
(* after the permits it finds were taken: as long as there is none, it has *)
(* waited no longer than the poster has been silent (WaitBounded), and     *)
(* that is bounded because the poster is not late.                         *)
(***************************************************************************)
EXTENDS WatchDog, WeakFairness, TLAPS

USE DEF engineVars, driverVars, dogVars

\* Every step keeps the values of the state of the right kind.
LEMMA TypeStep == ASSUME TypeOK, Next PROVE TypeOK'
<1> USE DelayAssumption DEF TypeOK, EngineStates, PosterStates, CommandStates,
        DogStates, TaskStates
<1>1. CASE Post
  BY <1>1 DEF Post
<1>2. CASE Wake
  BY <1>2 DEF Wake, PosterEnds
<1>3. CASE Call
  BY <1>3 DEF Call
<1>4. CASE Free
  BY <1>4 DEF Free
<1>5. CASE StopPoster
  <2>1. alive' \in BOOLEAN
    BY <1>5, Zenon DEF StopPoster
  <2> QED
    BY <1>5, <2>1 DEF StopPoster
<1>6. CASE JoinPoster
  BY <1>6 DEF JoinPoster
<1>7. CASE EngineCrash
  BY <1>7 DEF EngineCrash, PosterEnds
<1>8. CASE Open
  BY <1>8 DEF Open
<1>9. CASE OpenFails
  BY <1>9 DEF OpenFails
<1>10. CASE Poll
  BY <1>10 DEF Poll
<1>11. CASE Read
  BY <1>11 DEF Read
<1>12. CASE Reply
  BY <1>12 DEF Reply
<1>13. CASE FreeInstantiate
  BY <1>13 DEF FreeInstantiate
<1>14. CASE CloseDriver
  <2>1. connected' \in BOOLEAN
    BY <1>14, Zenon DEF CloseDriver
  <2> QED
    BY <1>14, <2>1 DEF CloseDriver
<1>15. CASE StopClient
  BY <1>15 DEF StopClient
<1>16. CASE JvmCrash
  BY <1>16 DEF JvmCrash
<1>17. CASE CheckConnected
  BY <1>17 DEF CheckConnected
<1>18. CASE TaskStart
  BY <1>18 DEF TaskStart
<1>19. CASE TaskTake
  BY <1>19 DEF TaskTake
<1>20. CASE GetResult
  BY <1>20 DEF GetResult
<1>21. CASE GetTimeout
  BY <1>21 DEF GetTimeout
<1>22. CASE HandleTimeout
  <2>1. connected' \in BOOLEAN
    BY <1>22, Zenon DEF HandleTimeout
  <2> QED
    BY <1>22, <2>1 DEF HandleTimeout
<1>23. CASE DogFrees
  BY <1>23 DEF DogFrees
<1>24. CASE Tick
  BY <1>24 DEF Tick
<1> QED
  BY <1>1, <1>2, <1>3, <1>4, <1>5, <1>6, <1>7, <1>8, <1>9, <1>10, <1>11, <1>12, <1>13, <1>14, <1>15, <1>16, <1>17, <1>18, <1>19, <1>20, <1>21, <1>22, <1>23, <1>24
  DEF Next, EngineNext, DriverNext, DogNext

\* Every step keeps the dog, its task and the client in their roles.
LEMMA RolesStep == ASSUME TypeOK, Roles, Next PROVE Roles'
<1> USE DEF TypeOK, Roles, TaskStates
<1>1. CASE Post
  BY <1>1 DEF Post
<1>2. CASE Wake
  BY <1>2 DEF Wake, PosterEnds
<1>3. CASE Call
  BY <1>3 DEF Call
<1>4. CASE Free
  BY <1>4 DEF Free
<1>5. CASE StopPoster
  BY <1>5 DEF StopPoster
<1>6. CASE JoinPoster
  BY <1>6 DEF JoinPoster
<1>7. CASE EngineCrash
  BY <1>7 DEF EngineCrash, PosterEnds
<1>8. CASE Open
  BY <1>8 DEF Open
<1>9. CASE OpenFails
  BY <1>9 DEF OpenFails
<1>10. CASE Poll
  BY <1>10 DEF Poll
<1>11. CASE Read
  BY <1>11 DEF Read
<1>12. CASE Reply
  BY <1>12 DEF Reply
<1>13. CASE FreeInstantiate
  BY <1>13 DEF FreeInstantiate
<1>14. CASE CloseDriver
  BY <1>14 DEF CloseDriver
<1>15. CASE StopClient
  BY <1>15 DEF StopClient
<1>16. CASE JvmCrash
  BY <1>16 DEF JvmCrash, UsesDeletedClient
<1>17. CASE CheckConnected
  BY <1>17 DEF CheckConnected
<1>18. CASE TaskStart
  BY <1>18 DEF TaskStart
<1>19. CASE TaskTake
  BY <1>19 DEF TaskTake
<1>20. CASE GetResult
  BY <1>20 DEF GetResult, TaskDone
<1>21. CASE GetTimeout
  BY <1>21 DEF GetTimeout, TaskDone
<1>22. CASE HandleTimeout
  BY <1>22 DEF HandleTimeout
<1>23. CASE DogFrees
  BY <1>23 DEF DogFrees
<1>24. CASE Tick
  BY <1>24 DEF Tick
<1> QED
  BY <1>1, <1>2, <1>3, <1>4, <1>5, <1>6, <1>7, <1>8, <1>9, <1>10, <1>11, <1>12, <1>13, <1>14, <1>15, <1>16, <1>17, <1>18, <1>19, <1>20, <1>21, <1>22, <1>23, <1>24
  DEF Next, EngineNext, DriverNext, DogNext
\* Every step leaves the lags within their bounds.
LEMMA LagsStep == ASSUME TypeOK, Roles, LagsBounded, Next PROVE LagsBounded'
<1> USE DelayAssumption DEF TypeOK, Roles, LagsBounded, TaskCanRun, DogCanRun, TaskDone,
        GetAliveInterval, TaskStates
<1>1. CASE Post
  BY <1>1 DEF Post
<1>2. CASE Wake
  BY <1>2 DEF Wake, PosterEnds
<1>3. CASE Call
  BY <1>3 DEF Call
<1>4. CASE Free
  BY <1>4 DEF Free
<1>5. CASE StopPoster
  BY <1>5 DEF StopPoster
<1>6. CASE JoinPoster
  BY <1>6 DEF JoinPoster
<1>7. CASE EngineCrash
  BY <1>7 DEF EngineCrash, PosterEnds
<1>8. CASE Open
  BY <1>8 DEF Open
<1>9. CASE OpenFails
  BY <1>9 DEF OpenFails
<1>10. CASE Poll
  BY <1>10 DEF Poll
<1>11. CASE Read
  BY <1>11 DEF Read
<1>12. CASE Reply
  BY <1>12 DEF Reply
<1>13. CASE FreeInstantiate
  BY <1>13 DEF FreeInstantiate
<1>14. CASE CloseDriver
  BY <1>14 DEF CloseDriver
<1>15. CASE StopClient
  BY <1>15 DEF StopClient
<1>16. CASE JvmCrash
  BY <1>16 DEF JvmCrash
<1>17. CASE CheckConnected
  BY <1>17 DEF CheckConnected
<1>18. CASE TaskStart
  BY <1>18 DEF TaskStart
<1>19. CASE TaskTake
  BY <1>19 DEF TaskTake
<1>20. CASE GetResult
  BY <1>20 DEF GetResult
<1>21. CASE GetTimeout
  BY <1>21 DEF GetTimeout
<1>22. CASE HandleTimeout
  BY <1>22 DEF HandleTimeout
<1>23. CASE DogFrees
  BY <1>23 DEF DogFrees
<1>24. CASE Tick
  BY <1>24 DEF Tick
<1> QED
  BY <1>1, <1>2, <1>3, <1>4, <1>5, <1>6, <1>7, <1>8, <1>9, <1>10, <1>11, <1>12, <1>13, <1>14, <1>15, <1>16, <1>17, <1>18, <1>19, <1>20, <1>21, <1>22, <1>23, <1>24
  DEF Next, EngineNext, DriverNext, DogNext
\* Every step keeps the dog's wait within the silence of the poster, and the
\* lags of its task.
LEMMA WaitStep == ASSUME TypeOK, Roles, LagsBounded, WaitBounded, Next PROVE WaitBounded'
<1> USE DelayAssumption DEF TypeOK, Roles, LagsBounded, WaitBounded, TaskCanRun, TaskDone,
        TaskStates
<1>1. CASE Post
  BY <1>1 DEF Post
<1>2. CASE Wake
  BY <1>2 DEF Wake, PosterEnds
<1>3. CASE Call
  BY <1>3 DEF Call
<1>4. CASE Free
  BY <1>4 DEF Free
<1>5. CASE StopPoster
  BY <1>5 DEF StopPoster
<1>6. CASE JoinPoster
  BY <1>6 DEF JoinPoster
<1>7. CASE EngineCrash
  BY <1>7 DEF EngineCrash, PosterEnds
<1>8. CASE Open
  BY <1>8 DEF Open
<1>9. CASE OpenFails
  BY <1>9 DEF OpenFails
<1>10. CASE Poll
  BY <1>10 DEF Poll
<1>11. CASE Read
  BY <1>11 DEF Read
<1>12. CASE Reply
  BY <1>12 DEF Reply
<1>13. CASE FreeInstantiate
  BY <1>13 DEF FreeInstantiate
<1>14. CASE CloseDriver
  BY <1>14 DEF CloseDriver
<1>15. CASE StopClient
  BY <1>15 DEF StopClient
<1>16. CASE JvmCrash
  BY <1>16 DEF JvmCrash
<1>17. CASE CheckConnected
  BY <1>17 DEF CheckConnected
<1>18. CASE TaskStart
  BY <1>18 DEF TaskStart
<1>19. CASE TaskTake
  BY <1>19 DEF TaskTake
<1>20. CASE GetResult
  BY <1>20 DEF GetResult
<1>21. CASE GetTimeout
  BY <1>21 DEF GetTimeout
<1>22. CASE HandleTimeout
  BY <1>22 DEF HandleTimeout
<1>23. CASE DogFrees
  BY <1>23 DEF DogFrees
<1>24. CASE Tick
  BY <1>24 DEF Tick
<1> QED
  BY <1>1, <1>2, <1>3, <1>4, <1>5, <1>6, <1>7, <1>8, <1>9, <1>10, <1>11, <1>12, <1>13, <1>14, <1>15, <1>16, <1>17, <1>18, <1>19, <1>20, <1>21, <1>22, <1>23, <1>24
  DEF Next, EngineNext, DriverNext, DogNext
\* The dog only gives up on a task when the poster has stopped or the client
\* is gone.
LEMMA AlarmStep ==
    ASSUME TypeOK, Roles, LagsBounded, WaitBounded, NoFalseAlarm, Next
    PROVE  NoFalseAlarm'
<1> USE DEF TypeOK, NoFalseAlarm
<1>1. CASE Post
  BY <1>1 DEF Post
<1>2. CASE Wake
  BY <1>2 DEF Wake, PosterEnds
<1>3. CASE Call
  BY <1>3 DEF Call
<1>4. CASE Free
  BY <1>4 DEF Free
<1>5. CASE StopPoster
  BY <1>5 DEF StopPoster
<1>6. CASE JoinPoster
  BY <1>6 DEF JoinPoster
<1>7. CASE EngineCrash
  BY <1>7 DEF EngineCrash, PosterEnds
<1>8. CASE Open
  BY <1>8 DEF Open
<1>9. CASE OpenFails
  BY <1>9 DEF OpenFails
<1>10. CASE Poll
  BY <1>10 DEF Poll
<1>11. CASE Read
  BY <1>11 DEF Read
<1>12. CASE Reply
  BY <1>12 DEF Reply
<1>13. CASE FreeInstantiate
  BY <1>13 DEF FreeInstantiate
<1>14. CASE CloseDriver
  BY <1>14 DEF CloseDriver
<1>15. CASE StopClient
  BY <1>15 DEF StopClient
<1>16. CASE JvmCrash
  BY <1>16 DEF JvmCrash
<1>17. CASE CheckConnected
  BY <1>17 DEF CheckConnected
<1>18. CASE TaskStart
  BY <1>18 DEF TaskStart
<1>19. CASE TaskTake
  BY <1>19 DEF TaskTake
<1>20. CASE GetResult
  BY <1>20 DEF GetResult, Roles, TaskDone
<1>21. CASE GetTimeout
  <2>1. SUFFICES ASSUME poster # "done", client # "deleted" PROVE FALSE
    BY <1>21 DEF GetTimeout
  <2>2. client = "open" /\ dog = "get" /\ task \in {"submitted", "waiting"}
    BY <1>21, <2>1 DEF GetTimeout, Roles, TaskDone, TaskStates
  <2>3. waited < GetAliveInterval
    BY <2>1, <2>2, DelayAssumption, LagAssumption
    DEF WaitBounded, LagsBounded, TaskCanRun, TaskDone, GetAliveInterval
  <2> QED
    BY <1>21, <2>3, DelayAssumption DEF GetTimeout, GetAliveInterval
<1>22. CASE HandleTimeout
  BY <1>22 DEF HandleTimeout
<1>23. CASE DogFrees
  BY <1>23 DEF DogFrees
<1>24. CASE Tick
  BY <1>24 DEF Tick
<1> QED
  BY <1>1, <1>2, <1>3, <1>4, <1>5, <1>6, <1>7, <1>8, <1>9, <1>10, <1>11, <1>12, <1>13, <1>14, <1>15, <1>16, <1>17, <1>18, <1>19, <1>20, <1>21, <1>22, <1>23, <1>24
  DEF Next, EngineNext, DriverNext, DogNext
\* The product in Rounds, which the provers leave alone elsewhere.
LEMMA RoundsFacts ==
    ASSUME NEW J \in Nat, NEW l \in Nat, NEW p \in Nat
    PROVE  /\ J * (l - l) = 0
           /\ J * (l - p) \in Int
           /\ p <= l => 0 <= J * (l - p) /\ J * (l - p) <= J * l
           /\ J * (l - (p - 1)) = J * (l - p) + J
<1>1. J * (l - l) = 0 /\ J * (l - p) \in Int
  BY SMT
<1>2. J * (l - p) = J * l - J * p /\ J * p >= 0
  BY SMT
<1>3. J * (l - (p - 1)) = J * (l - p) + J
  BY SMT
<1>4. p <= l => 0 <= J * (l - p)
  BY SMT
<1> QED
  BY <1>1, <1>2, <1>3, <1>4

\* Every step leaves the silence within what the dog has done since.
LEMMA SilenceStep ==
    ASSUME TypeOK, Roles, LagsBounded, SilenceBounded, Next
    PROVE  SilenceBounded'
<1> DEFINE silent ==
        /\ permits <= left
        /\ dog = "check" =>
            \/ since <= 4 * Rounds + JvmLag + dogLag
            \/ client = "deleted" /\ since <= 4 * Rounds + 3 * JvmLag + GetAliveInterval + dogLag
        /\ dog = "get" => since <= 4 * Rounds + 2 * JvmLag + waited + dogLag
        /\ dog = "get" /\ client = "open" =>
            /\ task = "submitted" => since <= 4 * Rounds + 2 * JvmLag + taskLag
            /\ task = "waiting" /\ permits > 0 => since <= 4 * Rounds + 3 * JvmLag + taskLag
            /\ task = "true" => since <= 4 * Rounds + dogLag
        /\ dog = "alarm" => since <= 4 * Rounds + 3 * JvmLag + GetAliveInterval + dogLag
<1> USE DelayAssumption DEF TypeOK, Roles, LagsBounded, GetAliveInterval, TaskStates
<1>a. Rounds \in Int /\ (permits <= left => 0 <= Rounds)
  BY RoundsFacts DEF Rounds
<1>b. UNCHANGED <<left, permits>> => Rounds' = Rounds
  BY DEF Rounds
<1>c. left' = permits /\ permits' = permits => Rounds' = 0
  BY RoundsFacts DEF Rounds
<1>d. SilenceBounded <=> (poster = "done" => silent)
  BY DEF SilenceBounded
<1>e. SilenceBounded' <=> (poster' = "done" => silent')
  BY DEF SilenceBounded
<1> USE <1>a, <1>d, <1>e
<1>f. ASSUME PosterEnds, UNCHANGED <<permits, dogVars, client>> PROVE silent'
  <2>1. Rounds' = 0 /\ since' = 0 /\ left' = permits /\ permits' = permits
    BY <1>f, <1>c DEF PosterEnds
  <2> QED
    BY <1>f, <2>1
<1>1. CASE Post
  BY <1>1, <1>b DEF Post
<1>2. CASE Wake
  <2>1. CASE PosterEnds
    BY <1>2, <2>1, <1>f DEF Wake
  <2>2. CASE poster' = "post" /\ UNCHANGED <<since, left>>
    BY <1>2, <2>2, <1>b DEF Wake
  <2> QED
    BY <1>2, <2>1, <2>2 DEF Wake
<1>3. CASE Call
  BY <1>3, <1>b DEF Call
<1>4. CASE Free
  BY <1>4, <1>b DEF Free
<1>5. CASE StopPoster
  BY <1>5, <1>b DEF StopPoster
<1>6. CASE JoinPoster
  BY <1>6, <1>b DEF JoinPoster
<1>7. CASE EngineCrash
  <2>1. CASE PosterEnds
    BY <1>7, <2>1, <1>f DEF EngineCrash
  <2>2. CASE UNCHANGED <<poster, since, left>>
    BY <1>7, <2>2, <1>b DEF EngineCrash
  <2> QED
    BY <1>7, <2>1, <2>2 DEF EngineCrash
<1>8. CASE Open
  BY <1>8, <1>b DEF Open
<1>9. CASE OpenFails
  BY <1>9, <1>b DEF OpenFails
<1>10. CASE Poll
  BY <1>10, <1>b DEF Poll
<1>11. CASE Read
  BY <1>11, <1>b DEF Read
<1>12. CASE Reply
  BY <1>12, <1>b DEF Reply
<1>13. CASE FreeInstantiate
  BY <1>13, <1>b DEF FreeInstantiate
<1>14. CASE CloseDriver
  BY <1>14, <1>b DEF CloseDriver
<1>15. CASE StopClient
  BY <1>15, <1>b DEF StopClient
<1>16. CASE JvmCrash
  BY <1>16, <1>b DEF JvmCrash
<1>17. CASE CheckConnected
  BY <1>17, <1>b DEF CheckConnected
<1>18. CASE TaskStart
  BY <1>18, <1>b DEF TaskStart
<1>19. CASE TaskTake
  <2>1. Rounds' = Rounds + JvmLag
    BY <1>19, RoundsFacts DEF TaskTake, Rounds
  <2> QED
    BY <1>19, <2>1 DEF TaskTake
<1>20. CASE GetResult
  BY <1>20, <1>b DEF GetResult, TaskDone
<1>21. CASE GetTimeout
  BY <1>21, <1>b DEF GetTimeout, TaskDone
<1>22. CASE HandleTimeout
  BY <1>22, <1>b DEF HandleTimeout
<1>23. CASE DogFrees
  BY <1>23, <1>b DEF DogFrees
<1>24. CASE Tick
  BY <1>24, <1>b DEF Tick, TaskCanRun, DogCanRun, TaskDone
<1> QED
  BY <1>1, <1>2, <1>3, <1>4, <1>5, <1>6, <1>7, <1>8, <1>9, <1>10, <1>11, <1>12, <1>13, <1>14, <1>15, <1>16, <1>17, <1>18, <1>19, <1>20, <1>21, <1>22, <1>23, <1>24
  DEF Next, EngineNext, DriverNext, DogNext
\* Every step leaves the command thread going, and a call on its way.
LEMMA CommandsStep ==
    ASSUME TypeOK, Roles, NoFalseAlarm, CommandsServed, Next PROVE CommandsServed'
<1> USE DEF TypeOK, CommandsServed, EngineStates, PosterStates
<1>1. CASE Post
  BY <1>1 DEF Post
<1>2. CASE Wake
  BY <1>2 DEF Wake, PosterEnds
<1>3. CASE Call
  BY <1>3 DEF Call
<1>4. CASE Free
  BY <1>4 DEF Free
<1>5. CASE StopPoster
  BY <1>5 DEF StopPoster
<1>6. CASE JoinPoster
  BY <1>6 DEF JoinPoster
<1>7. CASE EngineCrash
  BY <1>7 DEF EngineCrash, PosterEnds
<1>8. CASE Open
  BY <1>8 DEF Open, Roles
<1>9. CASE OpenFails
  BY <1>9 DEF OpenFails
<1>10. CASE Poll
  BY <1>10 DEF Poll
<1>11. CASE Read
  BY <1>11 DEF Read
<1>12. CASE Reply
  BY <1>12 DEF Reply
<1>13. CASE FreeInstantiate
  BY <1>13 DEF FreeInstantiate
<1>14. CASE CloseDriver
  BY <1>14 DEF CloseDriver
<1>15. CASE StopClient
  BY <1>15 DEF StopClient
<1>16. CASE JvmCrash
  BY <1>16 DEF JvmCrash, UsesDeletedClient
<1>17. CASE CheckConnected
  BY <1>17 DEF CheckConnected
<1>18. CASE TaskStart
  BY <1>18 DEF TaskStart
<1>19. CASE TaskTake
  BY <1>19 DEF TaskTake
<1>20. CASE GetResult
  BY <1>20 DEF GetResult
<1>21. CASE GetTimeout
  BY <1>21 DEF GetTimeout
<1>22. CASE HandleTimeout
  BY <1>22 DEF HandleTimeout, NoFalseAlarm
<1>23. CASE DogFrees
  BY <1>23 DEF DogFrees
<1>24. CASE Tick
  BY <1>24 DEF Tick
<1> QED
  BY <1>1, <1>2, <1>3, <1>4, <1>5, <1>6, <1>7, <1>8, <1>9, <1>10, <1>11, <1>12,
     <1>13, <1>14, <1>15, <1>16, <1>17, <1>18, <1>19, <1>20, <1>21, <1>22, <1>23, <1>24
  DEF Next, EngineNext, DriverNext, DogNext

\* Every step leaves the driver connected unless the dog or close() ends it.
LEMMA DisconnectsStep ==
    ASSUME TypeOK, Roles, CommandsServed, Disconnects, Next PROVE Disconnects'
<1> USE DEF TypeOK, Roles, Disconnects, Watching
<1>1. CASE Post
  BY <1>1 DEF Post
<1>2. CASE Wake
  BY <1>2 DEF Wake, PosterEnds
<1>3. CASE Call
  BY <1>3 DEF Call
<1>4. CASE Free
  BY <1>4 DEF Free
<1>5. CASE StopPoster
  BY <1>5 DEF StopPoster
<1>6. CASE JoinPoster
  BY <1>6 DEF JoinPoster
<1>7. CASE EngineCrash
  BY <1>7 DEF EngineCrash, PosterEnds
<1>8. CASE Open
  BY <1>8 DEF Open
<1>9. CASE OpenFails
  BY <1>9 DEF OpenFails
<1>10. CASE Poll
  BY <1>10 DEF Poll
<1>11. CASE Read
  BY <1>11 DEF Read
<1>12. CASE Reply
  BY <1>12 DEF Reply
<1>13. CASE FreeInstantiate
  BY <1>13 DEF FreeInstantiate
<1>14. CASE CloseDriver
  BY <1>14 DEF CloseDriver
<1>15. CASE StopClient
  BY <1>15 DEF StopClient
<1>16. CASE JvmCrash
  BY <1>16 DEF JvmCrash, UsesDeletedClient, CommandsServed
<1>17. CASE CheckConnected
  BY <1>17 DEF CheckConnected
<1>18. CASE TaskStart
  BY <1>18 DEF TaskStart
<1>19. CASE TaskTake
  BY <1>19 DEF TaskTake
<1>20. CASE GetResult
  BY <1>20 DEF GetResult
<1>21. CASE GetTimeout
  BY <1>21 DEF GetTimeout
<1>22. CASE HandleTimeout
  BY <1>22 DEF HandleTimeout
<1>23. CASE DogFrees
  BY <1>23 DEF DogFrees
<1>24. CASE Tick
  BY <1>24 DEF Tick
<1> QED
  BY <1>1, <1>2, <1>3, <1>4, <1>5, <1>6, <1>7, <1>8, <1>9, <1>10, <1>11, <1>12,
     <1>13, <1>14, <1>15, <1>16, <1>17, <1>18, <1>19, <1>20, <1>21, <1>22, <1>23, <1>24
  DEF Next, EngineNext, DriverNext, DogNext

LEMMA InvInit == ASSUME Init PROVE IInv
<1> USE DelayAssumption DEF Init
<1>1. alive \in BOOLEAN /\ connected \in BOOLEAN
  BY Zenon
<1>2. TypeOK
  BY <1>1 DEF TypeOK, EngineStates, PosterStates, CommandStates, DogStates, TaskStates
<1>3. Roles /\ LagsBounded
  BY DEF Roles, LagsBounded, GetAliveInterval
<1>4. WaitBounded /\ NoFalseAlarm /\ SilenceBounded /\ CommandsServed /\ Disconnects
  BY DEF WaitBounded, NoFalseAlarm, SilenceBounded, CommandsServed, Disconnects, Watching
<1> QED
  BY <1>2, <1>3, <1>4 DEF IInv

LEMMA InvNext == IInv /\ [Next]_vars => IInv'
<1> SUFFICES ASSUME IInv, [Next]_vars PROVE IInv'
  OBVIOUS
<1>1. CASE Next
  BY <1>1, TypeStep, RolesStep, LagsStep, WaitStep, AlarmStep, SilenceStep,
     CommandsStep, DisconnectsStep DEF IInv
<1>2. CASE UNCHANGED vars
  <2> USE <1>2 DEF IInv, vars
  <2>1. TypeOK' /\ Roles' /\ LagsBounded'
    BY DEF TypeOK, Roles, LagsBounded
  <2>2. WaitBounded' /\ NoFalseAlarm' /\ CommandsServed' /\ Disconnects'
    BY DEF WaitBounded, NoFalseAlarm, CommandsServed, Disconnects, Watching, TaskDone
  <2>3. SilenceBounded'
    BY DEF SilenceBounded, Rounds
  <2> QED
    BY <2>1, <2>2, <2>3
<1> QED
  BY <1>1, <1>2

\* The inductive invariant holds, for every delay and lag with a machine that
\* is fast enough: ProtocolDriver.setWatchDog against IpcServer::connWatchDog.
THEOREM InvariantCorrect == Spec => []IInv
BY InvInit, InvNext, PTL DEF Spec

\* handleTimeout runs only when the poster has stopped or the driver was closed.
THEOREM AlarmIsReal == Spec => []NoFalseAlarm
<1>1. IInv => NoFalseAlarm
  BY DEF IInv
<1> QED
  BY <1>1, InvariantCorrect, PTL

\* The bounds on the silence at each position of the dog, taken together.
LEMMA InTime == IInv => DetectedInTime
<1> SUFFICES ASSUME IInv PROVE DetectedInTime
  OBVIOUS
<1> USE DelayAssumption DEF IInv, TypeOK, LagsBounded
<1>1. SUFFICES ASSUME poster = "done", Watching
               PROVE  since <= 4 * AliveInterval + 4 * (JvmLag * left + JvmLag)
  BY DEF DetectedInTime
<1>2. Rounds \in Int /\ Rounds <= JvmLag * left
  BY <1>1, RoundsFacts DEF SilenceBounded, Rounds
<1>3. JvmLag * left \in Int /\ GetAliveInterval = 4 * AliveInterval
  BY DEF GetAliveInterval
<1>4. since <= 4 * Rounds + 4 * JvmLag + GetAliveInterval
  BY <1>1, <1>2, <1>3 DEF SilenceBounded, Watching, Roles
<1> QED
  BY <1>2, <1>3, <1>4

\* A poster that has stopped is noticed within the interval and a bounded lag.
THEOREM AlarmIsInTime == Spec => []DetectedInTime
BY InTime, InvariantCorrect, PTL

-----------------------------------------------------------------------------
(* The calls are answered.                                                 *)

\* The fairness of the driver's thread, with the guards written out.
DriverRuns ==
    /\ WeaklyFair(command = "none", Open \/ OpenFails, vars)
    /\ WeaklyFair(command \in {"poll", "read", "call", "free"},
                  Poll \/ Read \/ Reply \/ FreeInstantiate, vars)

\* Where the command thread is while a call waits, and what ends the wait.
Waits(c) ==
    /\ engine = "calling" /\ closer = "none" /\ command = c
    /\ c # "call" => message = "call"
Answered == engine # "calling" \/ closer # "none"

\* A call that waits is on its way, and the driver is there for it.
LEMMA WaitPlaces ==
    IInv =>
        /\ Answered \/ Waits("none") \/ Waits("poll") \/ Waits("read")
                    \/ Waits("call") \/ Waits("free")
        /\ Waits("poll") => connected
        /\ Waits("read") => client = "open" /\ message = "call"
BY DEF IInv, TypeOK, CommandsServed, CommandStates, Waits, Answered

\* From each place the command thread goes on towards the answer.
LEMMA WaitsStep ==
    IInv /\ [Next]_vars =>
        /\ Waits("none") => Waits("none")' \/ Waits("poll")' \/ Answered'
        /\ Waits("free") => Waits("free")' \/ Waits("poll")' \/ Answered'
        /\ Waits("poll") => Waits("poll")' \/ Waits("read")' \/ Answered'
        /\ Waits("read") => Waits("read")' \/ Waits("call")' \/ Answered'
        /\ Waits("call") => Waits("call")' \/ Answered'
<1> SUFFICES ASSUME IInv, [Next]_vars
    PROVE  /\ Waits("none") => Waits("none")' \/ Waits("poll")' \/ Answered'
           /\ Waits("free") => Waits("free")' \/ Waits("poll")' \/ Answered'
           /\ Waits("poll") => Waits("poll")' \/ Waits("read")' \/ Answered'
           /\ Waits("read") => Waits("read")' \/ Waits("call")' \/ Answered'
           /\ Waits("call") => Waits("call")' \/ Answered'
  OBVIOUS
<1> USE WaitPlaces DEF Waits, Answered
<1>1. CASE EngineNext
  BY <1>1 DEF EngineNext, Post, Wake, PosterEnds, Call, Free, StopPoster, JoinPoster,
     EngineCrash
<1>2. CASE Open \/ OpenFails
  BY <1>2 DEF Open, OpenFails, IInv, CommandsServed
<1>3. CASE Poll \/ Read \/ Reply \/ FreeInstantiate
  BY <1>3 DEF Poll, Read, Reply, FreeInstantiate
<1>4. CASE CloseDriver \/ StopClient
  BY <1>4 DEF CloseDriver, StopClient
<1>5. CASE JvmCrash
  BY <1>5 DEF JvmCrash, UsesDeletedClient, IInv, CommandsServed
<1>6. CASE DogNext \/ Tick
  BY <1>6 DEF DogNext, CheckConnected, TaskStart, TaskTake, GetResult, GetTimeout,
     HandleTimeout, DogFrees, Tick
<1>7. CASE UNCHANGED vars
  BY <1>7 DEF vars
<1> QED
  BY <1>1, <1>2, <1>3, <1>4, <1>5, <1>6, <1>7 DEF Next, DriverNext

\* CallIsAnswered: the driver opens, polls, reads and answers the call, and
\* neither the watch dog nor an earlier request keeps it from that.
THEOREM CallsAnswered == Spec /\ DriverRuns => CallIsAnswered
<1>1. IInv /\ [Next]_vars =>
        /\ Waits("none") => Waits("none")' \/ Waits("poll")' \/ Answered'
        /\ Waits("free") => Waits("free")' \/ Waits("poll")' \/ Answered'
        /\ Waits("poll") => Waits("poll")' \/ Waits("read")' \/ Answered'
        /\ Waits("read") => Waits("read")' \/ Waits("call")' \/ Answered'
        /\ Waits("call") => Waits("call")' \/ Answered'
  BY WaitsStep
<1>2. Waits("none") /\ (Open \/ OpenFails) => ~Waits("none")'
  BY DEF Open, OpenFails, Waits
<1>3. IInv /\ (Poll \/ Read \/ Reply \/ FreeInstantiate) =>
        /\ Waits("free") => ~Waits("free")'
        /\ Waits("poll") => ~Waits("poll")'
        /\ Waits("read") => ~Waits("read")'
        /\ Waits("call") => ~Waits("call")'
  BY DEF Poll, Read, Reply, FreeInstantiate, Waits
<1>4. /\ Waits("none") => command = "none"
      /\ Waits("free") \/ Waits("poll") \/ Waits("read") \/ Waits("call") =>
            command \in {"poll", "read", "call", "free"}
      /\ Answered <=> engine # "calling" \/ closer # "none"
  BY DEF Waits, Answered
<1>5. IInv => Answered \/ Waits("none") \/ Waits("poll") \/ Waits("read")
                       \/ Waits("call") \/ Waits("free")
  BY WaitPlaces
<1> QED
  BY <1>1, <1>2, <1>3, <1>4, <1>5, InvariantCorrect, PTL
     DEF Spec, DriverRuns, WeaklyFair, CallIsAnswered

-----------------------------------------------------------------------------
(* An orphan ends.                                                         *)

\* The clock passes every bound while the poster is silent and watched for.
ClockPasses(n) == []<>(poster = "done" /\ Watching => since > n)
TimePasses == \A n \in Nat : ClockPasses(n)

\* The fairness of the dog, with the guards written out.
DogRuns ==
    WeaklyFair(DogCanRun \/ dog = "freeing",
               CheckConnected \/ GetResult \/ GetTimeout \/ HandleTimeout \/ DogFrees,
               vars)

\* The silence that no dog has still to wait for.
LongSilence == 4 * AliveInterval + 4 * (JvmLag * MaxPermits + JvmLag)

\* No poster is ahead of the dog by more than the semaphore's greatest value.
LEMMA SilenceEnds == IInv => (poster = "done" /\ Watching => since <= LongSilence)
<1> SUFFICES ASSUME IInv, poster = "done", Watching PROVE since <= LongSilence
  OBVIOUS
<1> USE DelayAssumption DEF IInv, TypeOK
<1>1. since <= 4 * AliveInterval + 4 * (JvmLag * left + JvmLag)
  BY InTime DEF DetectedInTime
<1>2. JvmLag * left <= JvmLag * MaxPermits /\ JvmLag * left \in Int /\ JvmLag * MaxPermits \in Int
  <2>1. ASSUME NEW J \in Nat, NEW a \in Nat, NEW b \in Nat, a <= b
        PROVE  J * a <= J * b /\ J * a \in Int /\ J * b \in Int
    BY <2>1, SMT
  <2>2. left \in Nat /\ MaxPermits \in Nat /\ left <= MaxPermits
    OBVIOUS
  <2> QED
    BY <2>1, <2>2
<1> QED
  BY <1>1, <1>2 DEF LongSilence

\* The stages of the end: the dog watches, frees the instance and is done, and
\* then the command thread comes to see that the driver is disconnected.
Silent == poster = "done" /\ Watching
Frees == poster = "done" /\ dog = "freeing"
Ending(c) == dog = "done" /\ ~connected /\ command = c /\ (freed > 0 \/ closer # "none")

\* From each stage the driver only goes on.
LEMMA EndStep ==
    IInv /\ [Next]_vars =>
        /\ Silent => \/ Silent' \/ Frees'
                      \/ Ending("poll")' \/ Ending("read")' \/ Ending("call")'
                      \/ Ending("free")' \/ Ending("done")'
        /\ Frees => \/ Frees'
                     \/ Ending("poll")' \/ Ending("read")' \/ Ending("call")'
                     \/ Ending("free")' \/ Ending("done")'
        /\ Ending("read") => \/ Ending("read")' \/ Ending("poll")' \/ Ending("call")'
                              \/ Ending("free")' \/ Ending("done")'
        /\ Ending("call") => Ending("call")' \/ Ending("poll")' \/ Ending("done")'
        /\ Ending("free") => Ending("free")' \/ Ending("poll")' \/ Ending("done")'
        /\ Ending("poll") => Ending("poll")' \/ Ending("done")'
        /\ Ending("done") => Ending("done")'
<1> SUFFICES ASSUME IInv, [Next]_vars
    PROVE
        /\ Silent => \/ Silent' \/ Frees'
                      \/ Ending("poll")' \/ Ending("read")' \/ Ending("call")'
                      \/ Ending("free")' \/ Ending("done")'
        /\ Frees => \/ Frees'
                     \/ Ending("poll")' \/ Ending("read")' \/ Ending("call")'
                     \/ Ending("free")' \/ Ending("done")'
        /\ Ending("read") => \/ Ending("read")' \/ Ending("poll")' \/ Ending("call")'
                              \/ Ending("free")' \/ Ending("done")'
        /\ Ending("call") => Ending("call")' \/ Ending("poll")' \/ Ending("done")'
        /\ Ending("free") => Ending("free")' \/ Ending("poll")' \/ Ending("done")'
        /\ Ending("poll") => Ending("poll")' \/ Ending("done")'
        /\ Ending("done") => Ending("done")'
  OBVIOUS
<1>1. IInv'
  BY InvNext
<1>2. poster = "done" => poster' = "done"
  BY Zenon DEF Next, EngineNext, Post, Wake, PosterEnds, Call, Free, StopPoster,
     JoinPoster, EngineCrash, DriverNext, Open, OpenFails, Poll, Read, Reply, FreeInstantiate,
     CloseDriver, StopClient, JvmCrash, DogNext, CheckConnected, TaskStart, TaskTake, GetResult,
     GetTimeout, HandleTimeout, DogFrees, Tick, vars
<1>3. /\ dog # "none" => dog' # "none"
      /\ dog = "freeing" => dog' \in {"freeing", "done"}
      /\ dog = "done" => dog' = "done"
  BY Zenon DEF IInv, Roles, Next, EngineNext, Post, Wake, PosterEnds, Call, Free, StopPoster,
     JoinPoster, EngineCrash, DriverNext, Open, OpenFails, Poll, Read, Reply, FreeInstantiate,
     CloseDriver, StopClient, JvmCrash, DogNext, CheckConnected, TaskStart, TaskTake, GetResult,
     GetTimeout, HandleTimeout, DogFrees, Tick, vars
<1>4. dog' # "none" => command' \in {"poll", "read", "call", "free", "done"}
  BY <1>1 DEF IInv, TypeOK, Roles, CommandStates
<1>5. dog' = "done" => ~connected' /\ (freed' > 0 \/ closer' # "none")
  BY <1>1 DEF IInv, Disconnects
<1>6. ~connected =>
        /\ command = "call" => command' \in {"call", "poll", "done"}
        /\ command = "free" => command' \in {"free", "poll", "done"}
        /\ command = "poll" => command' \in {"poll", "done"}
        /\ command = "done" => command' = "done"
  BY Zenon DEF Next, EngineNext, Post, Wake, PosterEnds, Call, Free, StopPoster,
     JoinPoster, EngineCrash, DriverNext, Open, OpenFails, Poll, Read, Reply, FreeInstantiate,
     CloseDriver, StopClient, JvmCrash, DogNext, CheckConnected, TaskStart, TaskTake, GetResult,
     GetTimeout, HandleTimeout, DogFrees, Tick, vars
<1>7. dog' = "done" =>
        Ending("poll")' \/ Ending("read")' \/ Ending("call")' \/ Ending("free")'
        \/ Ending("done")'
  BY <1>3, <1>4, <1>5 DEF Ending
<1>8. dog' \in DogStates
  BY <1>1 DEF IInv, TypeOK
<1>9. Silent \/ Frees => poster' = "done" /\ dog' # "none"
  BY <1>2, <1>3 DEF Silent, Frees, Watching
<1>10. Silent => Silent' \/ Frees' \/ dog' = "done"
  BY <1>8, <1>9 DEF Silent, Frees, Watching, DogStates
<1>11. Frees => Frees' \/ dog' = "done"
  BY <1>3, <1>9 DEF Frees
<1>12. /\ Ending("read") \/ Ending("call") \/ Ending("free") \/ Ending("poll")
           \/ Ending("done") => dog' = "done"
       /\ Ending("call") => command' \in {"call", "poll", "done"}
       /\ Ending("free") => command' \in {"free", "poll", "done"}
       /\ Ending("poll") => command' \in {"poll", "done"}
       /\ Ending("done") => command' = "done"
  BY <1>3, <1>6 DEF Ending
<1>13. ASSUME dog' = "done", NEW c, command' = c PROVE Ending(c)'
  BY <1>5, <1>13 DEF Ending
<1> QED
  BY <1>7, <1>10, <1>11, <1>12, <1>13

\* The thread whose turn it is does go on.
LEMMA EndMove ==
    /\ Frees /\ (CheckConnected \/ GetResult \/ GetTimeout \/ HandleTimeout \/ DogFrees) =>
            ~Frees'
    /\ IInv /\ (Poll \/ Read \/ Reply \/ FreeInstantiate) =>
        /\ Ending("poll") => ~Ending("poll")'
        /\ Ending("read") => ~Ending("read")'
        /\ Ending("call") => ~Ending("call")'
        /\ Ending("free") => ~Ending("free")'
<1>1. Frees /\ (CheckConnected \/ GetResult \/ GetTimeout \/ HandleTimeout \/ DogFrees) =>
          dog' # "freeing"
  BY DEF Frees, CheckConnected, GetResult, GetTimeout, HandleTimeout, DogFrees
<1>2. IInv /\ (Poll \/ Read \/ Reply \/ FreeInstantiate) => command' # command
  BY DEF IInv, TypeOK, Poll, Read, Reply, FreeInstantiate
<1> QED
  BY <1>1, <1>2 DEF Frees, Ending

\* OrphanIsFreed: the engine being gone, the clock and the threads of the JVM
\* going on are all it takes for the instance to be freed and for both of the
\* threads to end; what bounds the dog's patience is SilenceEnds.
THEOREM OrphansEnd == Spec /\ TimePasses /\ DriverRuns /\ DogRuns => OrphanIsFreed
<1> DEFINE Endings == Ending("poll") \/ Ending("read") \/ Ending("call") \/ Ending("free")
                      \/ Ending("done")
<1>1. LongSilence \in Nat
  <2>1. JvmLag * MaxPermits \in Nat
    BY DelayAssumption, SMT
  <2> QED
    BY <2>1, DelayAssumption DEF LongSilence
<1>2. TimePasses => ClockPasses(LongSilence)
  BY <1>1 DEF TimePasses
<1>3. IInv => (poster = "done" /\ Watching => ~(since > LongSilence))
  BY <1>1, SilenceEnds DEF IInv, TypeOK
<1>4. IInv /\ [Next]_vars =>
        /\ Silent => \/ Silent' \/ Frees'
                      \/ Ending("poll")' \/ Ending("read")' \/ Ending("call")'
                      \/ Ending("free")' \/ Ending("done")'
        /\ Frees => \/ Frees'
                     \/ Ending("poll")' \/ Ending("read")' \/ Ending("call")'
                     \/ Ending("free")' \/ Ending("done")'
        /\ Ending("read") => \/ Ending("read")' \/ Ending("poll")' \/ Ending("call")'
                              \/ Ending("free")' \/ Ending("done")'
        /\ Ending("call") => Ending("call")' \/ Ending("poll")' \/ Ending("done")'
        /\ Ending("free") => Ending("free")' \/ Ending("poll")' \/ Ending("done")'
        /\ Ending("poll") => Ending("poll")' \/ Ending("done")'
        /\ Ending("done") => Ending("done")'
  BY EndStep
<1>5. /\ Frees /\ (CheckConnected \/ GetResult \/ GetTimeout \/ HandleTimeout \/ DogFrees) =>
              ~Frees'
      /\ IInv /\ (Poll \/ Read \/ Reply \/ FreeInstantiate) =>
            /\ Ending("poll") => ~Ending("poll")'
            /\ Ending("read") => ~Ending("read")'
            /\ Ending("call") => ~Ending("call")'
            /\ Ending("free") => ~Ending("free")'
  BY EndMove
<1>6. /\ Frees => DogCanRun \/ dog = "freeing"
      /\ Ending("poll") \/ Ending("read") \/ Ending("call") \/ Ending("free") =>
            command \in {"poll", "read", "call", "free"}
      /\ Silent <=> poster = "done" /\ Watching
      /\ Ending("done") => dog = "done" /\ command = "done" /\ (freed > 0 \/ closer # "none")
  BY DEF Frees, Ending, Silent
<1>7. IInv /\ poster = "done" /\ dog # "none" => Silent \/ Frees \/ Endings
  BY DEF IInv, TypeOK, Roles, Disconnects, DogStates, CommandStates, Silent, Frees, Ending, Watching
<1> QED
  BY <1>2, <1>3, <1>4, <1>5, <1>6, <1>7, InvariantCorrect, PTL
     DEF Spec, DriverRuns, DogRuns, ClockPasses, WeaklyFair, OrphanIsFreed
=============================================================================
