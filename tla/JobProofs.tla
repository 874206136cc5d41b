----------------------------- MODULE JobProofs -----------------------------
(***************************************************************************)
(* Proofs that the job protocol keeps its promises: what a flag, a stage   *)
(* and a response say of a job, for every number of cores and requests.    *)
(***************************************************************************)
EXTENDS CoreJobsProofs

USE CoreCounts, RequestBound, TimeoutRange
USE DEF locks, ap, request, wait, outcome

-----------------------------------------------------------------------------
(* Which cores run. *)

\* An AP that has set started was handed to core_main_loop, and nobody gives
\* a job to a core that has not.  The loop over all cores leaves none out.
StartInv ==
  /\ \A c \in APs : pc[c] = "off" => ctx[c].started = 0
  /\ \A c \in Contexts : ctx[c].started = 0 => ctx[c].slot = NullCall
  /\ boot \in {"acquire_lock", "acquire_ready", "acquire_queued", "clear",
               "fill", "queue"} => ctx[target].started = 1
  /\ boot \in {"start_lock", "start_tables", "start_ap"} =>
       ctx[target].slot = NullCall
  /\ boot \in StartPath \ {"start"} /\ req.core = 0 =>
       \A c \in APs : c < target => pc[c] # "off"
  /\ StartMeansRunning

-----------------------------------------------------------------------------
(* Whose job is where. *)

Last(c) == ctx[c].slot.id

\* Until core 0 fills the slot, the request it serves has no job anywhere.
NotYet ==
  \/ boot \in StartPath \cup Sampling \cup
       {"status", "acquire", "acquire_lock", "acquire_ready", "acquire_queued",
        "clear", "fill"}
  \/ boot \in Unlocking /\ back = "reject"
  \/ boot = "respond" /\ req.op \in {"start", "status", "last"}

\* From then on it does not lose sight of the context that holds the job.
Filled ==
  \/ boot \in {"queue", "sync_accept", "sync_call", "wait_lock", "wait_try",
               "wait_ready", "wait_queued", "wait_tick", "waited"}
  \/ boot \in Unlocking /\ back \in {"wait_lock", "wait_tick", "waited", "respond"}
  \/ boot = "respond" /\ req.op = "code"

\* No two contexts hold the same job, and none holds one of a later request.
IdInv ==
  /\ \A c \in Contexts : Last(c) <= served
  /\ \A c \in APs : running[c].id <= served
  /\ \A c \in Contexts : ctx[c].slot.func = "null" => Last(c) = 0
  /\ \A c, d \in Contexts : Last(c) = Last(d) /\ Last(c) # 0 => c = d
  /\ \A r \in Requests : r > served => job[r] = "none" /\ reply[r].kind = "none"
  /\ boot # "idle" => reply[served].kind = "none"
  /\ NotYet =>
       /\ job[served] = "none"
       /\ \A c \in Contexts : Last(c) # served
       /\ \A c \in APs : running[c].id # served
  /\ Filled => ctx[target].slot = [func |-> req.op, id |-> served]

-----------------------------------------------------------------------------
(* What a context says of its job, while no lock was released behind its   *)
(* owner's back.                                                           *)

JobIs(c, stage) == Last(c) # 0 /\ job[Last(c)] = stage
Over(c) == JobIs(c, "done") \/ JobIs(c, "aborted")
Taken(c) == c \in APs /\ pc[c] \in {"zero_fault", "call"}
Runs(c) ==
  \/ c \in APs /\ pc[c] \in {"exec", "dead"}
  \/ c = 0 /\ boot = "sync_call"

\* job_queued says that the job waits; otherwise the place of the core that
\* works on the context tells how far it is.
Stages(c) ==
  /\ ctx[c].job_queued = 1 => JobIs(c, "queued")
  /\ JobIs(c, "queued") => ctx[c].job_queued = 1 \/ Taken(c)
  /\ Taken(c) => JobIs(c, "queued")
  /\ JobIs(c, "running") <=> Runs(c)
  /\ JobIs(c, "none") => boot = "queue" /\ target = c

\* job_queued is set where core_main_loop takes the job, and not where it
\* resets the flag or returns to its loop.
Places(c) ==
  /\ pc[c] \in {"accept", "dequeue"} => ctx[c].job_queued = 1
  /\ pc[c] \in {"off", "init", "set_ready", "clear_queued", "zero_fault", "call",
                "finish", "unlock_store"} => ctx[c].job_queued = 0
  /\ pc[c] = "call" => ctx[c].fault_info = "clear"
  /\ pc[c] = "exec" => running[c] = ctx[c].slot

\* fault_info and the result buffer are those of the job in the slot, from
\* its first instruction on.
Outputs(c) ==
  /\ JobIs(c, "running") \/ Over(c) =>
       (ctx[c].fault_info = "set" <=> Last(c) \in tripped)
  /\ ctx[c].slot.func = "code" => ctx[c].result \in {0, Last(c)}
  /\ c = 0 => ctx[c].fault_info = "null"
  /\ JobIs(c, "aborted") => ctx[c].slot.func = "code"

ContextInv ==
  /\ \A c \in Contexts : Stages(c) /\ Outputs(c)
  /\ \A c \in APs : Places(c)

\* Where core 0 has found out that the job it waits for is over.
Completed ==
  \/ boot \in Unlocking /\ back \in {"waited", "respond"}
  \/ boot = "waited" /\ ~late
  \/ boot = "respond" /\ req.op = "code" /\ ~late

\* Core 0 writes the job of its request into a context without one, and runs
\* the jobs of core 0 itself at once.
PrepareInv ==
  /\ boot = "queue" => job[served] = "none"
  /\ boot \in {"clear", "fill", "queue"} => ctx[target].job_queued = 0
  /\ boot = "fill" =>
       /\ ctx[target].slot = NullCall
       /\ req.op = "code" => ctx[target].result = 0
  /\ boot = "sync_accept" => target = 0 /\ ctx[target].job_queued = 1
  /\ boot = "sync_call" => target = 0
  /\ boot \in Unlocking /\ back = "respond" => target = 0

\* What core 0 remembers of its wait is true of the job it waited for.
WaitInv ==
  /\ boot \notin {"waited", "respond", "reject"} => ~late
  /\ boot \notin {"respond", "reject"} => ~sample.fault
  /\ Completed => job[served] \in Finished
  /\ boot = "respond" /\ req.op = "read_msr" => job[served] \in {"none", "done"}
  /\ boot = "respond" /\ req.op = "code" /\ ~late =>
       (sample.fault <=> served \in tripped)

BootInv == PrepareInv /\ WaitInv

\* Nobody queues a job while core 0 samples: where a sample has shown no job
\* queued, the last one is over or its AP keeps the lock, and once a sample
\* has shown the lock free as well, it is over.
SampleInv ==
  /\ boot = "sample_lock" /\ sample.queued = 0 => ctx[target].job_queued = 0
  /\ (\/ boot = "sample_fault"
      \/ boot = "respond" /\ req.op \in {"status", "last"})
     /\ sample.queued = 0 /\ sample.lock = 0
       => Last(target) = 0 \/ Over(target)
  /\ boot = "respond" /\ req.op \in {"status", "last"} => target \in Contexts

\* What was told stays true: the job of an answered request is over.
HistoryInv ==
  /\ \A r \in Requests : job[r] \in {"queued", "running"} =>
       \E c \in Contexts : Last(c) = r
  /\ \A r \in tripped : job[r] \notin {"none", "queued"}
  /\ \A r \in Requests : job[r] = "aborted" => r \in tripped
  /\ \A r \in Requests :
       (\/ reply[r].kind = "result" /\ "timeout" \notin reply[r].flags
        \/ reply[r].kind = "msr")
         => job[r] \in {"none"} \cup Finished
  /\ \A r \in Requests :
       reply[r].kind = "result" /\ "timeout" \notin reply[r].flags
         => ("fault" \in reply[r].flags <=> r \in tripped)
  /\ \A r \in Requests :
       reply[r].kind = "result" /\ job[r] # "none" => reply[r].result \in {0, r}

JobInv == ContextInv /\ BootInv /\ SampleInv /\ HistoryInv
QuietJobInv == Undisturbed => JobInv
-----------------------------------------------------------------------------
(* What a step of an AP may change at all. *)

\* An AP writes to its own context, never to its slot, and to the stage of
\* the job in that slot or of the job it runs.
ApEffect(c) ==
  /\ BootKeeps /\ UNCHANGED reply
  /\ \A d \in Contexts : /\ ctx'[d].slot = ctx[d].slot
                         /\ d # c => ctx'[d] = ctx[d]
  /\ ctx'[c].started \in {ctx[c].started, 1}
  /\ ctx'[c].job_queued \in {ctx[c].job_queued, 0}
  /\ \A d \in APs \ {c} : pc'[d] = pc[d] /\ running'[d] = running[d]
  /\ pc[c] # "off" /\ pc'[c] # "off"
  /\ running'[c] \in {running[c], ctx[c].slot}
  /\ \A r \in Requests : job'[r] = job[r] \/ r \in {Last(c), running[c].id}

\* Every step of an AP is confined so.
LEMMA ApEffects ==
  ASSUME TypeOK, NEW c \in APs, ApNext(c)
  PROVE  ApEffect(c)
<1> USE DEF TypeOK, Context, ApEffect, Last
<1>0. c \in Contexts
  BY DEF APs, Contexts
<1>1. CASE LoopSetStarted(c)
  BY <1>0, <1>1 DEF LoopSetStarted, Step, BootKeeps
<1>2. CASE LoopSetReady(c)
  BY <1>0, <1>2 DEF LoopSetReady, Step, BootKeeps
<1>3. CASE LoopClearQueued(c)
  BY <1>0, <1>3 DEF LoopClearQueued, Step, BootKeeps
<1>4. CASE ApUnlockStore(c)
  BY <1>0, <1>4 DEF ApUnlockStore, Step, BootKeeps, unlock_store
<1>5. CASE ApUnlockExchange(c)
  BY <1>0, <1>5 DEF ApUnlockExchange, Step, BootKeeps, unlock_exchange
<1>6. CASE SpinFree(c)
  BY <1>0, <1>6 DEF SpinFree, Step, BootKeeps
<1>7. CASE CheckQueued(c)
  BY <1>0, <1>7 DEF CheckQueued, Step, BootKeeps
<1>8. CASE TryLock(c)
  BY <1>0, <1>8 DEF TryLock, Step, BootKeeps, try_lock_context
<1>9. CASE TryLockFails(c)
  BY <1>0, <1>9 DEF TryLockFails, Step, BootKeeps
<1>10. CASE Recheck(c)
  BY <1>0, <1>10 DEF Recheck, Step, BootKeeps
<1>11. CASE AcceptJob(c)
  BY <1>0, <1>11 DEF AcceptJob, Step, BootKeeps
<1>12. CASE DequeueJob(c)
  BY <1>0, <1>12 DEF DequeueJob, Step, BootKeeps
<1>13. CASE ZeroFault(c)
  BY <1>0, <1>13 DEF ZeroFault, Step, BootKeeps
<1>14. CASE CallFunctions(c)
  BY <1>0, <1>14 DEF CallFunctions, Step, BootKeeps
<1>15. CASE FinishJob(c)
  BY <1>0, <1>15 DEF FinishJob, Step, BootKeeps
<1>16. CASE JobWrites(c)
  BY <1>0, <1>16 DEF JobWrites, Step, BootKeeps
<1>17. CASE JobProtectionFault(c)
  BY <1>0, <1>17 DEF JobProtectionFault, Step, BootKeeps, NoteFault
<1>18. CASE JobFault(c)
  BY <1>0, <1>18 DEF JobFault, Step, BootKeeps, NoteFault
<1>19. CASE JobDoubleFault(c)
  BY <1>0, <1>19 DEF JobDoubleFault, Step, BootKeeps, NoteFault
<1>20. CASE JobHangs(c)
  BY <1>0, <1>20 DEF JobHangs, Step, BootKeeps
<1>21. CASE JobReturns(c)
  BY <1>0, <1>21 DEF JobReturns, Step, BootKeeps
<1> QED
  BY <1>1, <1>2, <1>3, <1>4, <1>5, <1>6, <1>7, <1>8, <1>9, <1>10, <1>11, <1>12,
     <1>13, <1>14, <1>15, <1>16, <1>17, <1>18, <1>19, <1>20, <1>21 DEF ApNext,
     ApMoves, JobStep
-----------------------------------------------------------------------------
(* Which cores run: the proof. *)

\* At first no AP runs and no core has a job.
LEMMA StartInit == Init => StartInv
  BY DEF Init, StartInv, StartMeansRunning, APs, StartPath

\* An AP only ever sets its started flag, and stays in its main loop.
LEMMA StartAps ==
  ASSUME TypeInv, StartInv, NEW c \in APs, ApNext(c)
  PROVE  StartInv'
<1>0. c \in Contexts /\ APs \subseteq Contexts
  BY DEF APs, Contexts
<1>1. ApEffect(c)
  BY ApEffects DEF TypeInv
<1>2. boot \in {"acquire_lock", "acquire_ready", "acquire_queued", "clear",
                "fill", "queue", "start_lock", "start_tables", "start_ap"} =>
        target \in Contexts
  BY OnCore DEF TypeInv, JobPath
<1>3. \A d \in APs : pc'[d] = "off" => pc[d] = "off" /\ d # c
  BY <1>1 DEF ApEffect
<1>4. \A d \in Contexts : /\ ctx[d].started = 1 => ctx'[d].started = 1
                          /\ ctx'[d].started = 0 => ctx[d].started = 0
  BY <1>0, <1>1, Fields DEF ApEffect, TypeInv
<1>5. \A d \in Contexts : ctx'[d].slot = ctx[d].slot
  BY <1>1 DEF ApEffect
<1>6. BootKeeps
  BY <1>1 DEF ApEffect
<1>7. (\A d \in APs : pc[d] = "off" => ctx[d].started = 0)'
  BY <1>0, <1>1, <1>3 DEF StartInv, ApEffect
<1> QED
  BY <1>2, <1>3, <1>4, <1>5, <1>6, <1>7 DEF StartInv, StartMeansRunning, BootKeeps

\* Core 0 gives jobs to cores that have set started, and starts others.
LEMMA StartBoot ==
  ASSUME TypeInv, StartInv, BootNext
  PROVE  StartInv'
<1> USE DEF TypeInv, StartInv, StartMeansRunning, StartPath
<1>0. /\ APs \subseteq Contexts /\ target \in Nat
      /\ boot \in {"start_lock", "start_tables", "start_ap"} \cup Unlocking
                    \cup (JobPath \ {"acquire"}) => target \in Contexts
      /\ back \notin {"acquire_lock", "acquire_ready", "acquire_queued", "clear",
               "fill", "queue", "start", "start_next", "start_check",
               "start_lock", "start_tables", "start_ap"}
      /\ \A c \in APs : c \in Nat /\ 1 <= c /\ c < NumCores
      /\ boot # "idle" => req \in Request
  BY OnCore DEF APs, Contexts, TypeOK, Located
<1>1. CASE SendError
  BY <1>0, <1>1 DEF SendError, Go, Answer, Return, JobPath, Unlocking, TypeOK
<1>2. CASE BootUnlockStore
  BY <1>0, <1>2 DEF BootUnlockStore, Go, ApsKeep, unlock_store, JobPath,
     Unlocking, TypeOK
<1>3. CASE BootUnlockExchange
  BY <1>0, <1>3 DEF BootUnlockExchange, ApsKeep, unlock_exchange, JobPath,
     Unlocking, TypeOK, Located, OnJob
<1>4. CASE HandleStart
  BY <1>0, <1>4, RequestFields DEF HandleStart, Go, ApsKeep, JobPath,
     Unlocking, TypeOK, Located
<1>5. CASE StartNext
  <2>1. req.core = 0 /\ req.op = "start" /\ target >= 1
    BY <1>5 DEF Located, StartNext, StartLoopBody, Go
  <2>2. \A c \in APs : c < target + 1 /\ c # target => c < target
    BY <1>0
  <2>3. target \in Contexts /\ ctx[target].started = 1 =>
          \A c \in APs : c = target => pc[c] # "off"
    BY <1>0
  <2>4. target \in Contexts => ctx[target].started \in {0, 1}
    BY Fields
  <2> QED
    BY <1>0, <1>5, <2>1, <2>2, <2>3, <2>4 DEF StartNext, StartLoopBody, Go, ApsKeep
<1>6. CASE StartCheck
  <2>1. target \in Contexts => ctx[target].started \in {0, 1}
    BY Fields
  <2> QED
    BY <1>0, <1>6, <2>1 DEF StartCheck, Go, ApsKeep
<1>7. CASE StartLock
  BY <1>0, <1>7 DEF StartLock, Go, ApsKeep, try_lock_context, JobPath,
     Unlocking, TypeOK
<1>8. CASE StartLockFails
  BY <1>0, <1>8 DEF StartLockFails, Go, ApsKeep, JobPath, Unlocking, TypeOK
<1>9. CASE StartTables
  BY <1>0, <1>9 DEF StartTables, Go, ApsKeep, JobPath, Unlocking, TypeOK
<1>10. CASE StartAp
  <2>1. target \in Contexts /\ target >= 1 /\ (req.core # 0 => target = req.core)
        /\ target < NumCores
    BY <1>10, OnCore DEF Located, StartAp, Go
  <2>2. target \in APs /\ ctx[target].started = 0
    BY <1>0, <1>10, <2>1 DEF StartAp, APs, Contexts
  <2>3. \A c \in APs : c < target + 1 /\ c # target => c < target
    BY <1>0
  <2>4. \A c \in APs : pc'[c] = "off" => pc[c] = "off" /\ c # target
    BY <1>10, <2>2 DEF StartAp, TypeOK
  <2> QED
    BY <1>0, <1>10, <2>1, <2>2, <2>3, <2>4 DEF StartAp, Go
<1>11. CASE StartApFails
  BY <1>0, <1>11 DEF StartApFails, UnlockThen, ApsKeep, JobPath, Unlocking,
     TypeOK
<1>12. CASE AcquireCheck
  <2>1. target = req.core /\ req.op \in {"code", "read_msr"}
    BY <1>12 DEF Located, OnJob, JobPath, AcquireCheck, Go
  <2> QED
    BY <1>0, <1>12, <2>1 DEF AcquireCheck, Go, ApsKeep, present
<1>13. CASE AcquireLock
  BY <1>0, <1>13 DEF AcquireLock, Go, ApsKeep, try_lock_context, JobPath,
     Unlocking, TypeOK
<1>14. CASE AcquireLockFails
  BY <1>0, <1>14 DEF AcquireLockFails, Go, ApsKeep, JobPath, Unlocking, TypeOK
<1>15. CASE AcquireReady
  BY <1>0, <1>15 DEF AcquireReady, Go, UnlockThen, ApsKeep, JobPath, Unlocking,
     TypeOK
<1>16. CASE AcquireQueued
  BY <1>0, <1>16 DEF AcquireQueued, Go, UnlockThen, ApsKeep, JobPath,
     Unlocking, TypeOK
<1>17. CASE ClearJob
  BY <1>0, <1>17 DEF ClearJob, Go, ApsKeep, JobPath, Unlocking, TypeOK
<1>18. CASE FillJob
  BY <1>0, <1>18 DEF FillJob, Go, ApsKeep, JobPath, Unlocking, TypeOK
<1>19. CASE QueueJob
  BY <1>0, <1>19 DEF QueueJob, Go, UnlockThen, JobPath, Unlocking, TypeOK
<1>20. CASE SyncAccept
  BY <1>0, <1>20 DEF SyncAccept, Go, JobPath, Unlocking, TypeOK
<1>21. CASE WaitLock
  BY <1>0, <1>21 DEF WaitLock, Go, ApsKeep, JobPath, Unlocking, TypeOK
<1>22. CASE WaitTry
  BY <1>0, <1>22 DEF WaitTry, Go, ApsKeep, try_lock_context, JobPath,
     Unlocking, TypeOK
<1>23. CASE WaitTryFails
  BY <1>0, <1>23 DEF WaitTryFails, Go, ApsKeep, JobPath, Unlocking, TypeOK
<1>24. CASE WaitReady
  BY <1>0, <1>24 DEF WaitReady, Go, UnlockThen, ApsKeep, JobPath, Unlocking,
     TypeOK
<1>25. CASE WaitQueued
  BY <1>0, <1>25 DEF WaitQueued, UnlockThen, ApsKeep, JobPath, Unlocking,
     TypeOK
<1>26. CASE WaitTick
  BY <1>0, <1>26 DEF WaitTick, Go, ApsKeep, JobPath, Unlocking, TypeOK
<1>27. CASE Waited
  BY <1>0, <1>27 DEF Waited, Go, ApsKeep, JobPath, Unlocking, TypeOK, Located,
     OnJob
<1>28. CASE HandleStatus
  BY <1>0, <1>28 DEF HandleStatus, Go, ApsKeep, JobPath, Unlocking, TypeOK
<1>29. CASE SampleReady
  BY <1>0, <1>29 DEF SampleReady, Go, ApsKeep, JobPath, Unlocking, TypeOK
<1>30. CASE SampleQueued
  BY <1>0, <1>30 DEF SampleQueued, Go, ApsKeep, JobPath, Unlocking, TypeOK
<1>31. CASE SampleLock
  BY <1>0, <1>31 DEF SampleLock, Go, ApsKeep, JobPath, Unlocking, TypeOK
<1>32. CASE SampleFault
  BY <1>0, <1>32 DEF SampleFault, Go, ApsKeep, JobPath, Unlocking, TypeOK,
     Located, Sampling
<1>33. CASE Respond
  BY <1>0, <1>33 DEF Respond, Go, Answer, Return, JobPath, Unlocking, TypeOK
<1>34. CASE Receive
  BY <1>0, <1>34 DEF Receive, Go, ApsKeep, JobPath, Unlocking, TypeOK
<1>35. CASE SyncReturns
  BY <1>0, <1>35 DEF SyncReturns, UnlockThen, JobPath, Unlocking, TypeOK
<1> QED
  BY <1>1, <1>2, <1>3, <1>4, <1>5, <1>6, <1>7, <1>8, <1>9, <1>10, <1>11, <1>12,
     <1>13, <1>14, <1>15, <1>16, <1>17, <1>18, <1>19, <1>20, <1>21, <1>22,
     <1>23, <1>24, <1>25, <1>26, <1>27, <1>28, <1>29, <1>30, <1>31, <1>32,
     <1>33, <1>34, <1>35 DEF BootNext, BootMoves

\* Every step keeps the invariant.
LEMMA StartStep == TypeInv /\ StartInv /\ [Next]_vars => StartInv'
<1> SUFFICES ASSUME TypeInv, StartInv, [Next]_vars PROVE StartInv'
  OBVIOUS
<1>1. CASE BootNext
  BY <1>1, StartBoot
<1>2. ASSUME NEW c \in APs, ApNext(c) PROVE StartInv'
  BY <1>2, StartAps
<1>3. CASE UNCHANGED vars
  BY <1>3 DEF vars, StartInv, StartMeansRunning
<1> QED
  BY <1>1, <1>2, <1>3 DEF Next

LEMMA StartCorrect == Spec => []StartInv
  BY TypeInit, TypeStep, StartInit, StartStep, PTL DEF Spec

\* STARTCORE reports success only when the core it names, or with core 0
\* every AP there is a context for, was handed to core_main_loop.
THEOREM StartsTruthfully == Spec => []StartMeansRunning
<1>1. StartInv => StartMeansRunning
  BY DEF StartInv
<1> QED
  BY <1>1, StartCorrect, PTL

-----------------------------------------------------------------------------
(* Whose job is where: the proof. *)

\* At first there are no jobs.
LEMMA IdInit == Init => IdInv
<1> SUFFICES ASSUME Init PROVE IdInv
  OBVIOUS
<1> QED
  BY DEF Init, IdInv, Last, NullCall, NoReply, NotYet, Filled, StartPath,
     Sampling, Unlocking

\* An AP takes the job it runs from its slot.
LEMMA IdAps ==
  ASSUME TypeInv, IdInv, NEW c \in APs, ApNext(c)
  PROVE  IdInv'
<1>0. c \in Contexts /\ APs \subseteq Contexts
  BY DEF APs, Contexts
<1>1. ApEffect(c)
  BY ApEffects DEF TypeInv
<1>2. \A d \in Contexts : ctx'[d].slot = ctx[d].slot /\ Last(d)' = Last(d)
  BY <1>1 DEF ApEffect, Last
<1>3. \A d \in APs : running'[d].id \in {running[d].id, Last(d)}
  BY <1>1 DEF ApEffect, Last
<1>4. UNCHANGED <<boot, back, req, served, target, reply>>
  BY <1>1 DEF ApEffect, BootKeeps
<1>5. served \in Nat /\ \A d \in Contexts : Last(d) \in Nat
  BY Fields, CallId DEF TypeInv, TypeOK, Last
<1>6. \A r \in Requests : r > served => job'[r] = job[r]
  <2>1. Last(c) <= served /\ running[c].id <= served
    BY <1>0 DEF IdInv
  <2>2. running[c].id \in Nat
    BY CallId DEF TypeInv, TypeOK
  <2> QED
    BY <1>0, <1>1, <1>5, <2>1, <2>2 DEF ApEffect, Requests
<1>7. NotYet => job'[served] = job[served]
  <2> SUFFICES ASSUME NotYet PROVE job'[served] = job[served]
    OBVIOUS
  <2>1. Last(c) # served /\ running[c].id # served
    BY <1>0 DEF IdInv
  <2>2. served \in Requests
    BY DEF TypeInv, Located, NotYet, StartPath, Sampling, Unlocking
  <2> QED
    BY <1>1, <2>1, <2>2 DEF ApEffect
<1>8. (NotYet' <=> NotYet) /\ (Filled' <=> Filled)
  BY <1>4 DEF NotYet, Filled
<1>9. Filled => target \in Contexts
  BY OnCore DEF TypeInv, Filled, Located, Unlocking, JobPath
<1>10. (\A d \in APs : running[d].id <= served)'
  BY <1>0, <1>3, <1>4 DEF IdInv
<1>11. (NotYet => /\ job[served] = "none"
                  /\ \A d \in Contexts : Last(d) # served
                  /\ \A d \in APs : running[d].id # served)'
  BY <1>0, <1>2, <1>3, <1>4, <1>7, <1>8 DEF IdInv
<1>12. (Filled => ctx[target].slot = [func |-> req.op, id |-> served])'
  BY <1>2, <1>4, <1>8, <1>9 DEF IdInv
<1> QED
  BY <1>2, <1>4, <1>6, <1>10, <1>11, <1>12 DEF IdInv

\* Most steps of core 0 leave jobs and answers alone and go on with the job
\* they were at.
SameJobs ==
  /\ UNCHANGED <<running, req, served, job, reply>>
  /\ \A c \in Contexts : ctx'[c].slot = ctx[c].slot
  /\ boot # "idle"
  /\ NotYet' => NotYet
  /\ Filled' => Filled /\ target' = target

\* Such a step does not disturb the invariant.
LEMMA SameJobsKeep ==
  ASSUME TypeInv, IdInv, SameJobs
  PROVE  IdInv'
<1>1. \A c \in Contexts : ctx'[c].slot = ctx[c].slot /\ Last(c)' = Last(c)
  BY DEF SameJobs, Last
<1>2. UNCHANGED <<running, req, served, job, reply>> /\ boot # "idle"
  BY DEF SameJobs
<1>3. (NotYet => /\ job[served] = "none"
                 /\ \A d \in Contexts : Last(d) # served
                 /\ \A d \in APs : running[d].id # served)'
  BY <1>1, <1>2 DEF SameJobs, IdInv
<1>4. Filled => target \in Contexts
  BY OnCore DEF TypeInv, Filled, Located, Unlocking, JobPath
<1>5. (Filled => ctx[target].slot = [func |-> req.op, id |-> served])'
  BY <1>1, <1>2, <1>4 DEF SameJobs, IdInv
<1> QED
  BY <1>1, <1>2, <1>3, <1>5 DEF IdInv


\* Core 0 hands out each request's job once, to a context whose slot it has
\* cleared.
LEMMA IdBoot ==
  ASSUME TypeInv, IdInv, BootNext
  PROVE  IdInv'
<1>0. /\ served \in Nat /\ (boot # "idle" => served \in Requests)
      /\ boot \in {"clear", "fill", "queue", "sync_accept", "sync_call"} =>
           target \in Contexts
      /\ OnJob => req.op \in {"code", "read_msr"}
      /\ \A c \in Contexts : /\ Last(c) \in Nat /\ Last(c) <= served
                             /\ ctx[c].slot.func = "null" => Last(c) = 0
      /\ \A c \in APs : running[c].id \in Nat /\ running[c].id <= served
  BY OnCore, Fields, CallId DEF TypeInv, TypeOK, Located, JobPath, Last, IdInv
<1>1. CASE SendError
  <2>1. UNCHANGED <<ctx, ap, job, served>> /\ ~NotYet' /\ ~Filled' /\ boot' = "idle"
        /\ \A r \in Requests : r # served => reply'[r] = reply[r]
    BY <1>0, <1>1 DEF TypeInv, TypeOK, SendError, Go, Answer, Return, NotYet, Filled,
       StartPath, Sampling, Unlocking
  <2> QED
    BY <1>0, <2>1 DEF IdInv, Last, Requests
<1>2. CASE BootUnlockStore
  <2>1. SameJobs
    BY <1>0, <1>2 DEF BootUnlockStore, Go, ApsKeep, unlock_store, SameJobs,
       NotYet, Filled, StartPath, Sampling, Unlocking, JobPath, OnJob
  <2> QED
    BY <2>1, SameJobsKeep
<1>3. CASE BootUnlockExchange
  <2>1. SameJobs
    BY <1>0, <1>3 DEF BootUnlockExchange, ApsKeep, unlock_exchange, SameJobs,
       NotYet, Filled, StartPath, Sampling, Unlocking, JobPath, OnJob, TypeInv,
       TypeOK
  <2> QED
    BY <2>1, SameJobsKeep
<1>4. CASE HandleStart
  <2>1. SameJobs
    BY <1>0, <1>4 DEF HandleStart, Go, ApsKeep, SameJobs, NotYet, Filled,
       StartPath, Sampling, Unlocking, JobPath, OnJob
  <2> QED
    BY <2>1, SameJobsKeep
<1>5. CASE StartNext
  <2>1. SameJobs
    BY <1>0, <1>5 DEF StartNext, StartLoopBody, Go, ApsKeep, SameJobs, NotYet,
       Filled, StartPath, Sampling, Unlocking, JobPath, OnJob, TypeInv, Located
  <2> QED
    BY <2>1, SameJobsKeep
<1>6. CASE StartCheck
  <2>1. SameJobs
    BY <1>0, <1>6 DEF StartCheck, Go, ApsKeep, present, SameJobs, NotYet,
       Filled, StartPath, Sampling, Unlocking, JobPath, OnJob
  <2> QED
    BY <2>1, SameJobsKeep
<1>7. CASE StartLock
  <2>1. SameJobs
    BY <1>0, <1>7 DEF StartLock, Go, ApsKeep, try_lock_context, SameJobs,
       NotYet, Filled, StartPath, Sampling, Unlocking, JobPath, OnJob
  <2> QED
    BY <2>1, SameJobsKeep
<1>8. CASE StartLockFails
  <2>1. SameJobs
    BY <1>0, <1>8 DEF StartLockFails, Go, ApsKeep, SameJobs, NotYet, Filled,
       StartPath, Sampling, Unlocking, JobPath, OnJob
  <2> QED
    BY <2>1, SameJobsKeep
<1>9. CASE StartTables
  <2>1. SameJobs
    BY <1>0, <1>9 DEF StartTables, Go, ApsKeep, SameJobs, NotYet, Filled,
       StartPath, Sampling, Unlocking, JobPath, OnJob, TypeInv, TypeOK
  <2> QED
    BY <2>1, SameJobsKeep
<1>10. CASE StartAp
  <2>1. SameJobs
    BY <1>0, <1>10 DEF StartAp, Go, SameJobs, NotYet, Filled, StartPath,
       Sampling, Unlocking, JobPath, OnJob, TypeInv, Located
  <2> QED
    BY <2>1, SameJobsKeep
<1>11. CASE StartApFails
  <2>1. SameJobs
    BY <1>0, <1>11 DEF StartApFails, UnlockThen, ApsKeep, SameJobs, NotYet,
       Filled, StartPath, Sampling, Unlocking, JobPath, OnJob
  <2> QED
    BY <2>1, SameJobsKeep
<1>12. CASE AcquireCheck
  <2>1. SameJobs
    BY <1>0, <1>12 DEF AcquireCheck, Go, ApsKeep, present, SameJobs, NotYet,
       Filled, StartPath, Sampling, Unlocking, JobPath, OnJob
  <2> QED
    BY <2>1, SameJobsKeep
<1>13. CASE AcquireLock
  <2>1. SameJobs
    BY <1>0, <1>13 DEF AcquireLock, Go, ApsKeep, try_lock_context, SameJobs,
       NotYet, Filled, StartPath, Sampling, Unlocking, JobPath, OnJob
  <2> QED
    BY <2>1, SameJobsKeep
<1>14. CASE AcquireLockFails
  <2>1. SameJobs
    BY <1>0, <1>14 DEF AcquireLockFails, Go, ApsKeep, SameJobs, NotYet, Filled,
       StartPath, Sampling, Unlocking, JobPath, OnJob
  <2> QED
    BY <2>1, SameJobsKeep
<1>15. CASE AcquireReady
  <2>1. SameJobs
    BY <1>0, <1>15 DEF AcquireReady, Go, UnlockThen, ApsKeep, SameJobs, NotYet,
       Filled, StartPath, Sampling, Unlocking, JobPath, OnJob
  <2> QED
    BY <2>1, SameJobsKeep
<1>16. CASE AcquireQueued
  <2>1. SameJobs
    BY <1>0, <1>16 DEF AcquireQueued, Go, UnlockThen, ApsKeep, SameJobs,
       NotYet, Filled, StartPath, Sampling, Unlocking, JobPath, OnJob
  <2> QED
    BY <2>1, SameJobsKeep
<1>17. CASE ClearJob
  <2>1. \A c \in Contexts : ctx'[c].slot = IF c = target THEN NullCall ELSE ctx[c].slot
    BY <1>0, <1>17 DEF TypeInv, TypeOK, ClearJob, Go
  <2>2. \A c \in Contexts : Last(c)' = IF c = target THEN 0 ELSE Last(c)
    BY <2>1 DEF Last, NullCall
  <2>3. NotYet /\ ~Filled' /\ boot # "idle" /\ boot' # "idle"
    BY <1>17 DEF ClearJob, Go, NotYet, Filled, Unlocking
  <2>4. UNCHANGED <<request, ap, job, reply>> /\ served # 0
    BY <1>0, <1>17 DEF ClearJob, Go, ApsKeep, Requests
  <2>5. \A c \in Contexts : ctx'[c].slot.func = "null" => Last(c)' = 0
    BY <1>0, <2>1, <2>2
  <2>6. \A c, d \in Contexts : Last(c)' = Last(d)' /\ Last(c)' # 0 => c = d
    BY <2>2 DEF IdInv
  <2> QED
    BY <1>0, <2>2, <2>3, <2>4, <2>5, <2>6 DEF IdInv
<1>18. CASE FillJob
  <2>1. \A c \in Contexts : ctx'[c].slot =
          IF c = target THEN [func |-> req.op, id |-> served] ELSE ctx[c].slot
    BY <1>0, <1>18 DEF TypeInv, TypeOK, FillJob, Go
  <2>2. \A c \in Contexts : Last(c)' = IF c = target THEN served ELSE Last(c)
    BY <2>1 DEF Last
  <2>3. NotYet /\ ~NotYet' /\ boot' # "idle"
    BY <1>18 DEF FillJob, Go, NotYet, StartPath, Sampling, Unlocking
  <2>4. req.op # "null"
    BY <1>0, <1>18 DEF FillJob, Go, OnJob, JobPath
  <2>5. target \in Contexts
    BY <1>0, <1>18 DEF FillJob, Go
  <2> QED
    BY <1>0, <1>18, <2>1, <2>2, <2>3, <2>4, <2>5 DEF FillJob, Go, ApsKeep, IdInv
<1>19. CASE QueueJob
  <2>1. /\ \A c \in Contexts : ctx'[c].slot = ctx[c].slot /\ Last(c)' = Last(c)
        /\ \A r \in Requests : r # served => job'[r] = job[r]
    BY <1>0, <1>19 DEF TypeInv, TypeOK, QueueJob, Go, UnlockThen, Last
  <2>2. Filled /\ ~NotYet' /\ boot # "idle"
    BY <1>0, <1>19 DEF QueueJob, Go, UnlockThen, NotYet, Filled, StartPath, Sampling, Unlocking
  <2>3. target \in Contexts /\ UNCHANGED <<request, ap, reply>>
    BY <1>0, <1>19 DEF QueueJob, Go, UnlockThen
  <2> QED
    BY <1>0, <2>1, <2>2, <2>3 DEF IdInv, Requests
<1>20. CASE SyncAccept
  <2>1. /\ \A c \in Contexts : ctx'[c].slot = ctx[c].slot /\ Last(c)' = Last(c)
        /\ \A r \in Requests : r # served => job'[r] = job[r]
    BY <1>0, <1>20 DEF TypeInv, TypeOK, SyncAccept, Go, Last
  <2>2. Filled /\ ~NotYet' /\ boot # "idle"
    BY <1>0, <1>20 DEF SyncAccept, Go, NotYet, Filled, StartPath, Sampling, Unlocking
  <2>3. target \in Contexts /\ UNCHANGED <<request, ap, reply>>
    BY <1>0, <1>20 DEF SyncAccept, Go
  <2> QED
    BY <1>0, <2>1, <2>2, <2>3 DEF IdInv, Requests
<1>21. CASE WaitLock
  <2>1. SameJobs
    BY <1>0, <1>21 DEF WaitLock, Go, ApsKeep, SameJobs, NotYet, Filled,
       StartPath, Sampling, Unlocking, JobPath, OnJob
  <2> QED
    BY <2>1, SameJobsKeep
<1>22. CASE WaitTry
  <2>1. SameJobs
    BY <1>0, <1>22 DEF WaitTry, Go, ApsKeep, try_lock_context, SameJobs,
       NotYet, Filled, StartPath, Sampling, Unlocking, JobPath, OnJob
  <2> QED
    BY <2>1, SameJobsKeep
<1>23. CASE WaitTryFails
  <2>1. SameJobs
    BY <1>0, <1>23 DEF WaitTryFails, Go, ApsKeep, SameJobs, NotYet, Filled,
       StartPath, Sampling, Unlocking, JobPath, OnJob
  <2> QED
    BY <2>1, SameJobsKeep
<1>24. CASE WaitReady
  <2>1. SameJobs
    BY <1>0, <1>24 DEF WaitReady, Go, UnlockThen, ApsKeep, SameJobs, NotYet,
       Filled, StartPath, Sampling, Unlocking, JobPath, OnJob
  <2> QED
    BY <2>1, SameJobsKeep
<1>25. CASE WaitQueued
  <2>1. SameJobs
    BY <1>0, <1>25 DEF WaitQueued, UnlockThen, ApsKeep, SameJobs, NotYet,
       Filled, StartPath, Sampling, Unlocking, JobPath, OnJob
  <2> QED
    BY <2>1, SameJobsKeep
<1>26. CASE WaitTick
  <2>1. SameJobs
    BY <1>0, <1>26 DEF WaitTick, Go, ApsKeep, SameJobs, NotYet, Filled,
       StartPath, Sampling, Unlocking, JobPath, OnJob
  <2> QED
    BY <2>1, SameJobsKeep
<1>27. CASE Waited
  <2>1. SameJobs
    BY <1>0, <1>27 DEF Waited, Go, ApsKeep, SameJobs, NotYet, Filled,
       StartPath, Sampling, Unlocking, JobPath, OnJob
  <2> QED
    BY <2>1, SameJobsKeep
<1>28. CASE HandleStatus
  <2>1. SameJobs
    BY <1>0, <1>28 DEF HandleStatus, Go, ApsKeep, SameJobs, NotYet, Filled,
       StartPath, Sampling, Unlocking, JobPath, OnJob, TypeInv, Located
  <2> QED
    BY <2>1, SameJobsKeep
<1>29. CASE SampleReady
  <2>1. SameJobs
    BY <1>0, <1>29 DEF SampleReady, Go, ApsKeep, SameJobs, NotYet, Filled,
       StartPath, Sampling, Unlocking, JobPath, OnJob
  <2> QED
    BY <2>1, SameJobsKeep
<1>30. CASE SampleQueued
  <2>1. SameJobs
    BY <1>0, <1>30 DEF SampleQueued, Go, ApsKeep, SameJobs, NotYet, Filled,
       StartPath, Sampling, Unlocking, JobPath, OnJob
  <2> QED
    BY <2>1, SameJobsKeep
<1>31. CASE SampleLock
  <2>1. SameJobs
    BY <1>0, <1>31 DEF SampleLock, Go, ApsKeep, SameJobs, NotYet, Filled,
       StartPath, Sampling, Unlocking, JobPath, OnJob
  <2> QED
    BY <2>1, SameJobsKeep
<1>32. CASE SampleFault
  <2>1. SameJobs
    BY <1>0, <1>32 DEF SampleFault, Go, ApsKeep, SameJobs, NotYet, Filled,
       StartPath, Sampling, Unlocking, JobPath, OnJob, TypeInv, Located
  <2> QED
    BY <2>1, SameJobsKeep
<1>33. CASE Respond
  <2>1. UNCHANGED <<ctx, ap, job, served>> /\ ~NotYet' /\ ~Filled' /\ boot' = "idle"
        /\ \A r \in Requests : r # served => reply'[r] = reply[r]
    BY <1>0, <1>33 DEF TypeInv, TypeOK, Respond, Go, Answer, Return, NotYet, Filled,
       StartPath, Sampling, Unlocking
  <2> QED
    BY <1>0, <2>1 DEF IdInv, Last, Requests
<1>34. CASE Receive
  <2>1. UNCHANGED <<ctx, ap, job, reply>> /\ served' = served + 1 /\ ~Filled'
        /\ served' \in Requests
    BY <1>0, <1>34 DEF Receive, Go, ApsKeep, Filled, Requests, Unlocking
  <2>2. job[served'] = "none" /\ reply[served'].kind = "none"
    BY <1>0, <2>1 DEF IdInv
  <2> QED
    BY <1>0, <2>1, <2>2 DEF IdInv, Last, Requests
<1>35. CASE SyncReturns
  <2>1. /\ \A c \in Contexts : ctx'[c].slot = ctx[c].slot /\ Last(c)' = Last(c)
        /\ \A r \in Requests : r # served => job'[r] = job[r]
    BY <1>0, <1>35 DEF TypeInv, TypeOK, SyncReturns, UnlockThen, Last
  <2>2. Filled /\ ~NotYet' /\ boot # "idle"
    BY <1>0, <1>35 DEF SyncReturns, UnlockThen, NotYet, Filled, StartPath, Sampling, Unlocking
  <2>3. target \in Contexts /\ UNCHANGED <<request, ap, reply>>
    BY <1>0, <1>35 DEF SyncReturns, UnlockThen
  <2> QED
    BY <1>0, <2>1, <2>2, <2>3 DEF IdInv, Requests
<1> QED
  BY <1>1, <1>2, <1>3, <1>4, <1>5, <1>6, <1>7, <1>8, <1>9, <1>10, <1>11, <1>12,
     <1>13, <1>14, <1>15, <1>16, <1>17, <1>18, <1>19, <1>20, <1>21, <1>22,
     <1>23, <1>24, <1>25, <1>26, <1>27, <1>28, <1>29, <1>30, <1>31, <1>32,
     <1>33, <1>34, <1>35 DEF BootNext, BootMoves

\* The invariant is inductive relative to the type invariant.
LEMMA IdStep == TypeInv /\ IdInv /\ [Next]_vars => IdInv'
<1> SUFFICES ASSUME TypeInv, IdInv, [Next]_vars PROVE IdInv'
  OBVIOUS
<1>1. CASE BootNext
  BY <1>1, IdBoot
<1>2. ASSUME NEW c \in APs, ApNext(c) PROVE IdInv'
  BY <1>2, IdAps
<1>3. CASE UNCHANGED vars
  BY <1>3 DEF vars, IdInv, Last, NotYet, Filled
<1> QED
  BY <1>1, <1>2, <1>3 DEF Next

-----------------------------------------------------------------------------
(* What an AP does to jobs. *)

\* A job that waits or runs moves on; one that is over, or not there yet, does
\* not.  Only a running job raises a fault.
Advance(c) ==
  /\ \A r \in Requests \ {Last(c)} :
       job'[r] = job[r] /\ (r \in tripped' <=> r \in tripped)
  /\ \A r \in Requests :
       /\ job'[r] # job[r] =>
            \/ job[r] = "queued" /\ job'[r] = "running"
            \/ job[r] = "running" /\ job'[r] \in Finished
       /\ r \in tripped' /\ r \notin tripped => job[r] = "running"
       /\ r \in tripped => r \in tripped'
       /\ job'[r] = "aborted" => job[r] = "aborted" \/ r \in tripped'

\* Every step of an AP moves at most the job in its slot.
LEMMA ApAdvances ==
  ASSUME TypeInv, IdInv, ContextInv, NEW c \in APs, ApNext(c)
  PROVE  Advance(c)
<1>0. /\ c \in Contexts /\ Stages(c) /\ Places(c)
      /\ ctx[c].slot.func = "null" => Last(c) = 0
  BY DEF APs, Contexts, ContextInv, IdInv
<1>1. pc[c] = "exec" => /\ running[c].id = Last(c) /\ Last(c) \in Requests
                        /\ job[Last(c)] = "running"
  BY <1>0 DEF Stages, Places, JobIs, Runs, Last, TypeInv, SlotsOwned
<1>2. pc[c] = "call" => /\ ctx[c].slot.func # "null" /\ Last(c) \in Requests
                        /\ job[Last(c)] = "queued"
  <2>1. pc[c] = "call" => Last(c) # 0 /\ job[Last(c)] = "queued"
    BY <1>0 DEF Stages, JobIs, Taken
  <2> QED
    BY <1>0, <2>1 DEF TypeInv, SlotsOwned, Last
<1> USE DEF Advance, Finished
<1>3. CASE LoopSetStarted(c)
  BY <1>3 DEF LoopSetStarted, Step, BootKeeps
<1>4. CASE LoopSetReady(c)
  BY <1>4 DEF LoopSetReady, Step, BootKeeps
<1>5. CASE LoopClearQueued(c)
  BY <1>5 DEF LoopClearQueued, Step, BootKeeps
<1>6. CASE ApUnlockStore(c)
  BY <1>6 DEF ApUnlockStore, Step, BootKeeps, unlock_store
<1>7. CASE ApUnlockExchange(c)
  BY <1>7 DEF ApUnlockExchange, Step, BootKeeps, unlock_exchange
<1>8. CASE SpinFree(c)
  BY <1>8 DEF SpinFree, Step, BootKeeps
<1>9. CASE CheckQueued(c)
  BY <1>9 DEF CheckQueued, Step, BootKeeps
<1>10. CASE TryLock(c)
  BY <1>10 DEF TryLock, Step, BootKeeps, try_lock_context
<1>11. CASE TryLockFails(c)
  BY <1>11 DEF TryLockFails, Step, BootKeeps
<1>12. CASE Recheck(c)
  BY <1>12 DEF Recheck, Step, BootKeeps
<1>13. CASE AcceptJob(c)
  BY <1>13 DEF AcceptJob, Step, BootKeeps
<1>14. CASE DequeueJob(c)
  BY <1>14 DEF DequeueJob, Step, BootKeeps
<1>15. CASE ZeroFault(c)
  BY <1>15 DEF ZeroFault, Step, BootKeeps
<1>16. CASE CallFunctions(c)
  BY <1>2, <1>16 DEF CallFunctions, Step, BootKeeps, TypeInv, TypeOK, Last
<1>17. CASE FinishJob(c)
  BY <1>17 DEF FinishJob, Step, BootKeeps
<1>18. CASE JobWrites(c)
  BY <1>1, <1>18 DEF JobWrites, Step, BootKeeps, TypeInv, TypeOK
<1>19. CASE JobProtectionFault(c)
  BY <1>1, <1>19 DEF JobProtectionFault, Step, BootKeeps, NoteFault, TypeInv,
     TypeOK
<1>20. CASE JobFault(c)
  BY <1>1, <1>20 DEF JobFault, Step, BootKeeps, NoteFault, TypeInv, TypeOK
<1>21. CASE JobDoubleFault(c)
  BY <1>1, <1>21 DEF JobDoubleFault, Step, BootKeeps, NoteFault, TypeInv,
     TypeOK
<1>22. CASE JobHangs(c)
  BY <1>1, <1>22 DEF JobHangs, Step, BootKeeps, TypeInv, TypeOK
<1>23. CASE JobReturns(c)
  BY <1>1, <1>23 DEF JobReturns, Step, BootKeeps, TypeInv, TypeOK
<1> QED
  BY <1>3, <1>4, <1>5, <1>6, <1>7, <1>8, <1>9, <1>10, <1>11, <1>12, <1>13,
     <1>14, <1>15, <1>16, <1>17, <1>18, <1>19, <1>20, <1>21, <1>22, <1>23 DEF
     ApNext, ApMoves, JobStep

\* What holds of the context of an AP still holds after its own step.
LEMMA ApOwnContext ==
  ASSUME TypeInv, IdInv, ContextInv, HistoryInv, NEW c \in APs, ApNext(c)
  PROVE  Stages(c)' /\ Outputs(c)' /\ Places(c)'
<1>0. /\ c \in Contexts /\ c # 0 /\ Stages(c) /\ Places(c) /\ Outputs(c)
      /\ ctx[c].slot.func = "null" => Last(c) = 0
  BY DEF APs, Contexts, ContextInv, IdInv
<1>1. pc[c] = "exec" => /\ running[c] = ctx[c].slot /\ running[c].id = Last(c)
                        /\ Last(c) \in Requests /\ Last(c) # 0
                        /\ job[Last(c)] = "running"
  BY <1>0 DEF Stages, Places, JobIs, Runs, Last, TypeInv, SlotsOwned
<1>2. pc[c] = "call" => /\ ctx[c].slot.func # "null" /\ Last(c) \in Requests
                        /\ job[Last(c)] = "queued" /\ Last(c) # 0
                        /\ Last(c) \notin tripped
  <2>1. pc[c] = "call" => Last(c) # 0 /\ job[Last(c)] = "queued"
    BY <1>0 DEF Stages, JobIs, Taken
  <2> QED
    BY <1>0, <2>1 DEF TypeInv, SlotsOwned, Last, HistoryInv
<1>3. ctx[c] \in Context /\ (ctx[c].job_queued = 0 \/ ctx[c].job_queued = 1)
      /\ Last(c) \in 0 .. MaxRequests
  BY <1>0, Fields, CallId DEF TypeInv, TypeOK, Last
<1> USE DEF Stages, Outputs, Places, JobIs, Over, Taken, Runs, Last, TypeInv,
   TypeOK
<1>4. CASE LoopSetStarted(c)
  BY <1>0, <1>1, <1>2, <1>3, <1>4 DEF LoopSetStarted, Step, BootKeeps
<1>5. CASE LoopSetReady(c)
  BY <1>0, <1>1, <1>2, <1>3, <1>5 DEF LoopSetReady, Step, BootKeeps
<1>6. CASE LoopClearQueued(c)
  BY <1>0, <1>1, <1>2, <1>3, <1>6 DEF LoopClearQueued, Step, BootKeeps
<1>7. CASE ApUnlockStore(c)
  BY <1>0, <1>1, <1>2, <1>3, <1>7 DEF ApUnlockStore, Step, BootKeeps,
     unlock_store
<1>8. CASE ApUnlockExchange(c)
  BY <1>0, <1>1, <1>2, <1>3, <1>8 DEF ApUnlockExchange, Step, BootKeeps,
     unlock_exchange
<1>9. CASE SpinFree(c)
  BY <1>0, <1>1, <1>2, <1>3, <1>9 DEF SpinFree, Step, BootKeeps
<1>10. CASE CheckQueued(c)
  BY <1>0, <1>1, <1>2, <1>3, <1>10 DEF CheckQueued, Step, BootKeeps
<1>11. CASE TryLock(c)
  BY <1>0, <1>1, <1>2, <1>3, <1>11 DEF TryLock, Step, BootKeeps,
     try_lock_context
<1>12. CASE TryLockFails(c)
  BY <1>0, <1>1, <1>2, <1>3, <1>12 DEF TryLockFails, Step, BootKeeps
<1>13. CASE Recheck(c)
  BY <1>0, <1>1, <1>2, <1>3, <1>13 DEF Recheck, Step, BootKeeps
<1>14. CASE AcceptJob(c)
  BY <1>0, <1>1, <1>2, <1>3, <1>14 DEF AcceptJob, Step, BootKeeps
<1>15. CASE DequeueJob(c)
  BY <1>0, <1>1, <1>2, <1>3, <1>15 DEF DequeueJob, Step, BootKeeps
<1>16. CASE ZeroFault(c)
  BY <1>0, <1>1, <1>2, <1>3, <1>16 DEF ZeroFault, Step, BootKeeps
<1>17. CASE CallFunctions(c)
  BY <1>0, <1>1, <1>2, <1>3, <1>17 DEF CallFunctions, Step, BootKeeps
<1>18. CASE FinishJob(c)
  BY <1>0, <1>1, <1>2, <1>3, <1>18 DEF FinishJob, Step, BootKeeps
<1>19. CASE JobWrites(c)
  BY <1>0, <1>1, <1>2, <1>3, <1>19 DEF JobWrites, Step, BootKeeps
<1>20. CASE JobProtectionFault(c)
  BY <1>0, <1>1, <1>2, <1>3, <1>20 DEF JobProtectionFault, Step, BootKeeps,
     NoteFault
<1>21. CASE JobFault(c)
  BY <1>0, <1>1, <1>2, <1>3, <1>21 DEF JobFault, Step, BootKeeps, NoteFault
<1>22. CASE JobDoubleFault(c)
  BY <1>0, <1>1, <1>2, <1>3, <1>22 DEF JobDoubleFault, Step, BootKeeps,
     NoteFault
<1>23. CASE JobHangs(c)
  BY <1>0, <1>1, <1>2, <1>3, <1>23 DEF JobHangs, Step, BootKeeps
<1>24. CASE JobReturns(c)
  BY <1>0, <1>1, <1>2, <1>3, <1>24 DEF JobReturns, Step, BootKeeps
<1> QED
  BY <1>4, <1>5, <1>6, <1>7, <1>8, <1>9, <1>10, <1>11, <1>12, <1>13, <1>14,
     <1>15, <1>16, <1>17, <1>18, <1>19, <1>20, <1>21, <1>22, <1>23, <1>24 DEF
     ApNext, ApMoves, JobStep

\* The other contexts do not notice.
LEMMA ApOtherContexts ==
  ASSUME TypeInv, IdInv, ContextInv, NEW c \in APs, ApEffect(c), Advance(c),
         NEW d \in Contexts \ {c}
  PROVE  /\ Stages(d)' /\ Outputs(d)'
         /\ d \in APs => Places(d)'
<1>0. /\ c \in Contexts /\ d \in Contexts /\ d # c
      /\ Stages(d) /\ Outputs(d) /\ (d \in APs => Places(d))
  BY DEF APs, Contexts, ContextInv
<1>1. ctx'[d] = ctx[d] /\ Last(d)' = Last(d) /\ UNCHANGED <<boot, target>>
  BY <1>0 DEF ApEffect, BootKeeps, Last
<1>2. d \in APs => pc'[d] = pc[d] /\ running'[d] = running[d]
  BY <1>0 DEF ApEffect
<1>3. Last(d) # 0 => /\ job'[Last(d)] = job[Last(d)]
                     /\ Last(d) \in tripped' <=> Last(d) \in tripped
  <2>1. Last(d) # 0 => Last(d) # Last(c)
    BY <1>0 DEF IdInv
  <2>2. Last(d) # 0 => Last(d) \in Requests
    BY <1>0, Fields, CallId DEF TypeInv, Last
  <2> QED
    BY <2>1, <2>2 DEF Advance
<1>4. \A stage : JobIs(d, stage)' <=> JobIs(d, stage)
  BY <1>1, <1>3 DEF JobIs
<1>5. (Taken(d)' <=> Taken(d)) /\ (Runs(d)' <=> Runs(d))
  BY <1>1, <1>2 DEF Taken, Runs
<1>6. Over(d)' <=> Over(d)
  BY <1>4 DEF Over
<1>7. Stages(d)'
  BY <1>0, <1>1, <1>4, <1>5 DEF Stages
<1>8. Outputs(d)'
  <2>1. JobIs(d, "running") \/ Over(d) => Last(d) # 0
    BY DEF JobIs, Over
  <2> QED
    BY <1>0, <1>1, <1>3, <1>4, <1>6, <2>1 DEF Outputs
<1>9. d \in APs => Places(d)'
  BY <1>0, <1>1, <1>2 DEF Places
<1> QED
  BY <1>7, <1>8, <1>9

\* Nor does core 0: what it knows of its job stays so.
LEMMA ApBootInv ==
  ASSUME TypeInv, IdInv, ContextInv, BootInv, NEW c \in APs, ApNext(c),
         ApEffect(c), Advance(c)
  PROVE  BootInv'
<1>1. UNCHANGED <<boot, back, req, served, target, late, sample>>
  BY DEF ApEffect, BootKeeps
<1>2. boot # "idle" => served \in Requests
  BY DEF TypeInv, Located
<1>3. boot # "idle" /\ job[served] \in {"none"} \cup Finished =>
        /\ job'[served] = job[served]
        /\ served \in tripped' <=> served \in tripped
  BY <1>2 DEF Advance, Finished
<1>4. Completed' <=> Completed
  BY <1>1 DEF Completed
<1>5. \A d \in Contexts : ctx'[d].slot = ctx[d].slot
  BY DEF ApEffect
<1>6. \A d \in Contexts : ctx[d].job_queued = 0 => ctx'[d].job_queued = 0
  BY DEF ApEffect
<1>7. boot \in {"clear", "fill", "queue", "sync_accept"} => target \in Contexts
  BY OnCore DEF TypeInv, JobPath
<1>8. boot = "fill" => ctx'[target].result = ctx[target].result
  <2> SUFFICES ASSUME boot = "fill" PROVE ctx'[target].result = ctx[target].result
    OBVIOUS
  <2>1. target \in Contexts
    BY <1>7
  <2>2. CASE target # c
    BY <2>1, <2>2 DEF ApEffect
  <2>3. CASE target = c
    <3>1. Last(c) = 0
      BY <2>3 DEF BootInv, PrepareInv, Last, NullCall
    <3>2. pc[c] # "exec"
      BY <2>1, <2>3, <3>1 DEF ContextInv, Stages, Runs, JobIs
    <3> QED
      BY <2>1, <2>3, <3>2 DEF TypeInv, TypeOK, Context, ApNext, ApMoves, JobStep,
         LoopSetStarted, LoopSetReady, LoopClearQueued, ApUnlockStore,
         ApUnlockExchange, SpinFree, CheckQueued, TryLock, TryLockFails, Recheck,
         AcceptJob, DequeueJob, ZeroFault, CallFunctions, FinishJob, JobWrites,
         JobProtectionFault, JobFault, JobDoubleFault, JobHangs, JobReturns, Step
  <2> QED
    BY <2>2, <2>3
<1>9. boot = "sync_accept" => ctx'[target].job_queued = ctx[target].job_queued
  <2>1. boot = "sync_accept" => target # c
    BY DEF BootInv, PrepareInv, APs, Contexts
  <2> QED
    BY <1>7, <2>1 DEF ApEffect
<1>10. Completed => boot # "idle"
  BY DEF Completed, Unlocking
<1>11. PrepareInv'
  <2>1. PrepareInv
    BY DEF BootInv
  <2>2. (boot = "queue" => job[served] = "none")'
    BY <1>1, <1>3, <2>1 DEF PrepareInv
  <2>3. (boot \in {"clear", "fill", "queue"} => ctx[target].job_queued = 0)'
    BY <1>1, <1>6, <1>7, <2>1 DEF PrepareInv
  <2>4. (boot = "fill" => /\ ctx[target].slot = NullCall
                          /\ req.op = "code" => ctx[target].result = 0)'
    BY <1>1, <1>5, <1>7, <1>8, <2>1 DEF PrepareInv
  <2>5. (boot = "sync_accept" => target = 0 /\ ctx[target].job_queued = 1)'
    BY <1>1, <1>9, <2>1 DEF PrepareInv
  <2> QED
    BY <1>1, <2>1, <2>2, <2>3, <2>4, <2>5 DEF PrepareInv
<1>12. WaitInv'
  BY <1>1, <1>3, <1>4, <1>10 DEF BootInv, WaitInv, Completed, Finished
<1> QED
  BY <1>11, <1>12 DEF BootInv

\* What a sample has shown stays true.
LEMMA ApSampleInv ==
  ASSUME TypeInv, IdInv, SampleInv, NEW c \in APs, ApEffect(c), Advance(c)
  PROVE  SampleInv'
<1>1. UNCHANGED <<boot, req, target, sample>>
  BY DEF ApEffect, BootKeeps
<1>2. boot \in Sampling => target \in Contexts
  BY DEF TypeInv, Located
<1>3. \A d \in Contexts : Last(d)' = Last(d) /\ (Over(d) => Over(d)')
  <2> SUFFICES ASSUME NEW d \in Contexts
               PROVE  Last(d)' = Last(d) /\ (Over(d) => Over(d)')
    OBVIOUS
  <2>1. Last(d)' = Last(d)
    BY DEF ApEffect, Last
  <2>2. Last(d) \in Requests \/ Last(d) = 0
    BY Fields, CallId DEF TypeInv, Last
  <2> QED
    BY <2>1, <2>2 DEF Advance, Over, JobIs
<1>4. boot = "sample_lock" /\ ctx[target].job_queued = 0 => ctx'[target].job_queued = 0
  BY <1>2 DEF ApEffect, Sampling
<1> QED
  BY <1>1, <1>2, <1>3, <1>4 DEF SampleInv, Sampling

\* Answers stay true: only jobs that wait or run are touched.
LEMMA ApHistoryInv ==
  ASSUME TypeInv', HistoryInv, NEW c \in APs, ApEffect(c), Advance(c)
  PROVE  HistoryInv'
<1>1. reply' = reply /\ \A d \in Contexts : Last(d)' = Last(d)
  BY DEF ApEffect, Last
<1>2. \A r \in Requests : job'[r] \in {"queued", "running"} => job[r] \in {"queued", "running"}
  BY DEF Advance, Finished
<1>3. \A r \in Requests : job[r] \in {"none"} \cup Finished =>
        job'[r] = job[r] /\ (r \in tripped' <=> r \in tripped)
  BY DEF Advance, Finished
<1>4. \A r \in Requests : r \in tripped' =>
        job[r] \notin {"none", "queued"} /\ job'[r] \notin {"none", "queued"}
  BY DEF Advance, HistoryInv, Finished
<1>5. \A r \in Requests : job'[r] # "none" => job[r] # "none"
  BY <1>3
<1>6. tripped' \subseteq Requests
  BY DEF TypeInv, TypeOK
<1>7. \A r \in Requests : job'[r] = "aborted" => r \in tripped'
  BY DEF Advance, HistoryInv
<1> QED
  BY <1>1, <1>2, <1>3, <1>4, <1>5, <1>6, <1>7 DEF HistoryInv

-----------------------------------------------------------------------------
(* What core 0 does to contexts. *)

\* While core 0 holds the lock of its target, no AP takes or runs the job.
LEMMA Quiescent ==
  ASSUME TypeInv, LockInv, Undisturbed, boot \in BootHolding, boot # "sync_call"
  PROVE  /\ target \in Contexts /\ ~Taken(target) /\ ~Runs(target)
         /\ target \in APs =>
              pc[target] \in {"off", "spin", "check", "try", "unlock_exchange"}
<1>1. target \in Contexts
  BY OnCore DEF TypeInv, BootHolding, JobPath, Unlocking
<1>2. ~ApOwns(target)
  BY <1>1 DEF LockInv, MutualExclusion, BootOwns
<1>3. target \in APs =>
        pc[target] \in {"off", "spin", "check", "try", "unlock_exchange"}
  BY <1>1, <1>2 DEF ApOwns, TypeInv, TypeOK
<1> QED
  BY <1>1, <1>3 DEF Taken, Runs

\* Then a job that is neither queued nor just being written is over.
LEMMA NothingLeft ==
  ASSUME TypeInv, NEW c \in Contexts, Stages(c), ctx[c].job_queued = 0,
         ~Taken(c), ~Runs(c), ~(boot = "queue" /\ target = c)
  PROVE  Last(c) = 0 \/ Over(c)
<1>1. Last(c) # 0 => job[Last(c)] \in {"none", "queued", "running", "done", "aborted"}
  BY Fields, CallId DEF TypeInv, TypeOK, Last, Finished
<1> QED
  BY <1>1 DEF Stages, Over, JobIs

\* Steps of core 0 that touch no context and no job leave what contexts say
\* alone.
LEMMA ContextsKeep ==
  ASSUME TypeInv, ContextInv, UNCHANGED <<ctx, ap, job, tripped>>,
         boot \notin {"queue", "sync_call"}, boot' # "sync_call"
  PROVE  ContextInv'
<1>1. ASSUME NEW c \in Contexts PROVE Stages(c)' /\ Outputs(c)'
  <2>1. Stages(c) /\ Outputs(c) /\ Last(c)' = Last(c) /\ Over(c)' = Over(c)
        /\ Taken(c)' = Taken(c) /\ Runs(c)' = Runs(c)
    BY DEF ContextInv, Last, Over, JobIs, Taken, Runs
  <2>2. \A stage : JobIs(c, stage)' = JobIs(c, stage)
    BY DEF JobIs, Last
  <2> QED
    BY <2>1, <2>2 DEF Stages, Outputs
<1>2. ASSUME NEW c \in APs PROVE Places(c)'
  BY DEF ContextInv, Places
<1> QED
  BY <1>1, <1>2 DEF ContextInv

\* Steps that write to the context of the target leave the others alone.
LEMMA OthersKeep ==
  ASSUME TypeInv, ContextInv, NEW d \in Contexts, d # target,
         ctx'[d] = ctx[d], tripped' = tripped,
         d \in APs => pc'[d] = pc[d] /\ running'[d] = running[d],
         Last(d) # 0 => job'[Last(d)] = job[Last(d)],
         boot = "sync_call" \/ boot' = "sync_call" => target = 0
  PROVE  /\ Stages(d)' /\ Outputs(d)'
         /\ d \in APs => Places(d)'
<1>1. Stages(d) /\ Outputs(d) /\ (d \in APs => Places(d))
  BY DEF ContextInv
<1>2. Last(d)' = Last(d) /\ (Taken(d)' <=> Taken(d)) /\ (Runs(d)' <=> Runs(d))
  BY DEF Last, Taken, Runs
<1>3. \A stage : JobIs(d, stage)' <=> JobIs(d, stage)
  BY <1>2 DEF JobIs
<1>4. Over(d)' <=> Over(d)
  BY <1>3 DEF Over
<1>5. Stages(d)'
  BY <1>1, <1>2, <1>3 DEF Stages
<1>6. Outputs(d)'
  BY <1>1, <1>2, <1>3, <1>4 DEF Outputs
<1>7. d \in APs => Places(d)'
  BY <1>1 DEF Places
<1> QED
  BY <1>5, <1>6, <1>7

\* Core 0 starts an AP whose context has no job.
LEMMA StartContexts ==
  ASSUME TypeInv, StartInv, LockInv, IdInv, JobInv, Undisturbed,
         StartTables \/ StartAp
  PROVE  ContextInv'
<1>1. boot \in {"start_tables", "start_ap"} /\ boot' \notin {"sync_call", "queue"}
  BY DEF StartTables, StartAp, Go
<1>2. PICK t \in Contexts : t = target
  BY <1>1, Quiescent DEF BootHolding
<1>3. /\ t # 0 /\ ~Taken(t) /\ ~Runs(t)
      /\ t \in APs => pc[t] \in {"off", "spin", "check", "try", "unlock_exchange"}
  BY <1>1, <1>2, Quiescent DEF BootHolding, TypeInv, Located, StartPath
<1>4. ctx[t].slot = NullCall /\ Last(t) = 0
  BY <1>1, <1>2 DEF StartInv, Last, NullCall
<1>5. /\ UNCHANGED <<running, job, tripped>>
      /\ \A d \in Contexts : /\ ctx'[d].slot = ctx[d].slot
                             /\ ctx'[d].job_queued = ctx[d].job_queued
                             /\ d # t => ctx'[d] = ctx[d]
      /\ \A d \in APs : \/ pc'[d] = pc[d]
                        \/ d = t /\ pc[d] = "off" /\ pc'[d] = "init"
  <2>1. CASE StartTables
    BY <1>2, <2>1 DEF StartTables, TypeInv, TypeOK, Context, Go, ApsKeep
  <2>2. CASE StartAp
    BY <1>2, <2>2 DEF StartAp, TypeInv, TypeOK, Go
  <2> QED
    BY <2>1, <2>2
<1>6. ASSUME NEW d \in Contexts, d # t
      PROVE  Stages(d)' /\ Outputs(d)' /\ (d \in APs => Places(d)')
  BY <1>1, <1>2, <1>5, <1>6, OthersKeep DEF JobInv
<1>7. Last(t)' = 0 /\ ctx'[t].slot = NullCall
  BY <1>4, <1>5 DEF Last
<1>8. \A stage : ~JobIs(t, stage) /\ ~JobIs(t, stage)'
  BY <1>4, <1>7 DEF JobIs
<1>9. ctx[t].job_queued # 1 /\ ctx'[t].job_queued # 1
  BY <1>5, <1>8 DEF JobInv, ContextInv, Stages
<1>10. ~Taken(t)' /\ ~Runs(t)'
  BY <1>1, <1>3, <1>5 DEF Taken, Runs
<1>11. Stages(t)'
  BY <1>8, <1>9, <1>10 DEF Stages
<1>12. Outputs(t)'
  BY <1>3, <1>7, <1>8 DEF Outputs, Over, NullCall
<1>13. t \in APs => Places(t)'
  <2>1. ctx'[t].job_queued = 0
    BY <1>5, <1>9, Fields DEF TypeInv
  <2> QED
    BY <1>3, <1>5, <2>1 DEF Places
<1> QED
  BY <1>6, <1>11, <1>12, <1>13 DEF ContextInv, APs

\* Core 0 writes a job into a context of a started core without one.
LEMMA WriteContexts ==
  ASSUME TypeInv, StartInv, LockInv, IdInv, JobInv, Undisturbed,
         ClearJob \/ FillJob \/ QueueJob
  PROVE  ContextInv'
<1>1. boot \in {"clear", "fill", "queue"} /\ boot' # "sync_call"
  BY DEF ClearJob, FillJob, QueueJob, Go, UnlockThen
<1>2. PICK t \in Contexts : t = target
  BY <1>1, Quiescent DEF BootHolding
<1>3. /\ ~Taken(t) /\ ~Runs(t)
      /\ t \in APs => pc[t] \in {"spin", "check", "try", "unlock_exchange"}
  BY <1>1, <1>2, Quiescent DEF BootHolding, StartInv
<1>4. /\ UNCHANGED <<running, pc, tripped, target, served>>
      /\ \A d \in Contexts \ {t} : ctx'[d] = ctx[d]
      /\ \A r \in Requests \ {served} : job'[r] = job[r]
  <2>1. CASE ClearJob
    BY <1>2, <2>1 DEF ClearJob, TypeInv, TypeOK, Go, ApsKeep
  <2>2. CASE FillJob
    BY <1>2, <2>2 DEF FillJob, TypeInv, TypeOK, Go, ApsKeep
  <2>3. CASE QueueJob
    BY <1>2, <2>3 DEF QueueJob, TypeInv, TypeOK
  <2> QED
    BY <2>1, <2>2, <2>3
<1>5. /\ served \in Requests /\ served # 0
      /\ req.op \in {"code", "read_msr"}
      /\ boot \in {"clear", "fill"} =>
           job[served] = "none" /\ \A d \in Contexts : Last(d) # served
      /\ boot = "queue" => /\ job[served] = "none"
                           /\ ctx[t].slot = [func |-> req.op, id |-> served]
      /\ ctx[t].job_queued = 0
  BY <1>1, <1>2 DEF TypeInv, Located, OnJob, JobPath, IdInv, NotYet, Filled,
     JobInv, BootInv, PrepareInv, Requests
<1>6. ASSUME NEW d \in Contexts, d # t
      PROVE  Stages(d)' /\ Outputs(d)' /\ (d \in APs => Places(d)')
  <2>1. ctx'[d] = ctx[d]
    BY <1>4, <1>6
  <2>2. Last(d) # 0 => job'[Last(d)] = job[Last(d)]
    <3>1. Last(d) # 0 => Last(d) \in Requests
      BY Fields, CallId DEF TypeInv, Last
    <3>2. boot = "queue" => Last(t) = served
      BY <1>5 DEF Last
    <3>3. Last(d) # served
      BY <1>1, <1>5, <1>6, <3>2 DEF IdInv
    <3> QED
      BY <1>4, <3>1, <3>3
  <2> QED
    BY <1>1, <1>2, <1>4, <1>6, <2>1, <2>2, OthersKeep DEF JobInv
<1>7. ~Taken(t)' /\ ~Runs(t)'
  BY <1>1, <1>3, <1>4 DEF Taken, Runs
<1>8. t \in APs => Places(t)'
  BY <1>3, <1>4 DEF Places
<1>9. t = 0 => ctx[t].fault_info = "null"
  BY DEF JobInv, ContextInv, Outputs
<1>10. CASE ClearJob
  <2>1. /\ ctx'[t].slot = NullCall /\ ctx'[t].job_queued = 0
        /\ ctx'[t].fault_info = ctx[t].fault_info
    BY <1>2, <1>5, <1>10 DEF ClearJob, Go, TypeInv, TypeOK, Context
  <2>2. Last(t)' = 0
    BY <2>1 DEF Last, NullCall
  <2>3. \A stage : ~JobIs(t, stage)'
    BY <2>2 DEF JobIs
  <2> QED
    BY <1>6, <1>7, <1>8, <1>9, <2>1, <2>3 DEF Stages, Outputs, Over, NullCall,
       ContextInv, APs
<1>11. CASE FillJob
  <2>1. /\ ctx'[t].slot = [func |-> req.op, id |-> served]
        /\ ctx'[t].job_queued = 0 /\ ctx'[t].result = ctx[t].result
        /\ ctx'[t].fault_info = ctx[t].fault_info
    BY <1>2, <1>5, <1>11 DEF FillJob, Go, TypeInv, TypeOK, Context
  <2>2. job' = job /\ boot = "fill" /\ boot' = "queue"
    BY <1>11 DEF FillJob, Go, ApsKeep
  <2>3. \A stage : JobIs(t, stage)' <=> stage = "none"
    BY <1>4, <1>5, <2>1, <2>2 DEF JobIs, Last
  <2>4. Stages(t)'
    BY <1>2, <1>4, <1>7, <2>1, <2>2, <2>3 DEF Stages
  <2>5. Outputs(t)'
    BY <1>2, <1>9, <2>1, <2>2, <2>3 DEF Outputs, Over, JobInv, BootInv, PrepareInv
  <2> QED
    BY <1>6, <1>8, <2>4, <2>5 DEF ContextInv, APs
<1>12. CASE QueueJob
  <2>1. /\ ctx'[t].slot = ctx[t].slot /\ Last(t)' = served
        /\ ctx'[t].job_queued = 1 /\ ctx'[t].result = ctx[t].result
        /\ ctx'[t].fault_info = ctx[t].fault_info
    BY <1>2, <1>5, <1>12 DEF QueueJob, Go, UnlockThen, TypeInv, TypeOK, Context, Last
  <2>2. job'[served] = "queued" /\ Last(t) = served
    BY <1>5, <1>12 DEF QueueJob, TypeInv, TypeOK, Go, UnlockThen, Last
  <2>3. \A stage : JobIs(t, stage)' <=> stage = "queued"
    BY <1>4, <1>5, <2>1, <2>2 DEF JobIs
  <2>4. Stages(t)'
    BY <1>7, <2>1, <2>3 DEF Stages
  <2>5. Outputs(t)'
    BY <1>9, <2>1, <2>2, <2>3 DEF Outputs, Over, JobInv, ContextInv
  <2> QED
    BY <1>6, <1>8, <2>4, <2>5 DEF ContextInv, APs
<1> QED
  BY <1>10, <1>11, <1>12

\* Core 0 runs a job of its own at once.
LEMMA SyncContexts ==
  ASSUME TypeInv, IdInv, JobInv, SyncAccept \/ SyncReturns
  PROVE  ContextInv'
<1>1. /\ boot \in {"sync_accept", "sync_call"} /\ target = 0 /\ 0 \in Contexts
      /\ 0 \notin APs
  BY DEF SyncAccept, SyncReturns, Go, UnlockThen, JobInv, BootInv, PrepareInv,
     Contexts, APs
<1>2. /\ UNCHANGED <<running, pc, tripped, target, served>>
      /\ \A d \in Contexts \ {0} : ctx'[d] = ctx[d]
      /\ \A r \in Requests \ {served} : job'[r] = job[r]
  BY DEF SyncAccept, SyncReturns, TypeInv, TypeOK
<1>3. ctx[0].slot = [func |-> req.op, id |-> served] /\ Last(0) = served
      /\ served \in Requests /\ served # 0
  BY <1>1 DEF IdInv, Filled, Last, TypeInv, Located, Requests
<1>4. ASSUME NEW d \in Contexts, d # 0
      PROVE  Stages(d)' /\ Outputs(d)' /\ (d \in APs => Places(d)')
  <2>1. Last(d) # 0 => job'[Last(d)] = job[Last(d)]
    BY <1>1, <1>2, <1>3, <1>4, Fields, CallId DEF IdInv, TypeInv, Last
  <2> QED
    BY <1>1, <1>2, <1>4, <2>1, OthersKeep DEF JobInv
<1>5. /\ Stages(0) /\ Outputs(0) /\ ~Taken(0)' /\ ctx[0] \in Context
  BY <1>1 DEF JobInv, ContextInv, Taken, TypeInv, TypeOK
<1>6. CASE SyncAccept
  <2>1. /\ ctx'[0] = [ctx[0] EXCEPT !.ready = 0, !.job_queued = 0]
        /\ job'[served] = "running" /\ boot' = "sync_call"
    BY <1>1, <1>3, <1>6 DEF SyncAccept, Go, TypeInv, TypeOK
  <2>2. /\ ctx'[0].slot = ctx[0].slot /\ ctx'[0].fault_info = ctx[0].fault_info
        /\ ctx'[0].result = ctx[0].result /\ ctx'[0].job_queued = 0
    BY <1>5, <2>1 DEF Context
  <2>3. \A stage : JobIs(0, stage)' <=> stage = "running"
    BY <1>3, <2>1, <2>2 DEF JobIs, Last
  <2>4. served \notin tripped
    <3>1. job[served] = "queued"
      BY <1>1, <1>3, <1>5, <1>6 DEF JobInv, BootInv, PrepareInv, Stages, JobIs,
         SyncAccept, Go
    <3> QED
      BY <3>1 DEF JobInv, HistoryInv
  <2>5. Stages(0)'
    BY <1>5, <2>1, <2>2, <2>3 DEF Stages, Runs
  <2>6. Outputs(0)'
    BY <1>2, <1>3, <1>5, <2>2, <2>3, <2>4 DEF Outputs, Last
  <2> QED
    BY <1>1, <1>4, <2>5, <2>6 DEF ContextInv, APs
<1>7. CASE SyncReturns
  <2>1. /\ ctx'[0].slot = ctx[0].slot /\ ctx'[0].fault_info = ctx[0].fault_info
        /\ ctx'[0].result \in {0, served} /\ ctx'[0].job_queued = ctx[0].job_queued
        /\ job'[served] = "done" /\ boot = "sync_call" /\ boot' # "sync_call"
    BY <1>1, <1>3, <1>7 DEF SyncReturns, UnlockThen, TypeInv, TypeOK, Context
  <2>2. \A stage : JobIs(0, stage)' <=> stage = "done"
    BY <1>3, <2>1 DEF JobIs, Last
  <2>3. JobIs(0, "running") /\ ctx[0].job_queued # 1
    BY <1>5, <2>1 DEF Stages, Runs, JobIs
  <2>4. Stages(0)'
    BY <1>1, <1>5, <2>1, <2>2, <2>3 DEF Stages, Runs
  <2>5. Outputs(0)'
    BY <1>2, <1>3, <1>5, <2>1, <2>2, <2>3 DEF Outputs, Last
  <2> QED
    BY <1>1, <1>4, <2>4, <2>5 DEF ContextInv, APs
<1> QED
  BY <1>6, <1>7

\* Every other step of core 0 only reads contexts.
Writing ==
  StartTables \/ StartAp \/ ClearJob \/ FillJob \/ QueueJob \/ SyncAccept
    \/ SyncReturns
LEMMA ReadingSteps ==
  ASSUME TypeInv, BootNext, ~Writing
  PROVE  /\ UNCHANGED <<ctx, ap, job, tripped>>
         /\ boot \notin {"queue", "sync_call"} /\ boot' \notin {"queue", "sync_call"}
<1>0. back \notin {"queue", "sync_call"}
  BY DEF TypeInv, TypeOK
<1>1. CASE SendError
  BY <1>1 DEF SendError, Go, Answer, Return
<1>2. CASE BootUnlockStore
  BY <1>2 DEF BootUnlockStore, Go, ApsKeep, unlock_store
<1>3. CASE BootUnlockExchange
  BY <1>0, <1>3 DEF BootUnlockExchange, ApsKeep, unlock_exchange
<1>4. CASE HandleStart
  BY <1>4 DEF HandleStart, Go, ApsKeep
<1>5. CASE StartNext
  BY <1>5 DEF StartNext, StartLoopBody, Go, ApsKeep
<1>6. CASE StartCheck
  BY <1>6 DEF StartCheck, Go, ApsKeep, present
<1>7. CASE StartLock
  BY <1>7 DEF StartLock, Go, ApsKeep, try_lock_context
<1>8. CASE StartLockFails
  BY <1>8 DEF StartLockFails, Go, ApsKeep
<1>9. CASE StartApFails
  BY <1>9 DEF StartApFails, UnlockThen, ApsKeep
<1>10. CASE AcquireCheck
  BY <1>10 DEF AcquireCheck, Go, ApsKeep, present
<1>11. CASE AcquireLock
  BY <1>11 DEF AcquireLock, Go, ApsKeep, try_lock_context
<1>12. CASE AcquireLockFails
  BY <1>12 DEF AcquireLockFails, Go, ApsKeep
<1>13. CASE AcquireReady
  BY <1>13 DEF AcquireReady, Go, UnlockThen, ApsKeep
<1>14. CASE AcquireQueued
  BY <1>14 DEF AcquireQueued, Go, UnlockThen, ApsKeep
<1>15. CASE WaitLock
  BY <1>15 DEF WaitLock, Go, ApsKeep
<1>16. CASE WaitTry
  BY <1>16 DEF WaitTry, Go, ApsKeep, try_lock_context
<1>17. CASE WaitTryFails
  BY <1>17 DEF WaitTryFails, Go, ApsKeep
<1>18. CASE WaitReady
  BY <1>18 DEF WaitReady, Go, UnlockThen, ApsKeep
<1>19. CASE WaitQueued
  BY <1>19 DEF WaitQueued, UnlockThen, ApsKeep
<1>20. CASE WaitTick
  BY <1>20 DEF WaitTick, Go, ApsKeep
<1>21. CASE Waited
  BY <1>21 DEF Waited, Go, ApsKeep
<1>22. CASE HandleStatus
  BY <1>22 DEF HandleStatus, Go, ApsKeep
<1>23. CASE SampleReady
  BY <1>23 DEF SampleReady, Go, ApsKeep
<1>24. CASE SampleQueued
  BY <1>24 DEF SampleQueued, Go, ApsKeep
<1>25. CASE SampleLock
  BY <1>25 DEF SampleLock, Go, ApsKeep
<1>26. CASE SampleFault
  BY <1>26 DEF SampleFault, Go, ApsKeep
<1>27. CASE Respond
  BY <1>27 DEF Respond, Go, Answer, Return
<1>28. CASE Receive
  BY <1>28 DEF Receive, Go, ApsKeep
<1> QED
  BY <1>1, <1>2, <1>3, <1>4, <1>5, <1>6, <1>7, <1>8, <1>9, <1>10, <1>11, <1>12,
     <1>13, <1>14, <1>15, <1>16, <1>17, <1>18, <1>19, <1>20, <1>21, <1>22,
     <1>23, <1>24, <1>25, <1>26, <1>27, <1>28 DEF BootNext, BootMoves, Writing

\* Every step of core 0 keeps what contexts say.
LEMMA BootContexts ==
  ASSUME TypeInv, StartInv, LockInv, IdInv, JobInv, Undisturbed, BootNext
  PROVE  ContextInv'
<1>1. CASE Writing
  BY <1>1, StartContexts, WriteContexts, SyncContexts DEF Writing
<1>2. CASE ~Writing
  BY <1>2, ReadingSteps, ContextsKeep DEF JobInv
<1> QED
  BY <1>1, <1>2

-----------------------------------------------------------------------------
(* What core 0 knows: its steps. *)

\* Core 0 gives a job only to a context with nothing queued.
LEMMA BootPrepares ==
  ASSUME TypeInv, StartInv, LockInv, IdInv, JobInv, BootNext
  PROVE  PrepareInv'
<1>0. /\ PrepareInv /\ back \notin {"clear", "fill", "queue", "sync_accept", "sync_call"}
      /\ boot \in {"acquire_queued", "clear", "fill", "queue"} => target \in Contexts
      /\ \A c \in Contexts : ctx[c].job_queued \in {0, 1}
  BY OnCore, Fields DEF JobInv, BootInv, TypeInv, TypeOK, JobPath
<1>1. CASE SendError
  BY <1>0, <1>1 DEF SendError, Go, Answer, Return, PrepareInv, Unlocking
<1>2. CASE BootUnlockStore
  BY <1>0, <1>2 DEF BootUnlockStore, Go, ApsKeep, unlock_store, PrepareInv,
     Unlocking
<1>3. CASE BootUnlockExchange
  BY <1>0, <1>3 DEF BootUnlockExchange, ApsKeep, unlock_exchange, PrepareInv,
     Unlocking
<1>4. CASE HandleStart
  BY <1>0, <1>4 DEF HandleStart, Go, ApsKeep, PrepareInv, Unlocking
<1>5. CASE StartNext
  BY <1>0, <1>5 DEF StartNext, StartLoopBody, Go, ApsKeep, PrepareInv,
     Unlocking
<1>6. CASE StartCheck
  BY <1>0, <1>6 DEF StartCheck, Go, ApsKeep, present, PrepareInv, Unlocking
<1>7. CASE StartLock
  BY <1>0, <1>7 DEF StartLock, Go, ApsKeep, try_lock_context, PrepareInv,
     Unlocking
<1>8. CASE StartLockFails
  BY <1>0, <1>8 DEF StartLockFails, Go, ApsKeep, PrepareInv, Unlocking
<1>9. CASE StartTables
  BY <1>0, <1>9 DEF StartTables, Go, ApsKeep, PrepareInv, Unlocking
<1>10. CASE StartAp
  BY <1>0, <1>10 DEF StartAp, Go, PrepareInv, Unlocking
<1>11. CASE StartApFails
  BY <1>0, <1>11 DEF StartApFails, UnlockThen, ApsKeep, PrepareInv, Unlocking
<1>12. CASE AcquireCheck
  BY <1>0, <1>12 DEF AcquireCheck, Go, ApsKeep, present, PrepareInv, Unlocking
<1>13. CASE AcquireLock
  BY <1>0, <1>13 DEF AcquireLock, Go, ApsKeep, try_lock_context, PrepareInv,
     Unlocking
<1>14. CASE AcquireLockFails
  BY <1>0, <1>14 DEF AcquireLockFails, Go, ApsKeep, PrepareInv, Unlocking
<1>15. CASE AcquireReady
  BY <1>0, <1>15 DEF AcquireReady, Go, UnlockThen, ApsKeep, PrepareInv,
     Unlocking
<1>16. CASE AcquireQueued
  BY <1>0, <1>16 DEF AcquireQueued, Go, UnlockThen, ApsKeep, PrepareInv,
     Unlocking
<1>17. CASE ClearJob
  BY <1>0, <1>17 DEF ClearJob, Go, ApsKeep, PrepareInv, Unlocking, TypeInv, TypeOK, Context
<1>18. CASE FillJob
  <2>1. job[served] = "none"
    BY <1>18 DEF IdInv, NotYet, FillJob, Go
  <2> QED
    BY <1>0, <1>18, <2>1 DEF FillJob, Go, ApsKeep, PrepareInv, Unlocking, TypeInv, TypeOK,
       Context
<1>19. CASE QueueJob
  BY <1>0, <1>19 DEF QueueJob, Go, UnlockThen, PrepareInv, Unlocking, TypeInv, TypeOK,
     Context
<1>20. CASE SyncAccept
  BY <1>0, <1>20 DEF SyncAccept, Go, PrepareInv, Unlocking
<1>21. CASE WaitLock
  BY <1>0, <1>21 DEF WaitLock, Go, ApsKeep, PrepareInv, Unlocking
<1>22. CASE WaitTry
  BY <1>0, <1>22 DEF WaitTry, Go, ApsKeep, try_lock_context, PrepareInv,
     Unlocking
<1>23. CASE WaitTryFails
  BY <1>0, <1>23 DEF WaitTryFails, Go, ApsKeep, PrepareInv, Unlocking
<1>24. CASE WaitReady
  BY <1>0, <1>24 DEF WaitReady, Go, UnlockThen, ApsKeep, PrepareInv, Unlocking
<1>25. CASE WaitQueued
  BY <1>0, <1>25 DEF WaitQueued, UnlockThen, ApsKeep, PrepareInv, Unlocking
<1>26. CASE WaitTick
  BY <1>0, <1>26 DEF WaitTick, Go, ApsKeep, PrepareInv, Unlocking
<1>27. CASE Waited
  BY <1>0, <1>27 DEF Waited, Go, ApsKeep, PrepareInv, Unlocking
<1>28. CASE HandleStatus
  BY <1>0, <1>28 DEF HandleStatus, Go, ApsKeep, PrepareInv, Unlocking
<1>29. CASE SampleReady
  BY <1>0, <1>29 DEF SampleReady, Go, ApsKeep, PrepareInv, Unlocking
<1>30. CASE SampleQueued
  BY <1>0, <1>30 DEF SampleQueued, Go, ApsKeep, PrepareInv, Unlocking
<1>31. CASE SampleLock
  BY <1>0, <1>31 DEF SampleLock, Go, ApsKeep, PrepareInv, Unlocking
<1>32. CASE SampleFault
  BY <1>0, <1>32 DEF SampleFault, Go, ApsKeep, PrepareInv, Unlocking
<1>33. CASE Respond
  BY <1>0, <1>33 DEF Respond, Go, Answer, Return, PrepareInv, Unlocking
<1>34. CASE Receive
  BY <1>0, <1>34 DEF Receive, Go, ApsKeep, PrepareInv, Unlocking
<1>35. CASE SyncReturns
  BY <1>0, <1>35 DEF SyncReturns, UnlockThen, PrepareInv, Unlocking
<1> QED
  BY <1>1, <1>2, <1>3, <1>4, <1>5, <1>6, <1>7, <1>8, <1>9, <1>10, <1>11, <1>12,
     <1>13, <1>14, <1>15, <1>16, <1>17, <1>18, <1>19, <1>20, <1>21, <1>22,
     <1>23, <1>24, <1>25, <1>26, <1>27, <1>28, <1>29, <1>30, <1>31, <1>32,
     <1>33, <1>34, <1>35 DEF BootNext, BootMoves

\* Core 0 takes its job for finished only when the context says so: nothing
\* queued, and nobody else in the locked section.
LEMMA WaitedFor ==
  ASSUME TypeInv, LockInv, IdInv, JobInv, Undisturbed, boot = "wait_queued",
         ctx[target].job_queued = 0
  PROVE  job[served] \in Finished
<1>1. target \in Contexts /\ ~Taken(target) /\ ~Runs(target)
  BY Quiescent DEF BootHolding
<1>2. Last(target) = served /\ served # 0
  BY DEF IdInv, Filled, Last, TypeInv, Located, Requests
<1>3. Stages(target)
  BY <1>1 DEF JobInv, ContextInv
<1> QED
  BY <1>1, <1>2, <1>3, NothingLeft DEF Over, JobIs, Finished

\* What core 0 remembers of a finished wait is true.
LEMMA BootWaits ==
  ASSUME TypeInv, LockInv, IdInv, JobInv, Undisturbed, BootNext
  PROVE  WaitInv'
<1>0. /\ WaitInv
      /\ back \in {"idle", "reject", "wait_lock", "wait_tick", "waited", "respond"}
      /\ late \in BOOLEAN
      /\ OnJob => req.op \in {"code", "read_msr"}
  BY DEF JobInv, BootInv, TypeInv, TypeOK, Located
<1> USE DEF WaitInv, Completed, Unlocking
<1>1. CASE SendError
  BY <1>0, <1>1 DEF SendError, Go, Answer, Return, NoSample
<1>2. CASE BootUnlockStore
  BY <1>0, <1>2 DEF BootUnlockStore, Go, ApsKeep, unlock_store
<1>3. CASE BootUnlockExchange
  <2>1. back = "respond" => req.op \in {"code", "read_msr"}
    BY <1>0, <1>3 DEF OnJob, BootUnlockExchange
  <2>2. back = "respond" /\ req.op = "code" =>
          (sample.fault <=> served \in tripped)
    <3> SUFFICES ASSUME back = "respond", req.op = "code"
                 PROVE  ~sample.fault /\ served \notin tripped
      OBVIOUS
    <3>1. ~sample.fault /\ job[served] \in Finished /\ target = 0
      BY <1>0, <1>3 DEF BootUnlockExchange, JobInv, BootInv, PrepareInv
    <3>2. target \in Contexts /\ Last(target) = served /\ served \in Requests
      BY <1>3, OnCore DEF BootUnlockExchange, TypeInv, IdInv, Filled, Last
    <3>3. Over(target) /\ Outputs(target) /\ ctx[target].fault_info # "set"
      BY <3>1, <3>2 DEF Over, JobIs, Finished, Requests, JobInv, ContextInv, Outputs
    <3> QED
      BY <3>1, <3>2, <3>3 DEF Outputs
  <2>3. back = "respond" /\ req.op = "read_msr" => job[served] = "done"
    <3> SUFFICES ASSUME back = "respond", req.op = "read_msr"
                 PROVE  job[served] = "done"
      OBVIOUS
    <3>1. job[served] \in Finished /\ boot \in Unlocking
      BY <1>0, <1>3 DEF BootUnlockExchange
    <3>2. target \in Contexts /\ Last(target) = served /\ served \in Requests
          /\ ctx[target].slot.func = "read_msr"
      BY <3>1, OnCore DEF TypeInv, IdInv, Filled, Last
    <3> QED
      BY <3>1, <3>2 DEF JobInv, ContextInv, Outputs, JobIs, Finished, Requests
  <2> QED
    BY <1>0, <1>3, <2>1, <2>2, <2>3 DEF BootUnlockExchange, ApsKeep, unlock_exchange
<1>4. CASE HandleStart
  BY <1>0, <1>4 DEF HandleStart, Go, ApsKeep, TypeInv, Located, StartPath
<1>5. CASE StartNext
  BY <1>0, <1>5 DEF StartNext, StartLoopBody, Go, ApsKeep, TypeInv, Located,
     StartPath
<1>6. CASE StartCheck
  BY <1>0, <1>6 DEF StartCheck, Go, ApsKeep, present, TypeInv, Located,
     StartPath
<1>7. CASE StartLock
  BY <1>0, <1>7 DEF StartLock, Go, ApsKeep, try_lock_context
<1>8. CASE StartLockFails
  BY <1>0, <1>8 DEF StartLockFails, Go, ApsKeep
<1>9. CASE StartTables
  BY <1>0, <1>9 DEF StartTables, Go, ApsKeep
<1>10. CASE StartAp
  BY <1>0, <1>10 DEF StartAp, Go, TypeInv, Located, StartPath
<1>11. CASE StartApFails
  BY <1>0, <1>11 DEF StartApFails, UnlockThen, ApsKeep, TypeInv, Located,
     StartPath
<1>12. CASE AcquireCheck
  BY <1>0, <1>12 DEF AcquireCheck, Go, ApsKeep, present, IdInv, NotYet, OnJob,
     JobPath
<1>13. CASE AcquireLock
  BY <1>0, <1>13 DEF AcquireLock, Go, ApsKeep, try_lock_context
<1>14. CASE AcquireLockFails
  BY <1>0, <1>14 DEF AcquireLockFails, Go, ApsKeep
<1>15. CASE AcquireReady
  BY <1>0, <1>15 DEF AcquireReady, Go, UnlockThen, ApsKeep
<1>16. CASE AcquireQueued
  BY <1>0, <1>16 DEF AcquireQueued, Go, UnlockThen, ApsKeep
<1>17. CASE ClearJob
  BY <1>0, <1>17 DEF ClearJob, Go, ApsKeep
<1>18. CASE FillJob
  BY <1>0, <1>18 DEF FillJob, Go, ApsKeep
<1>19. CASE QueueJob
  BY <1>0, <1>19 DEF QueueJob, Go, UnlockThen, TypeInv, TypeOK, Located,
     Finished
<1>20. CASE SyncAccept
  BY <1>0, <1>20 DEF SyncAccept, Go, TypeInv, TypeOK, Located, Finished
<1>21. CASE WaitLock
  BY <1>0, <1>21 DEF WaitLock, Go, ApsKeep
<1>22. CASE WaitTry
  BY <1>0, <1>22 DEF WaitTry, Go, ApsKeep, try_lock_context
<1>23. CASE WaitTryFails
  BY <1>0, <1>23 DEF WaitTryFails, Go, ApsKeep
<1>24. CASE WaitReady
  BY <1>0, <1>24 DEF WaitReady, Go, UnlockThen, ApsKeep
<1>25. CASE WaitQueued
  BY <1>0, <1>25, WaitedFor DEF WaitQueued, UnlockThen, ApsKeep
<1>26. CASE WaitTick
  BY <1>0, <1>26 DEF WaitTick, Go, ApsKeep, TypeInv, Located, StartPath
<1>27. CASE Waited
  <2>1. served \in Requests /\ target \in Contexts /\ Last(target) = served
        /\ served # 0
    BY <1>27, OnCore DEF Waited, Go, JobPath, TypeInv, IdInv, Filled, Last, Requests
  <2>2. job[served] \in Finished => Over(target)
    BY <2>1 DEF Over, JobIs, Finished
  <2>3. Over(target) => (ctx[target].fault_info = "set" <=> served \in tripped)
    BY <2>1 DEF JobInv, ContextInv, Outputs
  <2>4. sample'.fault = (req.op = "code" /\ ctx[target].fault_info = "set")
    BY <1>27 DEF Waited, TypeInv, TypeOK, Sample
  <2>5. req.op = "read_msr" /\ ~late => job[served] = "done"
    <3> SUFFICES ASSUME req.op = "read_msr", ~late PROVE job[served] = "done"
      OBVIOUS
    <3>1. job[served] \in Finished /\ boot = "waited"
      BY <1>0, <1>27 DEF Waited, Go
    <3>2. ctx[target].slot.func = "read_msr" /\ Outputs(target)
      BY <2>1, <3>1 DEF IdInv, Filled, JobInv, ContextInv
    <3> QED
      BY <2>1, <3>1, <3>2 DEF Outputs, JobIs, Finished
  <2> QED
    BY <1>0, <1>27, <2>2, <2>3, <2>4, <2>5 DEF Waited, Go, ApsKeep
<1>28. CASE HandleStatus
  BY <1>0, <1>28 DEF HandleStatus, Go, ApsKeep
<1>29. CASE SampleReady
  BY <1>0, <1>29 DEF SampleReady, Go, ApsKeep, TypeInv, TypeOK, Sample,
     Located, Sampling
<1>30. CASE SampleQueued
  BY <1>0, <1>30 DEF SampleQueued, Go, ApsKeep, TypeInv, TypeOK, Sample,
     Located, Sampling
<1>31. CASE SampleLock
  BY <1>0, <1>31 DEF SampleLock, Go, ApsKeep, TypeInv, TypeOK, Sample, Located,
     Sampling
<1>32. CASE SampleFault
  BY <1>0, <1>32 DEF SampleFault, Go, ApsKeep, TypeInv, TypeOK, Sample,
     Located, Sampling
<1>33. CASE Respond
  BY <1>0, <1>33 DEF Respond, Go, Answer, Return, NoSample
<1>34. CASE Receive
  BY <1>0, <1>34 DEF Receive, Go, ApsKeep, NoSample
<1>35. CASE SyncReturns
  BY <1>0, <1>35 DEF SyncReturns, UnlockThen, TypeInv, TypeOK, Located,
     Finished
<1> QED
  BY <1>1, <1>2, <1>3, <1>4, <1>5, <1>6, <1>7, <1>8, <1>9, <1>10, <1>11, <1>12,
     <1>13, <1>14, <1>15, <1>16, <1>17, <1>18, <1>19, <1>20, <1>21, <1>22,
     <1>23, <1>24, <1>25, <1>26, <1>27, <1>28, <1>29, <1>30, <1>31, <1>32,
     <1>33, <1>34, <1>35 DEF BootNext, BootMoves

-----------------------------------------------------------------------------
(* What core 0 samples, and what it answers. *)

\* Sampled without the lock, "nothing queued" and then "unlocked" still mean
\* that the last job is over: in between its AP keeps the lock.
LEMMA BootSamples ==
  ASSUME TypeInv, LockInv, IdInv, JobInv, Undisturbed, BootNext
  PROVE  SampleInv'
<1> USE DEF SampleInv
<1>0. /\ SampleInv /\ (boot \in Sampling => target \in Contexts)
      /\ back \notin Sampling /\ (back = "respond" /\ boot \in Unlocking =>
                                    req.op \in {"code", "read_msr"})
  BY DEF JobInv, TypeInv, TypeOK, Located, OnJob, Sampling
<1>1. CASE SendError
  BY <1>0, <1>1 DEF SendError, Go, Answer, Return, Sampling
<1>2. CASE BootUnlockStore
  BY <1>0, <1>2 DEF BootUnlockStore, Go, ApsKeep, unlock_store, Sampling
<1>3. CASE BootUnlockExchange
  BY <1>0, <1>3 DEF BootUnlockExchange, ApsKeep, unlock_exchange, Sampling,
     Unlocking
<1>4. CASE HandleStart
  BY <1>0, <1>4 DEF HandleStart, Go, ApsKeep, Sampling
<1>5. CASE StartNext
  BY <1>0, <1>5 DEF StartNext, StartLoopBody, Go, ApsKeep, Sampling, TypeInv,
     Located, StartPath
<1>6. CASE StartCheck
  BY <1>0, <1>6 DEF StartCheck, Go, ApsKeep, present, Sampling
<1>7. CASE StartLock
  BY <1>0, <1>7 DEF StartLock, Go, ApsKeep, try_lock_context, Sampling
<1>8. CASE StartLockFails
  BY <1>0, <1>8 DEF StartLockFails, Go, ApsKeep, Sampling
<1>9. CASE StartTables
  BY <1>0, <1>9 DEF StartTables, Go, ApsKeep, Sampling
<1>10. CASE StartAp
  BY <1>0, <1>10 DEF StartAp, Go, Sampling, TypeInv, Located, StartPath
<1>11. CASE StartApFails
  BY <1>0, <1>11 DEF StartApFails, UnlockThen, ApsKeep, Sampling
<1>12. CASE AcquireCheck
  BY <1>0, <1>12 DEF AcquireCheck, Go, ApsKeep, present, Sampling, TypeInv,
     Located, OnJob, JobPath
<1>13. CASE AcquireLock
  BY <1>0, <1>13 DEF AcquireLock, Go, ApsKeep, try_lock_context, Sampling
<1>14. CASE AcquireLockFails
  BY <1>0, <1>14 DEF AcquireLockFails, Go, ApsKeep, Sampling
<1>15. CASE AcquireReady
  BY <1>0, <1>15 DEF AcquireReady, Go, UnlockThen, ApsKeep, Sampling
<1>16. CASE AcquireQueued
  BY <1>0, <1>16 DEF AcquireQueued, Go, UnlockThen, ApsKeep, Sampling
<1>17. CASE ClearJob
  BY <1>0, <1>17 DEF ClearJob, Go, ApsKeep, Sampling
<1>18. CASE FillJob
  BY <1>0, <1>18 DEF FillJob, Go, ApsKeep, Sampling
<1>19. CASE QueueJob
  BY <1>0, <1>19 DEF QueueJob, Go, UnlockThen, Sampling
<1>20. CASE SyncAccept
  BY <1>0, <1>20 DEF SyncAccept, Go, Sampling
<1>21. CASE WaitLock
  BY <1>0, <1>21 DEF WaitLock, Go, ApsKeep, Sampling
<1>22. CASE WaitTry
  BY <1>0, <1>22 DEF WaitTry, Go, ApsKeep, try_lock_context, Sampling
<1>23. CASE WaitTryFails
  BY <1>0, <1>23 DEF WaitTryFails, Go, ApsKeep, Sampling
<1>24. CASE WaitReady
  BY <1>0, <1>24 DEF WaitReady, Go, UnlockThen, ApsKeep, Sampling
<1>25. CASE WaitQueued
  BY <1>0, <1>25 DEF WaitQueued, UnlockThen, ApsKeep, Sampling
<1>26. CASE WaitTick
  BY <1>0, <1>26 DEF WaitTick, Go, ApsKeep, Sampling
<1>27. CASE Waited
  BY <1>0, <1>27 DEF Waited, Go, ApsKeep, Sampling, TypeInv, Located, OnJob,
     JobPath
<1>28. CASE HandleStatus
  BY <1>0, <1>28 DEF HandleStatus, Go, ApsKeep, Sampling
<1>29. CASE SampleReady
  BY <1>0, <1>29 DEF SampleReady, Go, ApsKeep, Sampling
<1>30. CASE SampleQueued
  <2>1. sample'.queued = ctx[target].job_queued
    BY <1>30 DEF SampleQueued, TypeInv, TypeOK, Sample
  <2> QED
    BY <1>30, <2>1 DEF SampleQueued, Go, ApsKeep
<1>31. CASE SampleLock
  <2>1. target \in Contexts /\ lock[target] \in {0, 1} /\ boot = "sample_lock"
    BY <1>0, <1>31, Fields DEF SampleLock, Go, Sampling, TypeInv
  <2>2. lock[target] = 0 => ~Taken(target) /\ ~Runs(target)
    <3>1. lock[target] = 0 => ~ApOwns(target)
      BY <2>1 DEF LockInv, Guarded
    <3> QED
      BY <2>1, <3>1 DEF Taken, Runs, ApOwns, ApHolding, Accepting
  <2>3. lock[target] = 0 /\ ctx[target].job_queued = 0 => Last(target) = 0 \/ Over(target)
    BY <2>1, <2>2, NothingLeft DEF JobInv, ContextInv
  <2>4. sample'.lock = lock[target] /\ sample'.queued = sample.queued
    BY <1>31 DEF SampleLock, TypeInv, TypeOK, Sample
  <2> QED
    BY <1>0, <1>31, <2>1, <2>3, <2>4 DEF SampleLock, Go, ApsKeep, Last, Over, JobIs
<1>32. CASE SampleFault
  <2>1. sample'.lock = sample.lock /\ sample'.queued = sample.queued
    BY <1>32 DEF SampleFault, TypeInv, TypeOK, Sample
  <2>2. UNCHANGED <<ctx, target, job>> /\ boot = "sample_fault"
    BY <1>32 DEF SampleFault, Go, ApsKeep
  <2>3. Last(target)' = Last(target) /\ Over(target)' = Over(target)
    BY <2>2 DEF Last, Over, JobIs
  <2> QED
    BY <1>0, <1>32, <2>1, <2>2, <2>3 DEF SampleFault, Go, Sampling
<1>33. CASE Respond
  BY <1>0, <1>33 DEF Respond, Go, Answer, Return, Sampling
<1>34. CASE Receive
  BY <1>0, <1>34 DEF Receive, Go, ApsKeep, Sampling
<1>35. CASE SyncReturns
  BY <1>0, <1>35 DEF SyncReturns, UnlockThen, Sampling, TypeInv, Located,
     OnJob, JobPath
<1> QED
  BY <1>1, <1>2, <1>3, <1>4, <1>5, <1>6, <1>7, <1>8, <1>9, <1>10, <1>11, <1>12,
     <1>13, <1>14, <1>15, <1>16, <1>17, <1>18, <1>19, <1>20, <1>21, <1>22,
     <1>23, <1>24, <1>25, <1>26, <1>27, <1>28, <1>29, <1>30, <1>31, <1>32,
     <1>33, <1>34, <1>35 DEF BootNext, BootMoves

\* Steps that tell the client nothing and move no job keep the history.
LEMMA HistoryKeep ==
  ASSUME HistoryInv, UNCHANGED <<job, reply, tripped>>,
         \A c \in Contexts : ctx'[c].slot = ctx[c].slot
  PROVE  HistoryInv'
<1>1. \A c \in Contexts : Last(c)' = Last(c)
  BY DEF Last
<1> QED
  BY <1>1 DEF HistoryInv

\* Nor do steps that only move the job of the request being served.
LEMMA JobMoves ==
  ASSUME TypeInv, IdInv, HistoryInv, boot # "idle", UNCHANGED <<reply, tripped>>,
         \A r \in Requests \ {served} : job'[r] = job[r],
         job'[served] \in {"queued", "running"} =>
           \E c \in Contexts : Last(c)' = served,
         \A c \in Contexts : Last(c) # 0 /\ Last(c) # served =>
           job[Last(c)] \in Finished \/ Last(c)' = Last(c),
         served \in tripped => job'[served] \notin {"none", "queued"},
         job'[served] # "aborted"
  PROVE  HistoryInv'
<1>1. served \in Requests /\ reply[served].kind = "none"
  BY DEF TypeInv, Located, IdInv
<1>2. tripped \subseteq Requests
  BY DEF TypeInv, TypeOK
<1>3. ASSUME NEW r \in Requests, job'[r] \in {"queued", "running"}
      PROVE  \E c \in Contexts : Last(c)' = r
  <2>1. CASE r = served
    BY <1>3, <2>1
  <2>2. CASE r # served
    <3>1. job[r] \in {"queued", "running"}
      BY <1>3, <2>2
    <3>2. PICK c \in Contexts : Last(c) = r
      BY <3>1 DEF HistoryInv
    <3>3. Last(c)' = r
      BY <2>2, <3>1, <3>2 DEF Finished, Requests
    <3> QED
      BY <3>3
  <2> QED
    BY <2>1, <2>2
<1> QED
  BY <1>1, <1>2, <1>3 DEF HistoryInv

\* Only the last message of a handler answers.
LEMMA OnlyAnswers ==
  ASSUME BootNext, ~(SendError \/ Respond)
  PROVE  reply' = reply
  BY DEF BootNext, BootMoves, BootUnlockStore, BootUnlockExchange, HandleStart,
     StartNext, StartCheck, StartLock, StartLockFails, StartTables, StartAp,
     StartApFails, AcquireCheck, AcquireLock, AcquireLockFails, AcquireReady,
     AcquireQueued, ClearJob, FillJob, QueueJob, SyncAccept, SyncReturns,
     WaitLock, WaitTry, WaitTryFails, WaitReady, WaitQueued, WaitTick, Waited,
     HandleStatus, SampleReady, SampleQueued, SampleLock, SampleFault, Receive,
     ApsKeep

\* What core 0 answers is true when it is sent.
LEMMA BootAnswers ==
  ASSUME TypeInv, IdInv, JobInv, SendError \/ Respond
  PROVE  HistoryInv'
<1>1. /\ HistoryInv /\ UNCHANGED <<job, tripped>> /\ served \in Requests
      /\ \A c \in Contexts : Last(c)' = Last(c)
      /\ \A r \in Requests \ {served} : reply'[r] = reply[r]
  BY DEF SendError, Respond, Go, Answer, JobInv, TypeInv, TypeOK, Located, Last
<1>2. CASE SendError
  <2>1. reply'[served].kind = "error"
    BY <1>1, <1>2 DEF SendError, Answer, TypeInv, TypeOK
  <2> QED
    BY <1>1, <2>1 DEF HistoryInv
<1>3. CASE Respond
  <2>0. /\ boot = "respond" /\ served # 0
        /\ req.op \in {"start", "status", "last", "code", "read_msr"}
    BY <1>1, <1>3, RequestFields DEF Respond, Go, TypeInv, Located, Requests
  <2>1. CASE req.op \in {"start", "status"}
    <3>1. reply'[served].kind = "status"
      BY <1>1, <1>3, <2>1 DEF Respond, Answer, TypeInv, TypeOK
    <3> QED
      BY <1>1, <3>1 DEF HistoryInv
  <2>2. CASE req.op = "read_msr"
    <3>1. reply'[served].kind = "msr" /\ job[served] \in {"none"} \cup Finished
      BY <1>1, <1>3, <2>0, <2>2 DEF Finished, Respond, Answer, TypeInv, TypeOK, JobInv,
         BootInv, WaitInv
    <3> QED
      BY <1>1, <3>1 DEF HistoryInv
  <2>3. CASE req.op = "last"
    <3>1. job[served] = "none" /\ served \notin tripped
      BY <1>1, <2>0, <2>3 DEF IdInv, NotYet, HistoryInv
    <3>2. reply'[served].kind = "result" /\ reply'[served].flags = {}
      BY <1>1, <1>3, <2>3 DEF Respond, Answer, TypeInv, TypeOK
    <3> QED
      BY <1>1, <3>1, <3>2 DEF HistoryInv
  <2>4. CASE req.op = "code"
    <3>1. /\ reply'[served].kind = "result"
          /\ "timeout" \in reply'[served].flags <=> late
          /\ "fault" \in reply'[served].flags <=> sample.fault
          /\ reply'[served].result = ctx[target].result
      BY <1>1, <1>3, <2>4 DEF Respond, Answer, TypeInv, TypeOK, Sample
    <3>2. ~late => /\ job[served] \in Finished
                   /\ sample.fault <=> served \in tripped
      BY <2>0, <2>4 DEF JobInv, BootInv, WaitInv, Completed
    <3>3. ctx[target].result \in {0, served}
      <4>1. target \in Contexts /\ ctx[target].slot = [func |-> "code", id |-> served]
        BY <2>0, <2>4 DEF TypeInv, Located, IdInv, Filled
      <4> QED
        BY <4>1 DEF JobInv, ContextInv, Outputs, Last
    <3> QED
      BY <1>1, <3>1, <3>2, <3>3 DEF HistoryInv
  <2> QED
    BY <2>0, <2>1, <2>2, <2>3, <2>4
<1> QED
  BY <1>2, <1>3

\* Core 0 replaces only jobs that are over.
LEMMA BootHistory ==
  ASSUME TypeInv, LockInv, IdInv, JobInv, Undisturbed, BootNext
  PROVE  HistoryInv'
<1>0. HistoryInv
  BY DEF JobInv
<1>1. CASE SendError \/ Respond
  BY <1>1, BootAnswers
<1>2. CASE ~Writing /\ ~(SendError \/ Respond)
  <2>1. UNCHANGED <<ctx, job, tripped>>
    BY <1>2, ReadingSteps
  <2>2. reply' = reply
    BY <1>2, OnlyAnswers
  <2> QED
    BY <1>0, <2>1, <2>2, HistoryKeep
<1>3. CASE StartTables \/ StartAp
  BY <1>0, <1>3, HistoryKeep DEF StartTables, StartAp, ApsKeep, TypeInv, TypeOK,
     Context
<1>4. CASE ClearJob
  <2>1. boot = "clear" /\ target \in Contexts /\ ~Taken(target) /\ ~Runs(target)
    BY <1>4, Quiescent DEF ClearJob, Go, BootHolding
  <2>2. ctx[target].job_queued = 0 /\ Stages(target)
    BY <2>1 DEF JobInv, BootInv, PrepareInv, ContextInv
  <2>3. Last(target) = 0 \/ Over(target)
    BY <2>1, <2>2, NothingLeft
  <2>4. \A c \in Contexts \ {target} : Last(c)' = Last(c)
    BY <1>4 DEF ClearJob, Last, TypeInv, TypeOK
  <2>5. job[served] = "none" /\ served \in Requests
    BY <2>1 DEF IdInv, NotYet, TypeInv, Located
  <2>6. \A c \in Contexts : Last(c) # 0 /\ Last(c) # served =>
          job[Last(c)] \in Finished \/ Last(c)' = Last(c)
    BY <2>3, <2>4 DEF Over, JobIs, Finished
  <2>7. UNCHANGED <<job, reply, tripped>>
    BY <1>4 DEF ClearJob, ApsKeep
  <2> QED
    BY <1>0, <2>1, <2>5, <2>6, <2>7, JobMoves DEF HistoryInv
<1>5. CASE FillJob
  <2>1. boot = "fill" /\ target \in Contexts /\ Last(target) = 0
    BY <1>5, OnCore DEF FillJob, Go, JobPath, TypeInv, JobInv, BootInv, PrepareInv,
       Last, NullCall
  <2>2. \A c \in Contexts : Last(c) # 0 => Last(c)' = Last(c)
    BY <1>5, <2>1 DEF FillJob, Last, TypeInv, TypeOK
  <2>3. job[served] = "none" /\ served \in Requests
    BY <2>1 DEF IdInv, NotYet, TypeInv, Located
  <2>4. UNCHANGED <<job, reply, tripped>>
    BY <1>5 DEF FillJob, ApsKeep
  <2> QED
    BY <1>0, <2>1, <2>2, <2>3, <2>4, JobMoves DEF HistoryInv
<1>6. CASE QueueJob \/ SyncAccept \/ SyncReturns
  <2>1. boot \in {"queue", "sync_accept", "sync_call"}
    BY <1>6 DEF QueueJob, SyncAccept, SyncReturns, Go, UnlockThen
  <2>2. target \in Contexts /\ Last(target) = served /\ served \in Requests
    BY <2>1, OnCore DEF JobPath, TypeInv, IdInv, Filled, Last
  <2>3. /\ \A c \in Contexts : Last(c)' = Last(c)
        /\ UNCHANGED <<served, reply, tripped>>
        /\ \A r \in Requests \ {served} : job'[r] = job[r]
    BY <1>6 DEF QueueJob, SyncAccept, SyncReturns, Last, TypeInv, TypeOK, Context
  <2>4. /\ served \in tripped => job'[served] \notin {"none", "queued"}
        /\ job'[served] # "aborted"
    <3>1. CASE QueueJob
      <4>1. job[served] = "none" /\ job'[served] = "queued"
        BY <2>2, <3>1 DEF QueueJob, Go, UnlockThen, JobInv, BootInv, PrepareInv,
           TypeInv, TypeOK
      <4> QED
        BY <1>0, <4>1 DEF HistoryInv
    <3>2. CASE SyncAccept \/ SyncReturns
      BY <2>2, <3>2 DEF SyncAccept, SyncReturns, TypeInv, TypeOK
    <3> QED
      BY <1>6, <3>1, <3>2
  <2> QED
    BY <1>0, <2>1, <2>2, <2>3, <2>4, JobMoves
<1> QED
  BY <1>1, <1>2, <1>3, <1>4, <1>5, <1>6 DEF Writing


-----------------------------------------------------------------------------
(* The promises. *)

\* At first there is no job to say anything of.
LEMMA JobInit == Init => JobInv
<1> SUFFICES ASSUME Init PROVE JobInv
  OBVIOUS
<1>1. \A c \in Contexts : /\ Last(c) = 0 /\ ctx[c].job_queued = 0
                          /\ ctx[c].slot = NullCall /\ ctx[c].fault_info = "null"
  BY DEF Init, Last, NullCall
<1>2. \A c \in APs : pc[c] = "off"
  BY DEF Init
<1>3. boot = "idle" /\ ~late /\ ~sample.fault /\ tripped = {}
  BY DEF Init, NoSample
<1>4. \A r \in Requests : reply[r].kind = "none" /\ job[r] = "none"
  BY DEF Init, NoReply
<1>5. ContextInv
  <2>1. ASSUME NEW c \in Contexts PROVE Stages(c) /\ Outputs(c)
    <3>1. \A stage : ~JobIs(c, stage)
      BY <1>1 DEF JobIs
    <3>2. ~Taken(c) /\ ~Runs(c)
      BY <1>2, <1>3 DEF Taken, Runs
    <3> QED
      BY <1>1, <3>1, <3>2 DEF Stages, Outputs, Over, NullCall
  <2>2. ASSUME NEW c \in APs PROVE Places(c)
    BY <1>1, <1>2 DEF Places, APs
  <2> QED
    BY <2>1, <2>2 DEF ContextInv
<1>6. BootInv /\ SampleInv
  BY <1>3 DEF BootInv, PrepareInv, WaitInv, Completed, SampleInv, Unlocking
<1>7. HistoryInv
  BY <1>3, <1>4 DEF HistoryInv
<1> QED
  BY <1>5, <1>6, <1>7 DEF JobInv

\* A lock once released behind its owner's back is remembered.
LEMMA StolenGrows == [Next]_vars => stolen \subseteq stolen'
<1> SUFFICES ASSUME [Next]_vars PROVE stolen \subseteq stolen'
  OBVIOUS
<1> USE DEF unlock_store, unlock_exchange, try_lock_context, ApsKeep
<1>1. CASE BootMoves
  BY <1>1 DEF BootMoves, SendError, BootUnlockStore, BootUnlockExchange,
     HandleStart, StartNext, StartCheck, StartLock, StartLockFails, StartTables,
     StartAp, StartApFails, AcquireCheck, AcquireLock, AcquireLockFails,
     AcquireReady, AcquireQueued, ClearJob, FillJob, QueueJob, SyncAccept,
     WaitLock, WaitTry, WaitTryFails, WaitReady, WaitQueued, WaitTick, Waited,
     HandleStatus, SampleReady, SampleQueued, SampleLock, SampleFault, Respond
<1>2. CASE Receive \/ SyncReturns
  BY <1>2 DEF Receive, SyncReturns
<1>3. ASSUME NEW c \in APs, ApNext(c) PROVE stolen \subseteq stolen'
  BY <1>3 DEF ApNext, ApMoves, LoopSetStarted, LoopSetReady, LoopClearQueued,
     ApUnlockStore, ApUnlockExchange, SpinFree, CheckQueued, TryLock,
     TryLockFails, Recheck, AcceptJob, DequeueJob, ZeroFault, CallFunctions,
     FinishJob, JobStep, JobWrites, JobProtectionFault, JobFault,
     JobDoubleFault, JobHangs, JobReturns
<1>4. CASE UNCHANGED vars
  BY <1>4 DEF vars
<1> QED
  BY <1>1, <1>2, <1>3, <1>4 DEF Next, BootNext

\* Everything that does not depend on how unlock_context behaves.
BaseInv == TypeInv /\ StartInv /\ LockInv /\ IdInv

LEMMA BaseCorrect == Spec => []BaseInv
<1>1. Init => BaseInv
  BY TypeInit, StartInit, LockInit, IdInit DEF BaseInv
<1>2. BaseInv /\ [Next]_vars => BaseInv'
  BY TypeStep, StartStep, LockStep, IdStep DEF BaseInv
<1> QED
  BY <1>1, <1>2, PTL DEF Spec

\* A step after which no lock has been stolen keeps the invariant of the job
\* protocol.
LEMMA JobStepKeeps ==
  ASSUME BaseInv, BaseInv', QuietJobInv, [Next]_vars, Undisturbed'
  PROVE  JobInv'
<1>1. Undisturbed /\ JobInv /\ HistoryInv /\ ContextInv /\ BootInv /\ SampleInv
  BY StolenGrows DEF Undisturbed, QuietJobInv, JobInv
<1> USE DEF BaseInv
<1>2. CASE BootNext
  <2>1. ContextInv'
    BY <1>1, <1>2, BootContexts
  <2>2. BootInv'
    BY <1>1, <1>2, BootPrepares, BootWaits DEF BootInv
  <2>3. SampleInv'
    BY <1>1, <1>2, BootSamples
  <2>4. HistoryInv'
    BY <1>1, <1>2, BootHistory
  <2> QED
    BY <2>1, <2>2, <2>3, <2>4 DEF JobInv
<1>3. ASSUME NEW c \in APs, ApNext(c) PROVE JobInv'
  <2>1. ApEffect(c) /\ Advance(c)
    BY <1>1, <1>3, ApEffects, ApAdvances DEF TypeInv
  <2>2. Stages(c)' /\ Outputs(c)' /\ Places(c)'
    BY <1>1, <1>3, ApOwnContext
  <2>3. ASSUME NEW d \in Contexts, d # c
        PROVE  Stages(d)' /\ Outputs(d)' /\ (d \in APs => Places(d)')
    BY <1>1, <2>1, <2>3, ApOtherContexts
  <2>4. ContextInv'
    BY <2>2, <2>3 DEF ContextInv, APs
  <2>5. BootInv'
    BY <1>1, <1>3, <2>1, ApBootInv
  <2>6. SampleInv'
    BY <1>1, <2>1, ApSampleInv
  <2>7. HistoryInv'
    BY <1>1, <2>1, ApHistoryInv
  <2> QED
    BY <2>4, <2>5, <2>6, <2>7 DEF JobInv
<1>4. CASE UNCHANGED vars
  BY <1>1, <1>4 DEF vars, JobInv, ContextInv, Stages, Outputs, Places, JobIs, Over,
     Taken, Runs, Last, BootInv, PrepareInv, WaitInv, Completed, SampleInv,
     HistoryInv
<1> QED
  BY <1>2, <1>3, <1>4 DEF Next

LEMMA JobsCorrect == Spec => [](BaseInv /\ QuietJobInv)
<1>1. Init => QuietJobInv
  BY JobInit DEF QuietJobInv
<1>2. BaseInv /\ BaseInv' /\ QuietJobInv /\ [Next]_vars => QuietJobInv'
  BY JobStepKeeps DEF QuietJobInv
<1> QED
  BY <1>1, <1>2, BaseCorrect, PTL DEF Spec

\* The acquire checks of core 0 and the started check of start_core keep it
\* from writing over a job that has not finished.
THEOREM JobsNotOverwritten == Spec => []NoJobOverwritten
<1>1. BaseInv /\ QuietJobInv => NoJobOverwritten
  <2> SUFFICES ASSUME BaseInv, JobInv, Undisturbed, boot \in {"clear", "start_tables"}
               PROVE  Last(target) # 0 => job[Last(target)] \in Finished
    BY DEF QuietJobInv, NoJobOverwritten, Last
  <2>1. CASE boot = "clear"
    <3>1. target \in Contexts /\ ~Taken(target) /\ ~Runs(target)
      BY <2>1, Quiescent DEF BaseInv, BootHolding
    <3>2. ctx[target].job_queued = 0 /\ Stages(target)
      BY <2>1, <3>1 DEF JobInv, BootInv, PrepareInv, ContextInv
    <3> QED
      BY <2>1, <3>1, <3>2, NothingLeft DEF BaseInv, Over, JobIs, Finished
  <2>2. CASE boot = "start_tables"
    BY <2>2 DEF BaseInv, StartInv, Last, NullCall
  <2> QED
    BY <2>1, <2>2
<1> QED
  BY <1>1, JobsCorrect, PTL

\* A queued job stays in its slot, with job_queued set, until its AP takes it.
THEOREM QueuedJobsKept == Spec => []QueuedJobKept
<1>1. BaseInv /\ QuietJobInv => QueuedJobKept
  <2> SUFFICES ASSUME BaseInv, JobInv, NEW r \in Requests, job[r] = "queued"
               PROVE  \E c \in Contexts :
                        /\ Last(c) = r
                        /\ \/ ctx[c].job_queued = 1
                           \/ c \in APs /\ pc[c] \in {"zero_fault", "call"}
    BY DEF QuietJobInv, QueuedJobKept, Last
  <2>1. PICK c \in Contexts : Last(c) = r
    BY DEF JobInv, HistoryInv
  <2>2. JobIs(c, "queued") /\ Stages(c)
    BY <2>1 DEF JobIs, Requests, JobInv, ContextInv
  <2> QED
    BY <2>1, <2>2 DEF Stages, Taken
<1> QED
  BY <1>1, JobsCorrect, PTL

\* An AP calls the function of a job only while that job is queued: once.
THEOREM JobsRunOnce == Spec => RunsOnce
<1>1. BaseInv /\ QuietJobInv =>
        \A c \in APs :
           Undisturbed /\ CallFunctions(c) /\ ctx[c].slot.func # "null"
             => job[ctx[c].slot.id] = "queued"
  <2> SUFFICES ASSUME JobInv, NEW c \in APs, pc[c] = "call"
               PROVE  job[ctx[c].slot.id] = "queued"
    BY DEF QuietJobInv, CallFunctions, Step
  <2>1. Stages(c) /\ Taken(c)
    BY DEF JobInv, ContextInv, APs, Contexts, Taken
  <2> QED
    BY <2>1 DEF Stages, JobIs, Last
<1> QED
  BY <1>1, JobsCorrect, PTL DEF RunsOnce

\* A response that does not say "timeout" is sent after the job has finished.
THEOREM CompletionIsTruthful == Spec => []CompletionTruthful
<1>1. QuietJobInv => CompletionTruthful
  BY DEF QuietJobInv, CompletionTruthful, JobInv, HistoryInv
<1> QED
  BY <1>1, JobsCorrect, PTL

\* The fault flag of a finished job's response says whether that job raised a
\* fault, and so does the flag core 0 reads when it gives up on a started job.
THEOREM FaultFlagsExact == Spec => []FaultFlagExact
<1>1. BaseInv /\ QuietJobInv => FaultFlagExact
  <2> SUFFICES ASSUME BaseInv, JobInv PROVE FaultFlagExact
    BY DEF QuietJobInv, FaultFlagExact
  <2>1. ASSUME boot = "waited", req.op = "code", job[served] # "queued"
        PROVE  ctx[target].fault_info = "set" <=> served \in tripped
    <3>1. target \in Contexts /\ Last(target) = served /\ served # 0
          /\ served \in Requests
      BY <2>1, OnCore DEF BaseInv, JobPath, TypeInv, IdInv, Filled, Last, Requests
    <3>2. Stages(target) /\ Outputs(target)
      BY <3>1 DEF JobInv, ContextInv
    <3>3. job[served] # "none"
      BY <2>1, <3>1, <3>2 DEF Stages, JobIs
    <3>4. JobIs(target, "running") \/ Over(target)
      BY <2>1, <3>1, <3>3 DEF JobIs, Over, BaseInv, TypeInv, TypeOK, Finished
    <3> QED
      BY <3>1, <3>2, <3>4 DEF Outputs
  <2> QED
    BY <2>1 DEF FaultFlagExact, JobInv, HistoryInv
<1> QED
  BY <1>1, JobsCorrect, PTL

\* The result buffer a test response copies holds no earlier job's output.
THEOREM ResultsAreOwn == Spec => []ResultIsOwn
<1>1. QuietJobInv => ResultIsOwn
  BY DEF QuietJobInv, ResultIsOwn, JobInv, HistoryInv
<1> QED
  BY <1>1, JobsCorrect, PTL

\* Sampled in the order of send_core_status, "ready, nothing queued, unlocked"
\* means that the last job has finished.
THEOREM StatusIsConsistent == Spec => []StatusConsistent
<1>1. BaseInv /\ QuietJobInv => StatusConsistent
  <2> SUFFICES ASSUME JobInv, boot = "respond", req.op \in {"status", "last"},
                      sample.queued = 0, sample.lock = 0
               PROVE  Last(target) # 0 => job[Last(target)] \in Finished
    BY DEF QuietJobInv, StatusConsistent, Last
  <2> QED
    BY DEF JobInv, SampleInv, Over, JobIs, Finished
<1> QED
  BY <1>1, JobsCorrect, PTL
=============================================================================
