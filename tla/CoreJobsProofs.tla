--------------------------- MODULE CoreJobsProofs ---------------------------
(***************************************************************************)
(* Proofs about CoreJobs for every number of cores, contexts and requests  *)
(* and every set of timeouts.                                              *)
(***************************************************************************)
EXTENDS CoreJobsProperties, TLAPS

USE CoreCounts, RequestBound, TimeoutRange
USE DEF locks, ap, request, wait, outcome

-----------------------------------------------------------------------------
(* What core 0 is doing where it is. *)

StartPath == {"start", "start_next", "start_check", "start_lock",
              "start_tables", "start_ap"}
JobPath == {"acquire", "acquire_lock", "acquire_ready", "acquire_queued",
            "clear", "fill", "queue", "sync_accept", "sync_call", "wait_lock",
            "wait_try", "wait_ready", "wait_queued", "wait_tick", "waited"}
Unlocking == {"unlock_store", "unlock_exchange"}
Sampling == {"sample_ready", "sample_queued", "sample_lock", "sample_fault"}

OnJob ==
  \/ boot \in JobPath
  \/ boot \in Unlocking /\ back \in JobPath \cup {"respond"}

Located ==
  /\ boot # "idle" => served \in Requests /\ req \in Request
  /\ OnJob => req.op \in {"code", "read_msr"} /\ target = req.core
  /\ boot \in StartPath => req.op = "start"
  /\ boot = "start_next" => req.core = 0
  /\ boot \in StartPath \ {"start"} =>
       target >= 1 /\ (req.core # 0 => target = req.core)
  /\ boot \in {"start_lock", "start_tables", "start_ap"} \cup Unlocking
              \cup (JobPath \ {"acquire"}) =>
       target \in Contexts /\ target < NumCores
  /\ boot \in {"status"} \cup Sampling =>
       target = req.core /\ req.op \in {"status", "last"}
  /\ boot \in Sampling => target \in Contexts
  /\ boot = "respond" /\ req.op \in {"code", "last"} => target \in Contexts

\* A slot that is not NULL belongs to a request, and an AP executes only such.
SlotsOwned ==
  /\ \A c \in Contexts : ctx[c].slot.func # "null" => ctx[c].slot.id \in Requests
  /\ \A c \in APs : pc[c] = "exec" =>
       running[c].func # "null" /\ running[c].id \in Requests

\* The inductive strengthening of TypeOK.
TypeInv == TypeOK /\ Located /\ SlotsOwned

\* The initial contexts, with core 0 started and ready, satisfy the invariant.
LEMMA TypeInit == Init => TypeInv
<1> SUFFICES ASSUME Init PROVE TypeInv
  OBVIOUS
<1>1. 0 \in Contexts /\ 0 \in 0 .. MaxCoreCount + 1
  BY DEF Contexts
<1>2. ctx \in [Contexts -> Context]
  BY <1>1 DEF Init, Context, Call, NullCall
<1>3. lock \in [Contexts -> {0, 1}] /\ stolen \subseteq Contexts
  BY DEF Init
<1>4. pc \in [APs -> ApHolding \cup {"off", "spin", "check", "try", "unlock_exchange"}]
  BY DEF Init
<1>5. running \in [APs -> Call]
  BY DEF Init, Call, NullCall
<1>6. boot \in BootLocations
  BY DEF Init, BootLocations
<1>7. back \in {"idle", "reject", "wait_lock", "wait_tick", "waited", "respond"}
  BY DEF Init
<1>8. req \in Request \cup {NoRequest}
  BY DEF Init
<1>9. served \in 0 .. MaxRequests /\ iterations \in Nat
  BY DEF Init
<1>10. target \in 0 .. MaxCoreCount + 1
  BY <1>1 DEF Init
<1>11. late \in BOOLEAN /\ tripped \subseteq Requests
  BY DEF Init
<1>12. sample \in Sample
  BY DEF Init, Sample, NoSample
<1>13. job \in [Requests -> {"none", "queued", "running"} \cup Finished]
  BY DEF Init
<1>14. reply \in [Requests -> Reply]
  BY DEF Init, Reply, NoReply
<1>15. TypeOK
  BY <1>2, <1>3, <1>4, <1>5, <1>6, <1>7, <1>8, <1>9, <1>10, <1>11, <1>12,
     <1>13, <1>14 DEF TypeOK
<1>16. Located
  BY DEF Init, Located, OnJob, StartPath, JobPath, Unlocking, Sampling
<1>17. SlotsOwned
  BY DEF Init, SlotsOwned, NullCall
<1> QED
  BY <1>15, <1>16, <1>17 DEF TypeInv

\* Writing one field of one context keeps the contexts well typed.
LEMMA CtxTypes ==
  ASSUME TypeOK, NEW c \in Contexts
  PROVE  /\ \A v \in {0, 1} :
              /\ [ctx EXCEPT ![c].started = v] \in [Contexts -> Context]
              /\ [ctx EXCEPT ![c].ready = v] \in [Contexts -> Context]
              /\ [ctx EXCEPT ![c].job_queued = v] \in [Contexts -> Context]
         /\ \A v \in {"clear", "set"} :
              [ctx EXCEPT ![c].fault_info = v] \in [Contexts -> Context]
         /\ \A v \in Call : [ctx EXCEPT ![c].slot = v] \in [Contexts -> Context]
         /\ \A v \in 0 .. MaxRequests :
              [ctx EXCEPT ![c].result = v] \in [Contexts -> Context]
  BY DEF TypeOK, Context

\* What a read of a context or its lock can return.
LEMMA Fields ==
  ASSUME TypeOK, NEW c \in Contexts
  PROVE  /\ ctx[c].started \in {0, 1} /\ ctx[c].ready \in {0, 1}
         /\ ctx[c].job_queued \in {0, 1} /\ lock[c] \in {0, 1}
         /\ ctx[c].slot \in Call /\ ctx[c].result \in 0 .. MaxRequests
  BY DEF TypeOK, Context

\* What a handler finds in a request.
LEMMA RequestFields ==
  ASSUME NEW r \in Request
  PROVE  /\ r.op \in {"start", "status", "last", "code", "read_msr"}
         /\ r.core \in 0 .. MaxCoreCount + 1 /\ r.timeout \in Nat
<1>1. CASE r \in [op : {"start", "status", "last"}, core : 0 .. MaxCoreCount + 1,
                  timeout : {0}]
  BY <1>1
<1>2. CASE r \in [op : {"code"}, core : 0 .. MaxCoreCount + 1, timeout : Timeouts]
  BY <1>2
<1>3. CASE r \in [op : {"read_msr"}, core : 0 .. MaxCoreCount + 1,
                  timeout : {MsrTimeout}]
  BY <1>3
<1> QED
  BY <1>1, <1>2, <1>3 DEF Request

\* A slot names a request or, when it is NULL, none.
LEMMA CallId ==
  ASSUME NEW r \in Call
  PROVE  r.id \in 0 .. MaxRequests /\ (r.id \in Requests \/ r.id = 0)
  BY DEF Call, Requests

\* Recording one more flag keeps the sample well typed.
LEMMA SampleTypes ==
  ASSUME TypeOK
  PROVE  /\ \A v \in {0, 1} : /\ [sample EXCEPT !.ready = v] \in Sample
                              /\ [sample EXCEPT !.queued = v] \in Sample
                              /\ [sample EXCEPT !.lock = v] \in Sample
         /\ \A v \in BOOLEAN : [sample EXCEPT !.fault = v] \in Sample
  BY DEF TypeOK, Sample

\* Core 0 works on a context that exists, for a request that exists.
LEMMA OnCore ==
  ASSUME TypeOK, Located,
         boot \in {"start_lock", "start_tables", "start_ap"} \cup Unlocking
                    \cup (JobPath \ {"acquire"})
  PROVE  target \in Contexts /\ target < NumCores /\ served \in Requests
         /\ req \in Request
  BY DEF Located, JobPath, Unlocking

\* A job handler that moves on to another place of its path stays located.
LEMMA JobStays ==
  ASSUME TypeOK, Located, UNCHANGED request,
         OnJob, target \in Contexts /\ target < NumCores, boot # "idle",
         \/ boot' \in Unlocking /\ back' \in JobPath \cup {"respond", "reject"}
         \/ boot' \in (JobPath \ {"acquire"}) \cup {"respond", "reject"}
  PROVE  Located'
<1>1. served \in Requests /\ req \in Request /\ req.op \in {"code", "read_msr"}
      /\ target = req.core /\ target \in Nat
  BY DEF Located, TypeOK
<1> QED
  BY <1>1 DEF Located, OnJob, JobPath, Unlocking, StartPath, Sampling

\* The fault handler notes the fault for the request whose job runs.
LEMMA NoteFaultTypes ==
  ASSUME TypeOK, SlotsOwned, NEW c \in APs, pc[c] = "exec", NoteFault(c)
  PROVE  ctx' \in [Contexts -> Context] /\ tripped' \subseteq Requests
<1>1. c \in Contexts
  BY DEF APs, Contexts
<1>2. running[c].id \in Requests
  BY DEF SlotsOwned
<1> QED
  BY <1>1, <1>2, CtxTypes DEF NoteFault, TypeOK

\* Sending a response keeps the responses well typed.
LEMMA AnswerTypes ==
  ASSUME TypeOK, NEW kind \in {"error", "status", "result", "msr"},
         NEW flags \in SUBSET {"timeout", "fault"}, NEW out \in 0 .. MaxRequests,
         Answer(kind, flags, out)
  PROVE  reply' \in [Requests -> Reply]
  BY DEF TypeOK, Answer, Reply

\* A handler that returns leaves its locals at their initial values.
LEMMA ReturnTypes ==
  ASSUME TypeOK, Return
  PROVE  /\ req' = NoRequest /\ target' = 0 /\ served' \in 0 .. MaxRequests
         /\ iterations' = 0 /\ late' = FALSE /\ sample' \in Sample
  BY DEF TypeOK, Return, Sample, NoSample

-----------------------------------------------------------------------------
(* The steps of an AP. *)

\* Each step of an AP keeps the types.
LEMMA ApTypes ==
  ASSUME TypeOK, SlotsOwned, NEW c \in APs, ApNext(c)
  PROVE  TypeOK'
<1>0. c \in Contexts
  BY DEF APs, Contexts
<1>1. CASE LoopSetStarted(c)
  BY <1>0, <1>1, CtxTypes DEF TypeOK, LoopSetStarted, Step, BootKeeps,
     ApHolding, Accepting
<1>2. CASE LoopSetReady(c)
  BY <1>0, <1>2, CtxTypes DEF TypeOK, LoopSetReady, Step, BootKeeps, ApHolding,
     Accepting
<1>3. CASE LoopClearQueued(c)
  BY <1>0, <1>3, CtxTypes DEF TypeOK, LoopClearQueued, Step, BootKeeps,
     unlock_store, ApHolding, Accepting
<1>4. CASE ApUnlockStore(c)
  BY <1>0, <1>4 DEF TypeOK, ApUnlockStore, Step, BootKeeps, unlock_store,
     unlock_exchange, ApHolding, Accepting
<1>5. CASE ApUnlockExchange(c)
  BY <1>0, <1>5 DEF TypeOK, ApUnlockExchange, Step, BootKeeps, unlock_exchange,
     ApHolding, Accepting
<1>6. CASE SpinFree(c)
  BY <1>0, <1>6 DEF TypeOK, SpinFree, Step, BootKeeps, ApHolding, Accepting
<1>7. CASE CheckQueued(c)
  BY <1>0, <1>7 DEF TypeOK, CheckQueued, Step, BootKeeps, ApHolding, Accepting
<1>8. CASE TryLock(c)
  BY <1>0, <1>8 DEF TypeOK, TryLock, Step, BootKeeps, try_lock_context,
     ApHolding, Accepting
<1>9. CASE TryLockFails(c)
  BY <1>0, <1>9 DEF TypeOK, TryLockFails, Step, BootKeeps, ApHolding, Accepting
<1>10. CASE Recheck(c)
  BY <1>0, <1>10 DEF TypeOK, Recheck, Step, BootKeeps, unlock_store, ApHolding,
     Accepting
<1>11. CASE AcceptJob(c)
  BY <1>0, <1>11, CtxTypes DEF TypeOK, AcceptJob, Step, BootKeeps, ApHolding,
     Accepting
<1>12. CASE DequeueJob(c)
  BY <1>0, <1>12, CtxTypes DEF TypeOK, DequeueJob, Step, BootKeeps, ApHolding,
     Accepting
<1>13. CASE ZeroFault(c)
  BY <1>0, <1>13, CtxTypes DEF TypeOK, ZeroFault, Step, BootKeeps, ApHolding,
     Accepting
<1>14. CASE CallFunctions(c)
  BY <1>0, <1>14, CtxTypes, Fields, CallId DEF TypeOK, CallFunctions, Step,
     BootKeeps, ApHolding, Accepting, Finished
<1>15. CASE FinishJob(c)
  BY <1>0, <1>15, CtxTypes DEF TypeOK, FinishJob, Step, BootKeeps,
     unlock_store, ApHolding, Accepting
<1>16. CASE JobWrites(c)
  BY <1>0, <1>16, CtxTypes, CallId DEF TypeOK, JobWrites, Step, BootKeeps,
     ApHolding, Accepting
<1>17. CASE JobProtectionFault(c)
    BY <1>17, NoteFaultTypes DEF TypeOK, JobProtectionFault, Step, BootKeeps,
       ApHolding
<1>18. CASE JobFault(c)
    BY <1>18, NoteFaultTypes DEF TypeOK, JobFault, Step, BootKeeps, ApHolding,
       Finished
<1>19. CASE JobDoubleFault(c)
    BY <1>19, NoteFaultTypes DEF TypeOK, JobDoubleFault, Step, BootKeeps,
       ApHolding
<1>20. CASE JobHangs(c)
  BY <1>0, <1>20 DEF TypeOK, JobHangs, Step, BootKeeps, ApHolding, Accepting
<1>21. CASE JobReturns(c)
  BY <1>0, <1>21 DEF TypeOK, JobReturns, Step, BootKeeps, ApHolding, Accepting,
     Finished
<1> QED
  BY <1>1, <1>2, <1>3, <1>4, <1>5, <1>6, <1>7, <1>8, <1>9, <1>10, <1>11,
     <1>12, <1>13, <1>14, <1>15, <1>16, <1>17, <1>18, <1>19, <1>20, <1>21 DEF
     ApNext, ApMoves, JobStep

\* Each step of an AP leaves only requests' functions to execute.
LEMMA ApSlots ==
  ASSUME TypeOK, SlotsOwned, NEW c \in APs, ApNext(c)
  PROVE  SlotsOwned'
<1>0. c \in Contexts
  BY DEF APs, Contexts
<1>1. CASE LoopSetStarted(c)
  BY <1>0, <1>1 DEF TypeOK, SlotsOwned, Located, LoopSetStarted, Step, BootKeeps
<1>2. CASE LoopSetReady(c)
  BY <1>0, <1>2 DEF TypeOK, SlotsOwned, Located, LoopSetReady, Step, BootKeeps
<1>3. CASE LoopClearQueued(c)
  BY <1>0, <1>3 DEF TypeOK, SlotsOwned, Located, LoopClearQueued, Step,
     BootKeeps, unlock_store
<1>4. CASE ApUnlockStore(c)
  BY <1>0, <1>4 DEF TypeOK, SlotsOwned, Located, ApUnlockStore, Step,
     BootKeeps, unlock_store, unlock_exchange
<1>5. CASE ApUnlockExchange(c)
  BY <1>0, <1>5 DEF TypeOK, SlotsOwned, Located, ApUnlockExchange, Step,
     BootKeeps, unlock_exchange
<1>6. CASE SpinFree(c)
  BY <1>0, <1>6 DEF TypeOK, SlotsOwned, Located, SpinFree, Step, BootKeeps
<1>7. CASE CheckQueued(c)
  BY <1>0, <1>7 DEF TypeOK, SlotsOwned, Located, CheckQueued, Step, BootKeeps
<1>8. CASE TryLock(c)
  BY <1>0, <1>8 DEF TypeOK, SlotsOwned, Located, TryLock, Step, BootKeeps,
     try_lock_context
<1>9. CASE TryLockFails(c)
  BY <1>0, <1>9 DEF TypeOK, SlotsOwned, Located, TryLockFails, Step, BootKeeps
<1>10. CASE Recheck(c)
  BY <1>0, <1>10 DEF TypeOK, SlotsOwned, Located, Recheck, Step, BootKeeps,
     unlock_store
<1>11. CASE AcceptJob(c)
  BY <1>0, <1>11 DEF TypeOK, SlotsOwned, Located, AcceptJob, Step, BootKeeps
<1>12. CASE DequeueJob(c)
  BY <1>0, <1>12 DEF TypeOK, SlotsOwned, Located, DequeueJob, Step, BootKeeps
<1>13. CASE ZeroFault(c)
  BY <1>0, <1>13 DEF TypeOK, SlotsOwned, Located, ZeroFault, Step, BootKeeps
<1>14. CASE CallFunctions(c)
  BY <1>0, <1>14 DEF TypeOK, SlotsOwned, Located, CallFunctions, Step, BootKeeps
<1>15. CASE FinishJob(c)
  BY <1>0, <1>15 DEF TypeOK, SlotsOwned, Located, FinishJob, Step, BootKeeps,
     unlock_store
<1>16. CASE JobWrites(c)
  BY <1>0, <1>16 DEF TypeOK, SlotsOwned, Located, JobWrites, Step, BootKeeps
<1>17. CASE JobProtectionFault(c)
  BY <1>0, <1>17 DEF TypeOK, SlotsOwned, Located, JobProtectionFault, Step,
     BootKeeps, NoteFault
<1>18. CASE JobFault(c)
  BY <1>0, <1>18 DEF TypeOK, SlotsOwned, Located, JobFault, Step, BootKeeps,
     NoteFault
<1>19. CASE JobDoubleFault(c)
  BY <1>0, <1>19 DEF TypeOK, SlotsOwned, Located, JobDoubleFault, Step,
     BootKeeps, NoteFault
<1>20. CASE JobHangs(c)
  BY <1>0, <1>20 DEF TypeOK, SlotsOwned, Located, JobHangs, Step, BootKeeps
<1>21. CASE JobReturns(c)
  BY <1>0, <1>21 DEF TypeOK, SlotsOwned, Located, JobReturns, Step, BootKeeps
<1> QED
  BY <1>1, <1>2, <1>3, <1>4, <1>5, <1>6, <1>7, <1>8, <1>9, <1>10, <1>11,
     <1>12, <1>13, <1>14, <1>15, <1>16, <1>17, <1>18, <1>19, <1>20, <1>21 DEF
     ApNext, ApMoves, JobStep

-----------------------------------------------------------------------------
(* The steps of core 0. *)

\* Each step of core 0 keeps the types.
LEMMA BootTypes ==
  ASSUME TypeOK, Located, BootNext
  PROVE  TypeOK'
<1>1. CASE SendError
  <2>1. reply' \in [Requests -> Reply]
    BY <1>1, AnswerTypes DEF SendError
  <2>2. boot' \in BootLocations /\ UNCHANGED back
    BY <1>1 DEF SendError, Go, BootLocations
  <2>3. req' \in Request \cup {NoRequest} /\ target' \in 0 .. MaxCoreCount + 1
        /\ served' \in 0 .. MaxRequests
        /\ iterations' \in Nat /\ late' \in BOOLEAN /\ sample' \in Sample
    BY <1>1, ReturnTypes DEF SendError
  <2> QED
    BY <1>1, <2>1, <2>2, <2>3 DEF TypeOK, SendError
<1>2. CASE BootUnlockStore
  BY <1>2 DEF TypeOK, BootUnlockStore, Go, ApsKeep, unlock_store,
     unlock_exchange, BootLocations, BootHolding
<1>3. CASE BootUnlockExchange
  <2>1. target \in Contexts
    BY <1>3, OnCore DEF BootUnlockExchange, Unlocking
  <2>2. boot' \in BootLocations /\ back' = "idle"
    BY <1>3 DEF TypeOK, BootUnlockExchange, BootLocations, BootHolding
  <2>3. lock' \in [Contexts -> {0, 1}] /\ stolen' \subseteq Contexts
    BY <1>3, <2>1 DEF TypeOK, BootUnlockExchange, unlock_exchange
  <2> QED
    BY <1>3, <2>2, <2>3 DEF TypeOK, BootUnlockExchange, ApsKeep
<1>4. CASE HandleStart
  <2>1. req \in Request
    BY <1>4 DEF Located, HandleStart, Go
  <2>2. target' \in 0 .. MaxCoreCount + 1
    BY <1>4, <2>1, RequestFields DEF HandleStart
  <2>3. boot' \in BootLocations /\ back' = back
    BY <1>4 DEF HandleStart, Go, BootLocations, BootHolding
  <2> QED
    BY <1>4, <2>2, <2>3 DEF TypeOK, HandleStart, ApsKeep
<1>5. CASE StartNext
  <2>1. target' \in 0 .. MaxCoreCount + 1
    BY <1>5 DEF TypeOK, StartNext, StartLoopBody, Contexts
  <2>3. boot' \in BootLocations /\ back' = back
    BY <1>5 DEF StartNext, StartLoopBody, Go, BootLocations, BootHolding
  <2> QED
    BY <1>5, <2>1, <2>3 DEF TypeOK, StartNext, ApsKeep
<1>6. CASE StartCheck
  BY <1>6 DEF TypeOK, StartCheck, Go, ApsKeep, present, BootLocations,
     BootHolding
<1>7. CASE StartLock
  BY <1>7 DEF TypeOK, StartLock, Go, ApsKeep, try_lock_context, BootLocations,
     BootHolding
<1>8. CASE StartLockFails
  BY <1>8 DEF TypeOK, StartLockFails, Go, ApsKeep, BootLocations, BootHolding
<1>9. CASE StartTables
  BY <1>9, CtxTypes DEF TypeOK, StartTables, Go, ApsKeep, BootLocations,
     BootHolding
<1>10. CASE StartAp
  <2>1. boot' \in BootLocations /\ UNCHANGED back
    BY <1>10 DEF StartAp, Go, BootLocations, BootHolding
  <2>2. target' \in 0 .. MaxCoreCount + 1
    BY <1>10, OnCore DEF StartAp, Go, Contexts
  <2>3. pc' \in [APs -> ApHolding \cup {"off", "spin", "check", "try", "unlock_exchange"}]
    BY <1>10 DEF StartAp, TypeOK, ApHolding
  <2> QED
    BY <1>10, <2>1, <2>2, <2>3 DEF TypeOK, StartAp
<1>11. CASE StartApFails
  BY <1>11 DEF TypeOK, StartApFails, UnlockThen, ApsKeep, BootLocations,
     BootHolding
<1>12. CASE AcquireCheck
  BY <1>12 DEF TypeOK, AcquireCheck, Go, ApsKeep, present, BootLocations,
     BootHolding
<1>13. CASE AcquireLock
  BY <1>13 DEF TypeOK, AcquireLock, Go, ApsKeep, try_lock_context,
     BootLocations, BootHolding
<1>14. CASE AcquireLockFails
  BY <1>14 DEF TypeOK, AcquireLockFails, Go, ApsKeep, BootLocations, BootHolding
<1>15. CASE AcquireReady
  BY <1>15 DEF TypeOK, AcquireReady, Go, UnlockThen, ApsKeep, BootLocations,
     BootHolding
<1>16. CASE AcquireQueued
  BY <1>16 DEF TypeOK, AcquireQueued, Go, UnlockThen, ApsKeep, BootLocations,
     BootHolding
<1>17. CASE ClearJob
  <2>1. target \in Contexts
    BY <1>17, OnCore DEF ClearJob, Go, JobPath
  <2>2. NullCall \in Call
    BY DEF NullCall, Call
  <2> DEFINE out == IF req.op = "code" THEN 0 ELSE ctx[target].result
             new == [ctx[target] EXCEPT !.slot = NullCall, !.result = out]
  <2>3. ctx' \in [Contexts -> Context]
    <3>1. ctx[target] \in Context /\ ctx \in [Contexts -> Context]
      BY <2>1 DEF TypeOK
    <3>2. out \in 0 .. MaxRequests
      BY <3>1 DEF Context
    <3> HIDE DEF out
    <3>3. new \in Context
      BY <2>2, <3>1, <3>2 DEF Context
    <3> HIDE DEF new
    <3>4. [ctx EXCEPT ![target] = new] \in [Contexts -> Context]
      BY <3>1, <3>3
    <3>5. ctx' = [ctx EXCEPT ![target] = new]
      BY <1>17, <2>1, <3>1 DEF ClearJob, new, out, Context
    <3> QED
      BY <3>4, <3>5
  <2>4. boot' \in BootLocations /\ UNCHANGED back
    BY <1>17 DEF ClearJob, Go, BootLocations, BootHolding
  <2> QED
    BY <1>17, <2>3, <2>4 DEF TypeOK, ClearJob, ApsKeep
<1>18. CASE FillJob
  <2>1. target \in Contexts /\ served \in Requests
    BY <1>18, OnCore DEF FillJob, Go, JobPath
  <2>2. req.op \in {"code", "read_msr"}
    BY <1>18 DEF Located, OnJob, FillJob, Go, JobPath
  <2>2a. served \in 0 .. MaxRequests
    BY DEF TypeOK
  <2>2b. [func |-> req.op, id |-> served] \in Call
    BY <2>2, <2>2a DEF Call
  <2>3. ctx' \in [Contexts -> Context]
    BY <1>18, <2>1, <2>2b, CtxTypes DEF FillJob
  <2>4. boot' \in BootLocations /\ UNCHANGED back
    BY <1>18 DEF FillJob, Go, BootLocations, BootHolding
  <2> QED
    BY <1>18, <2>3, <2>4 DEF TypeOK, FillJob, ApsKeep
<1>19. CASE QueueJob
  BY <1>19, CtxTypes DEF TypeOK, QueueJob, Go, UnlockThen, BootLocations,
     BootHolding
<1>20. CASE SyncAccept
  <2>1. served \in Requests /\ 0 \in Contexts
    BY <1>20, OnCore DEF SyncAccept, Go, JobPath, Contexts
  <2> DEFINE taken == [ctx[0] EXCEPT !.ready = 0, !.job_queued = 0]
  <2>2. ctx' = [ctx EXCEPT ![0] = taken]
    BY <1>20 DEF SyncAccept
  <2>2a. ctx \in [Contexts -> Context] /\ ctx[0] \in Context
    BY <2>1 DEF TypeOK
  <2>2b. taken \in Context
    BY <2>2a DEF Context
  <2> HIDE DEF taken
  <2>3. ctx' \in [Contexts -> Context]
    BY <2>1, <2>2, <2>2a, <2>2b
  <2>4. boot' \in BootLocations /\ UNCHANGED back
    BY <1>20 DEF SyncAccept, Go, BootLocations, BootHolding
  <2>5. job' \in [Requests -> {"none", "queued", "running"} \cup Finished]
    BY <1>20 DEF TypeOK, SyncAccept
  <2> QED
    BY <1>20, <2>3, <2>4, <2>5 DEF TypeOK, SyncAccept
<1>21. CASE WaitLock
  BY <1>21 DEF TypeOK, WaitLock, Go, ApsKeep, BootLocations, BootHolding
<1>22. CASE WaitTry
  BY <1>22 DEF TypeOK, WaitTry, Go, ApsKeep, try_lock_context, BootLocations,
     BootHolding
<1>23. CASE WaitTryFails
  BY <1>23 DEF TypeOK, WaitTryFails, Go, ApsKeep, BootLocations, BootHolding
<1>24. CASE WaitReady
  BY <1>24 DEF TypeOK, WaitReady, Go, UnlockThen, ApsKeep, BootLocations,
     BootHolding
<1>25. CASE WaitQueued
  BY <1>25 DEF TypeOK, WaitQueued, UnlockThen, ApsKeep, BootLocations,
     BootHolding
<1>26. CASE WaitTick
  <2>1. boot' \in BootLocations /\ UNCHANGED back
    BY <1>26 DEF WaitTick, Go, BootLocations, BootHolding
  <2>3. iterations' \in Nat /\ late' \in BOOLEAN
    <3>1. CASE req.timeout = 0
      BY <1>26, <3>1 DEF WaitTick, TypeOK
    <3>2. CASE req.timeout # 0
      <4>1. iterations' = iterations + 1 /\ late' = (iterations + 1 >= req.timeout)
        BY <1>26, <3>2 DEF WaitTick
      <4>2. iterations' \in Nat
        BY <4>1 DEF TypeOK
      <4> QED
        BY <4>1, <4>2
    <3> QED
      BY <3>1, <3>2
  <2>4. UNCHANGED sample
    BY <1>26 DEF WaitTick
  <2> QED
    BY <1>26, <2>1, <2>3, <2>4 DEF TypeOK, WaitTick, ApsKeep
<1>27. CASE Waited
  BY <1>27, SampleTypes DEF TypeOK, Waited, Go, ApsKeep, BootLocations,
     BootHolding
<1>28. CASE HandleStatus
  BY <1>28 DEF TypeOK, HandleStatus, Go, ApsKeep, BootLocations, BootHolding
<1>29. CASE SampleReady
  <2>1. boot' \in BootLocations /\ UNCHANGED back
    BY <1>29 DEF SampleReady, Go, BootLocations
  <2>2. target \in Contexts
    BY <1>29 DEF SampleReady, Go, Located, Sampling
  <2>3. sample' \in Sample
    BY <1>29, <2>2, Fields, SampleTypes DEF SampleReady
  <2> QED
    BY <1>29, <2>1, <2>3 DEF TypeOK, SampleReady, ApsKeep
<1>30. CASE SampleQueued
  <2>1. boot' \in BootLocations /\ UNCHANGED back
    BY <1>30 DEF SampleQueued, Go, BootLocations
  <2>2. target \in Contexts
    BY <1>30 DEF SampleQueued, Go, Located, Sampling
  <2>3. sample' \in Sample
    BY <1>30, <2>2, Fields, SampleTypes DEF SampleQueued
  <2> QED
    BY <1>30, <2>1, <2>3 DEF TypeOK, SampleQueued, ApsKeep
<1>31. CASE SampleLock
  <2>1. boot' \in BootLocations /\ UNCHANGED back
    BY <1>31 DEF SampleLock, Go, BootLocations
  <2>2. target \in Contexts
    BY <1>31 DEF SampleLock, Go, Located, Sampling
  <2>3. sample' \in Sample
    BY <1>31, <2>2, Fields, SampleTypes DEF SampleLock
  <2> QED
    BY <1>31, <2>1, <2>3 DEF TypeOK, SampleLock, ApsKeep
<1>32. CASE SampleFault
  BY <1>32, SampleTypes DEF TypeOK, SampleFault, Go, ApsKeep, BootLocations,
     BootHolding
<1>33. CASE Respond
  <2>1. req \in Request /\ (req.op \in {"code", "last"} => target \in Contexts)
    BY <1>33 DEF Located, Respond, Go
  <2>2. req.op \in {"start", "status", "last", "code", "read_msr"}
    BY <2>1, RequestFields
  <2>3. req.op \in {"code", "last"} => ctx[target].result \in 0 .. MaxRequests
    BY <2>1, Fields
  <2>4. 0 \in 0 .. MaxRequests
    OBVIOUS
  <2>5. reply' \in [Requests -> Reply]
    <3>1. CASE req.op \in {"start", "status"}
      BY <1>33, <2>4, <3>1, AnswerTypes DEF Respond
    <3>2. CASE req.op = "read_msr"
      BY <1>33, <2>4, <3>2, AnswerTypes DEF Respond
    <3>3. CASE req.op = "last"
      BY <1>33, <2>3, <3>3, AnswerTypes DEF Respond
    <3>4. CASE req.op = "code"
      BY <1>33, <2>3, <3>4, AnswerTypes DEF Respond
    <3> QED
      BY <2>2, <3>1, <3>2, <3>3, <3>4
  <2>6. boot' \in BootLocations /\ UNCHANGED back
    BY <1>33 DEF Respond, Go, BootLocations
  <2>7. req' \in Request \cup {NoRequest} /\ target' \in 0 .. MaxCoreCount + 1
        /\ served' \in 0 .. MaxRequests
        /\ iterations' \in Nat /\ late' \in BOOLEAN /\ sample' \in Sample
    BY <1>33, ReturnTypes DEF Respond
  <2> QED
    BY <1>33, <2>5, <2>6, <2>7 DEF TypeOK, Respond
<1>34. CASE Receive
  <2>1. PICK r \in Request :
          /\ Go("idle", CASE r.op = "start" -> "start"
                         [] r.op \in {"code", "read_msr"} -> "acquire"
                         [] OTHER -> "status")
          /\ req' = r /\ target' = r.core
    BY <1>34 DEF Receive
  <2>2. boot' \in BootLocations /\ UNCHANGED back
    BY <2>1 DEF Go, BootLocations
  <2>3. target' \in 0 .. MaxCoreCount + 1 /\ req' \in Request
    BY <2>1, RequestFields
  <2>4. served' \in 0 .. MaxRequests
    BY <1>34 DEF Receive, TypeOK
  <2> QED
    BY <1>34, <2>2, <2>3, <2>4 DEF TypeOK, Receive, ApsKeep
<1>35. CASE SyncReturns
  <2>1. served \in 0 .. MaxRequests /\ 0 \in Contexts
    BY DEF TypeOK, Contexts
  <2>2. PICK out \in {0, served} : ctx' = [ctx EXCEPT ![0].ready = 1, ![0].result = out]
    BY <1>35 DEF SyncReturns
  <2>2a. out \in 0 .. MaxRequests
    BY <2>1
  <2> DEFINE done == [ctx[0] EXCEPT !.ready = 1, !.result = out]
  <2>2b. ctx' = [ctx EXCEPT ![0] = done]
    BY <2>2
  <2>2c. ctx \in [Contexts -> Context]
    BY DEF TypeOK
  <2>2d. ctx[0] \in Context
    BY <2>1, <2>2c
  <2>2e. done \in Context
    BY <2>2a, <2>2d DEF Context
  <2> HIDE DEF done
  <2>3. ctx' \in [Contexts -> Context]
    BY <2>2b, <2>2c, <2>2e
  <2>4. boot' \in BootLocations /\ back' = "respond"
    BY <1>35 DEF SyncReturns, UnlockThen, BootLocations, BootHolding
  <2>5. job' \in [Requests -> {"none", "queued", "running"} \cup Finished]
    BY <1>35 DEF TypeOK, SyncReturns, Finished
  <2> QED
    BY <1>35, <2>3, <2>4, <2>5 DEF TypeOK, SyncReturns
<1> QED
  BY <1>1, <1>2, <1>3, <1>4, <1>5, <1>6, <1>7, <1>8, <1>9, <1>10, <1>11,
     <1>12, <1>13, <1>14, <1>15, <1>16, <1>17, <1>18, <1>19, <1>20, <1>21,
     <1>22, <1>23, <1>24, <1>25, <1>26, <1>27, <1>28, <1>29, <1>30, <1>31,
     <1>32, <1>33, <1>34, <1>35 DEF BootNext, BootMoves

\* Each step of core 0 leads where its request and target belong.
LEMMA BootLocated ==
  ASSUME TypeOK, Located, BootNext
  PROVE  Located'
<1>1. CASE SendError
  BY <1>1 DEF TypeOK, Located, SendError, Go, Answer, Return, OnJob, StartPath,
     JobPath, Unlocking, Sampling
<1>2. CASE BootUnlockStore
  BY <1>2 DEF TypeOK, Located, BootUnlockStore, Go, ApsKeep, unlock_store,
     unlock_exchange, OnJob, StartPath, JobPath, Unlocking, Sampling
<1>3. CASE BootUnlockExchange
  <2>0. boot = "unlock_exchange" /\ boot' = back /\ UNCHANGED request /\ back' = "idle"
    BY <1>3 DEF BootUnlockExchange
  <2>1. target < NumCores /\ served \in Requests /\ req \in Request /\ target \in Contexts
    BY <2>0, OnCore DEF Unlocking
  <2>2. back \in {"idle", "reject", "wait_lock", "wait_tick", "waited", "respond"}
    BY DEF TypeOK
  <2>3. CASE back \in {"idle", "reject"}
    BY <2>0, <2>1, <2>3 DEF Located, OnJob, JobPath, Unlocking, StartPath,
       Sampling
  <2>4. CASE back \notin {"idle", "reject"}
    BY <2>0, <2>1, <2>2, <2>4, JobStays DEF OnJob, JobPath, Unlocking
  <2> QED
    BY <2>3, <2>4
<1>4. CASE HandleStart
  <2>1. req \in Request /\ served \in Requests /\ req.op = "start"
    BY <1>4 DEF Located, HandleStart, Go, StartPath
  <2>2. req.core \in Nat
    BY <2>1, RequestFields
  <2> QED
    BY <1>4, <2>1, <2>2 DEF Located, HandleStart, Go, OnJob, JobPath,
       Unlocking, StartPath, Sampling
<1>5. CASE StartNext
  <2>1. req \in Request /\ served \in Requests /\ req.op = "start"
    BY <1>5 DEF Located, StartNext, StartLoopBody, Go, StartPath
  <2>2. target \in Nat /\ target >= 1 /\ req.core = 0
    BY <1>5 DEF Located, StartNext, StartLoopBody, Go, StartPath, TypeOK
  <2>3. UNCHANGED <<req, served>>
    BY <1>5 DEF StartNext
  <2>4. CASE boot' = "start_next"
    BY <1>5, <2>1, <2>2, <2>3, <2>4 DEF Located, StartNext, StartLoopBody, Go,
       OnJob, JobPath, Unlocking, StartPath, Sampling
  <2>5. CASE boot' # "start_next"
    <3>1. boot' \in {"respond", "stray", "start_check"} /\ UNCHANGED target
      BY <1>5, <2>5 DEF StartNext, StartLoopBody, Go
    <3> QED
      BY <2>1, <2>2, <2>3, <3>1 DEF Located, OnJob, JobPath, Unlocking,
         StartPath, Sampling
  <2> QED
    BY <2>4, <2>5
<1>6. CASE StartCheck
  BY <1>6 DEF TypeOK, Located, StartCheck, Go, ApsKeep, present, OnJob,
     StartPath, JobPath, Unlocking, Sampling
<1>7. CASE StartLock
  BY <1>7 DEF TypeOK, Located, StartLock, Go, ApsKeep, try_lock_context, OnJob,
     StartPath, JobPath, Unlocking, Sampling
<1>8. CASE StartLockFails
  BY <1>8 DEF TypeOK, Located, StartLockFails, Go, ApsKeep, OnJob, StartPath,
     JobPath, Unlocking, Sampling
<1>9. CASE StartTables
  BY <1>9 DEF TypeOK, Located, StartTables, Go, ApsKeep, OnJob, StartPath,
     JobPath, Unlocking, Sampling
<1>10. CASE StartAp
  BY <1>10 DEF TypeOK, Located, StartAp, Go, OnJob, StartPath, JobPath,
     Unlocking, Sampling
<1>11. CASE StartApFails
  BY <1>11 DEF TypeOK, Located, StartApFails, UnlockThen, ApsKeep, OnJob,
     StartPath, JobPath, Unlocking, Sampling
<1>12. CASE AcquireCheck
  <2>1. OnJob /\ boot # "idle" /\ UNCHANGED <<request, back>>
    BY <1>12 DEF AcquireCheck, Go, OnJob, JobPath
  <2>2. /\ req \in Request /\ served \in Requests
        /\ req.op \in {"code", "read_msr"} /\ target = req.core
    BY <2>1 DEF Located
  <2>3. CASE boot' = "acquire_lock"
    <3>1. target \in Contexts /\ target < NumCores
      BY <1>12, <2>2, <2>3 DEF AcquireCheck, Go, present, Contexts, Request
    <3> QED
      BY <2>1, <2>2, <2>3, <3>1, JobStays DEF JobPath
  <2>4. CASE boot' # "acquire_lock"
    <3>1. boot' = "reject" \/ (boot' = "respond" /\ req.op = "read_msr")
      BY <1>12, <2>4 DEF AcquireCheck, Go
    <3> QED
      BY <2>1, <2>2, <3>1 DEF Located, OnJob, JobPath, Unlocking, StartPath,
         Sampling
  <2> QED
    BY <2>3, <2>4
<1>13. CASE AcquireLock
  BY <1>13 DEF TypeOK, Located, AcquireLock, Go, ApsKeep, try_lock_context,
     OnJob, StartPath, JobPath, Unlocking, Sampling
<1>14. CASE AcquireLockFails
  BY <1>14 DEF TypeOK, Located, AcquireLockFails, Go, ApsKeep, OnJob,
     StartPath, JobPath, Unlocking, Sampling
<1>15. CASE AcquireReady
  BY <1>15 DEF TypeOK, Located, AcquireReady, Go, UnlockThen, ApsKeep, OnJob,
     StartPath, JobPath, Unlocking, Sampling
<1>16. CASE AcquireQueued
  BY <1>16 DEF TypeOK, Located, AcquireQueued, Go, UnlockThen, ApsKeep, OnJob,
     StartPath, JobPath, Unlocking, Sampling
<1>17. CASE ClearJob
  BY <1>17 DEF TypeOK, Located, ClearJob, Go, ApsKeep, OnJob, StartPath,
     JobPath, Unlocking, Sampling
<1>18. CASE FillJob
  BY <1>18 DEF TypeOK, Located, FillJob, Go, ApsKeep, OnJob, StartPath,
     JobPath, Unlocking, Sampling
<1>19. CASE QueueJob
  <2>1. /\ OnJob /\ boot # "idle" /\ UNCHANGED request
        /\ target \in Contexts /\ target < NumCores
    BY <1>19 DEF QueueJob, Go, UnlockThen, OnJob, JobPath, Located
  <2> QED
    BY <1>19, <2>1, JobStays DEF QueueJob, Go, UnlockThen, JobPath, Unlocking
<1>20. CASE SyncAccept
  BY <1>20 DEF TypeOK, Located, SyncAccept, Go, OnJob, StartPath, JobPath,
     Unlocking, Sampling
<1>21. CASE WaitLock
  BY <1>21 DEF TypeOK, Located, WaitLock, Go, ApsKeep, OnJob, StartPath,
     JobPath, Unlocking, Sampling
<1>22. CASE WaitTry
  BY <1>22 DEF TypeOK, Located, WaitTry, Go, ApsKeep, try_lock_context, OnJob,
     StartPath, JobPath, Unlocking, Sampling
<1>23. CASE WaitTryFails
  BY <1>23 DEF TypeOK, Located, WaitTryFails, Go, ApsKeep, OnJob, StartPath,
     JobPath, Unlocking, Sampling
<1>24. CASE WaitReady
  <2>1. /\ OnJob /\ boot # "idle" /\ UNCHANGED request
        /\ target \in Contexts /\ target < NumCores
    BY <1>24 DEF WaitReady, Go, UnlockThen, OnJob, JobPath, Located
  <2> QED
    BY <1>24, <2>1, JobStays DEF WaitReady, Go, UnlockThen, JobPath, Unlocking
<1>25. CASE WaitQueued
  <2>1. /\ OnJob /\ boot # "idle" /\ UNCHANGED request
        /\ target \in Contexts /\ target < NumCores
    BY <1>25 DEF WaitQueued, Go, UnlockThen, OnJob, JobPath, Located
  <2> QED
    BY <1>25, <2>1, JobStays DEF WaitQueued, Go, UnlockThen, JobPath, Unlocking
<1>26. CASE WaitTick
  BY <1>26 DEF TypeOK, Located, WaitTick, Go, ApsKeep, OnJob, StartPath,
     JobPath, Unlocking, Sampling
<1>27. CASE Waited
  <2>1. /\ OnJob /\ boot # "idle" /\ UNCHANGED request
        /\ target \in Contexts /\ target < NumCores
    BY <1>27 DEF Waited, Go, OnJob, JobPath, Located
  <2> QED
    BY <1>27, <2>1, JobStays DEF Waited, Go, JobPath, Unlocking
<1>28. CASE HandleStatus
  <2>1. /\ req \in Request /\ served \in Requests
        /\ target = req.core /\ req.op \in {"status", "last"}
    BY <1>28 DEF Located, HandleStatus, Go
  <2>2. req.core \in Nat
    BY <2>1, RequestFields
  <2>3. UNCHANGED request /\ boot' \in {"reject", "stray", "sample_ready"}
    BY <1>28 DEF HandleStatus, Go
  <2>4. boot' = "sample_ready" => target \in Contexts
    BY <1>28, <2>1, <2>2 DEF HandleStatus, Go, Contexts
  <2> QED
    BY <2>1, <2>3, <2>4 DEF Located, OnJob, JobPath, Unlocking, StartPath,
       Sampling
<1>29. CASE SampleReady
  BY <1>29 DEF TypeOK, Located, SampleReady, Go, ApsKeep, OnJob, StartPath,
     JobPath, Unlocking, Sampling
<1>30. CASE SampleQueued
  BY <1>30 DEF TypeOK, Located, SampleQueued, Go, ApsKeep, OnJob, StartPath,
     JobPath, Unlocking, Sampling
<1>31. CASE SampleLock
  BY <1>31 DEF TypeOK, Located, SampleLock, Go, ApsKeep, OnJob, StartPath,
     JobPath, Unlocking, Sampling
<1>32. CASE SampleFault
  BY <1>32 DEF TypeOK, Located, SampleFault, Go, ApsKeep, OnJob, StartPath,
     JobPath, Unlocking, Sampling
<1>33. CASE Respond
  BY <1>33 DEF TypeOK, Located, Respond, Go, Answer, Return, OnJob, StartPath,
     JobPath, Unlocking, Sampling
<1>34. CASE Receive
  <2>1. PICK r \in Request :
          /\ Go("idle", CASE r.op = "start" -> "start"
                         [] r.op \in {"code", "read_msr"} -> "acquire"
                         [] OTHER -> "status")
          /\ req' = r /\ target' = r.core
    BY <1>34 DEF Receive
  <2>2. r.op \in {"start", "status", "last", "code", "read_msr"}
    BY <2>1, RequestFields
  <2>3. served' \in Requests
    BY <1>34 DEF Receive, TypeOK, Requests
  <2> QED
    BY <2>1, <2>2, <2>3 DEF Go, Located, OnJob, JobPath, Unlocking, StartPath,
       Sampling
<1>35. CASE SyncReturns
  <2>1. /\ OnJob /\ boot # "idle" /\ UNCHANGED request
        /\ target \in Contexts /\ target < NumCores
    BY <1>35 DEF SyncReturns, UnlockThen, OnJob, JobPath, Located
  <2> QED
    BY <1>35, <2>1, JobStays DEF SyncReturns, UnlockThen, JobPath, Unlocking
<1> QED
  BY <1>1, <1>2, <1>3, <1>4, <1>5, <1>6, <1>7, <1>8, <1>9, <1>10, <1>11,
     <1>12, <1>13, <1>14, <1>15, <1>16, <1>17, <1>18, <1>19, <1>20, <1>21,
     <1>22, <1>23, <1>24, <1>25, <1>26, <1>27, <1>28, <1>29, <1>30, <1>31,
     <1>32, <1>33, <1>34, <1>35 DEF BootNext, BootMoves

\* Each step of core 0 writes only its own request into a slot.
LEMMA BootSlots ==
  ASSUME TypeOK, Located, SlotsOwned, BootNext
  PROVE  SlotsOwned'
<1>1. CASE SendError
  BY <1>1 DEF TypeOK, SlotsOwned, Located, SendError, Go, Answer, Return
<1>2. CASE BootUnlockStore
  BY <1>2 DEF TypeOK, SlotsOwned, Located, BootUnlockStore, Go, ApsKeep,
     unlock_store, unlock_exchange
<1>3. CASE BootUnlockExchange
  BY <1>3 DEF TypeOK, SlotsOwned, Located, BootUnlockExchange, ApsKeep,
     unlock_exchange
<1>4. CASE HandleStart
  BY <1>4 DEF TypeOK, SlotsOwned, Located, HandleStart, Go, ApsKeep
<1>5. CASE StartNext
  BY <1>5 DEF TypeOK, SlotsOwned, Located, StartNext, Go, ApsKeep
<1>6. CASE StartCheck
  BY <1>6 DEF TypeOK, SlotsOwned, Located, StartCheck, Go, ApsKeep, present
<1>7. CASE StartLock
  BY <1>7 DEF TypeOK, SlotsOwned, Located, StartLock, Go, ApsKeep,
     try_lock_context
<1>8. CASE StartLockFails
  BY <1>8 DEF TypeOK, SlotsOwned, Located, StartLockFails, Go, ApsKeep
<1>9. CASE StartTables
  BY <1>9 DEF TypeOK, SlotsOwned, Located, StartTables, Go, ApsKeep
<1>10. CASE StartAp
  BY <1>10 DEF TypeOK, SlotsOwned, Located, StartAp, Go
<1>11. CASE StartApFails
  BY <1>11 DEF TypeOK, SlotsOwned, Located, StartApFails, UnlockThen, ApsKeep
<1>12. CASE AcquireCheck
  BY <1>12 DEF TypeOK, SlotsOwned, Located, AcquireCheck, Go, ApsKeep, present
<1>13. CASE AcquireLock
  BY <1>13 DEF TypeOK, SlotsOwned, Located, AcquireLock, Go, ApsKeep,
     try_lock_context
<1>14. CASE AcquireLockFails
  BY <1>14 DEF TypeOK, SlotsOwned, Located, AcquireLockFails, Go, ApsKeep
<1>15. CASE AcquireReady
  BY <1>15 DEF TypeOK, SlotsOwned, Located, AcquireReady, Go, UnlockThen,
     ApsKeep
<1>16. CASE AcquireQueued
  BY <1>16 DEF TypeOK, SlotsOwned, Located, AcquireQueued, Go, UnlockThen,
     ApsKeep
<1>17. CASE ClearJob
  <2>1. \A c \in Contexts : ctx'[c].slot = ctx[c].slot \/ ctx'[c].slot = NullCall
    BY <1>17 DEF ClearJob, TypeOK, Context
  <2>2. \A c \in Contexts : ctx'[c].slot.func # "null" => ctx'[c].slot.id \in Requests
    BY <2>1 DEF SlotsOwned, NullCall
  <2> QED
    BY <1>17, <2>2 DEF SlotsOwned, ClearJob, ApsKeep
<1>18. CASE FillJob
  BY <1>18 DEF TypeOK, SlotsOwned, Located, FillJob, Go, ApsKeep
<1>19. CASE QueueJob
  BY <1>19 DEF TypeOK, SlotsOwned, Located, QueueJob, Go, UnlockThen
<1>20. CASE SyncAccept
  BY <1>20 DEF TypeOK, SlotsOwned, Located, SyncAccept, Go
<1>21. CASE WaitLock
  BY <1>21 DEF TypeOK, SlotsOwned, Located, WaitLock, Go, ApsKeep
<1>22. CASE WaitTry
  BY <1>22 DEF TypeOK, SlotsOwned, Located, WaitTry, Go, ApsKeep,
     try_lock_context
<1>23. CASE WaitTryFails
  BY <1>23 DEF TypeOK, SlotsOwned, Located, WaitTryFails, Go, ApsKeep
<1>24. CASE WaitReady
  BY <1>24 DEF TypeOK, SlotsOwned, Located, WaitReady, Go, UnlockThen, ApsKeep
<1>25. CASE WaitQueued
  BY <1>25 DEF TypeOK, SlotsOwned, Located, WaitQueued, UnlockThen, ApsKeep
<1>26. CASE WaitTick
  BY <1>26 DEF TypeOK, SlotsOwned, Located, WaitTick, Go, ApsKeep
<1>27. CASE Waited
  BY <1>27 DEF TypeOK, SlotsOwned, Located, Waited, Go, ApsKeep
<1>28. CASE HandleStatus
  BY <1>28 DEF TypeOK, SlotsOwned, Located, HandleStatus, Go, ApsKeep
<1>29. CASE SampleReady
  BY <1>29 DEF TypeOK, SlotsOwned, Located, SampleReady, Go, ApsKeep
<1>30. CASE SampleQueued
  BY <1>30 DEF TypeOK, SlotsOwned, Located, SampleQueued, Go, ApsKeep
<1>31. CASE SampleLock
  BY <1>31 DEF TypeOK, SlotsOwned, Located, SampleLock, Go, ApsKeep
<1>32. CASE SampleFault
  BY <1>32 DEF TypeOK, SlotsOwned, Located, SampleFault, Go, ApsKeep
<1>33. CASE Respond
  BY <1>33 DEF TypeOK, SlotsOwned, Located, Respond, Go, Answer, Return
<1>34. CASE Receive
  BY <1>34 DEF TypeOK, SlotsOwned, Located, Receive, Go, ApsKeep
<1>35. CASE SyncReturns
  BY <1>35 DEF TypeOK, SlotsOwned, Located, SyncReturns, UnlockThen
<1> QED
  BY <1>1, <1>2, <1>3, <1>4, <1>5, <1>6, <1>7, <1>8, <1>9, <1>10, <1>11,
     <1>12, <1>13, <1>14, <1>15, <1>16, <1>17, <1>18, <1>19, <1>20, <1>21,
     <1>22, <1>23, <1>24, <1>25, <1>26, <1>27, <1>28, <1>29, <1>30, <1>31,
     <1>32, <1>33, <1>34, <1>35 DEF BootNext, BootMoves

\* No step of an AP touches what core 0 keeps to itself.
LEMMA ApKeepsBoot == ASSUME NEW c \in APs, ApNext(c) PROVE BootKeeps
  BY DEF ApNext, ApMoves, LoopSetStarted, LoopSetReady, LoopClearQueued,
     ApUnlockStore, ApUnlockExchange, SpinFree, CheckQueued, TryLock,
     TryLockFails, Recheck, AcceptJob, DequeueJob, ZeroFault, CallFunctions,
     FinishJob, JobStep, JobWrites, JobProtectionFault, JobFault,
     JobDoubleFault, JobHangs, JobReturns

\* The invariant is inductive.
LEMMA TypeStep == TypeInv /\ [Next]_vars => TypeInv'
<1> SUFFICES ASSUME TypeInv, [Next]_vars PROVE TypeInv'
  OBVIOUS
<1> USE DEF TypeInv
<1>1. CASE BootNext
  BY <1>1, BootTypes, BootLocated, BootSlots
<1>2. ASSUME NEW c \in APs, ApNext(c) PROVE TypeInv'
  <2>1. BootKeeps
    BY <1>2, ApKeepsBoot
  <2>2. Located'
    BY <2>1 DEF BootKeeps, Located, OnJob
  <2> QED
    BY <1>2, <2>2, ApTypes, ApSlots
<1>3. CASE UNCHANGED vars
  BY <1>3 DEF vars, TypeOK, Located, OnJob, SlotsOwned
<1> QED
  BY <1>1, <1>2, <1>3 DEF Next

\* Every variable keeps its type: in particular core 0 never works on a
\* context behind core_contexts, except where the range checks of
\* handle_start_core and handle_get_core_status let an id through ("stray").
THEOREM TypeCorrect == Spec => []TypeOK
<1>1. Spec => []TypeInv
  BY TypeInit, TypeStep, PTL DEF Spec
<1>2. TypeInv => TypeOK
  BY DEF TypeInv
<1> QED
  BY <1>1, <1>2, PTL

-----------------------------------------------------------------------------
(* The lock. *)

\* Nobody but its owner holds a lock.  While no unlock_context has gone wrong
\* the converse holds as well, and it is what makes ownership exclusive: a
\* core in the locked section finds the lock taken, so try_lock_context keeps
\* the other side out.
Guarded ==
  Undisturbed =>
    \A c \in Contexts : ApOwns(c) \/ BootOwns(c) => lock[c] = 1

LockInv == LockNotLeaked /\ MutualExclusion /\ Guarded

\* At first nobody holds a lock and nobody is in a locked section.
LEMMA LockInit == Init => LockInv
<1> SUFFICES ASSUME Init PROVE LockInv
  OBVIOUS
<1>1. \A c \in Contexts : lock[c] = 0 /\ ~ApOwns(c) /\ ~BootOwns(c)
  BY DEF Init, ApOwns, BootOwns, ApHolding, Accepting, BootHolding
<1> QED
  BY <1>1 DEF LockInv, LockNotLeaked, MutualExclusion, Guarded

\* Most steps touch no lock and leave every core on its side of it.
SameOwners ==
  /\ UNCHANGED locks
  /\ \A c \in Contexts : (ApOwns(c)' <=> ApOwns(c)) /\ (BootOwns(c)' <=> BootOwns(c))

\* Such a step cannot disturb the lock invariant.
LEMMA SameOwnersKeep == ASSUME LockInv, SameOwners PROVE LockInv'
  BY DEF LockInv, LockNotLeaked, MutualExclusion, Guarded, SameOwners, Undisturbed

\* A step that leaves core 0 alone concerns the owner of one lock only.
LEMMA ApLock ==
  ASSUME TypeOK, LockInv, NEW c \in APs, ApNext(c)
  PROVE  LockInv'
<1>0. c \in Contexts /\ c \in APs
  BY DEF APs, Contexts
<1>1. CASE LoopSetStarted(c)
  <2>1. SameOwners
    BY <1>0, <1>1 DEF SameOwners, TypeOK, LoopSetStarted, Step, BootKeeps,
       ApOwns, BootOwns, ApHolding, Accepting, BootHolding
  <2> QED
    BY <2>1, SameOwnersKeep
<1>2. CASE LoopSetReady(c)
  <2>1. SameOwners
    BY <1>0, <1>2 DEF SameOwners, TypeOK, LoopSetReady, Step, BootKeeps,
       ApOwns, BootOwns, ApHolding, Accepting, BootHolding
  <2> QED
    BY <2>1, SameOwnersKeep
<1>3. CASE LoopClearQueued(c)
  <2>1. SameOwners
    BY <1>0, <1>3 DEF SameOwners, TypeOK, LoopClearQueued, Step, BootKeeps,
       unlock_store, ApOwns, BootOwns, ApHolding, Accepting, BootHolding
  <2> QED
    BY <2>1, SameOwnersKeep
<1>4. CASE ApUnlockStore(c)
  BY <1>0, <1>4 DEF TypeOK, ApUnlockStore, Step, BootKeeps, unlock_store,
     unlock_exchange, LockInv, LockNotLeaked, MutualExclusion, Guarded,
     Undisturbed, ApOwns, BootOwns, ApHolding, Accepting, BootHolding
<1>5. CASE ApUnlockExchange(c)
  BY <1>0, <1>5 DEF TypeOK, ApUnlockExchange, Step, BootKeeps, unlock_exchange,
     LockInv, LockNotLeaked, MutualExclusion, Guarded, Undisturbed, ApOwns,
     BootOwns, ApHolding, Accepting, BootHolding
<1>6. CASE SpinFree(c)
  <2>1. SameOwners
    BY <1>0, <1>6 DEF SameOwners, TypeOK, SpinFree, Step, BootKeeps, ApOwns,
       BootOwns, ApHolding, Accepting, BootHolding
  <2> QED
    BY <2>1, SameOwnersKeep
<1>7. CASE CheckQueued(c)
  <2>1. SameOwners
    BY <1>0, <1>7 DEF SameOwners, TypeOK, CheckQueued, Step, BootKeeps, ApOwns,
       BootOwns, ApHolding, Accepting, BootHolding
  <2> QED
    BY <2>1, SameOwnersKeep
<1>8. CASE TryLock(c)
  BY <1>0, <1>8 DEF TypeOK, TryLock, Step, BootKeeps, try_lock_context,
     LockInv, LockNotLeaked, MutualExclusion, Guarded, Undisturbed, ApOwns,
     BootOwns, ApHolding, Accepting, BootHolding
<1>9. CASE TryLockFails(c)
  <2>1. SameOwners
    BY <1>0, <1>9 DEF SameOwners, TypeOK, TryLockFails, Step, BootKeeps,
       ApOwns, BootOwns, ApHolding, Accepting, BootHolding
  <2> QED
    BY <2>1, SameOwnersKeep
<1>10. CASE Recheck(c)
  <2>1. SameOwners
    BY <1>0, <1>10 DEF SameOwners, TypeOK, Recheck, Step, BootKeeps,
       unlock_store, ApOwns, BootOwns, ApHolding, Accepting, BootHolding
  <2> QED
    BY <2>1, SameOwnersKeep
<1>11. CASE AcceptJob(c)
  <2>1. SameOwners
    BY <1>0, <1>11 DEF SameOwners, TypeOK, AcceptJob, Step, BootKeeps, ApOwns,
       BootOwns, ApHolding, Accepting, BootHolding
  <2> QED
    BY <2>1, SameOwnersKeep
<1>12. CASE DequeueJob(c)
  <2>1. SameOwners
    BY <1>0, <1>12 DEF SameOwners, TypeOK, DequeueJob, Step, BootKeeps, ApOwns,
       BootOwns, ApHolding, Accepting, BootHolding
  <2> QED
    BY <2>1, SameOwnersKeep
<1>13. CASE ZeroFault(c)
  <2>1. SameOwners
    BY <1>0, <1>13 DEF SameOwners, TypeOK, ZeroFault, Step, BootKeeps, ApOwns,
       BootOwns, ApHolding, Accepting, BootHolding
  <2> QED
    BY <2>1, SameOwnersKeep
<1>14. CASE CallFunctions(c)
  <2>1. SameOwners
    BY <1>0, <1>14 DEF SameOwners, TypeOK, CallFunctions, Step, BootKeeps,
       ApOwns, BootOwns, ApHolding, Accepting, BootHolding
  <2> QED
    BY <2>1, SameOwnersKeep
<1>15. CASE FinishJob(c)
  <2>1. SameOwners
    BY <1>0, <1>15 DEF SameOwners, TypeOK, FinishJob, Step, BootKeeps,
       unlock_store, ApOwns, BootOwns, ApHolding, Accepting, BootHolding
  <2> QED
    BY <2>1, SameOwnersKeep
<1>16. CASE JobWrites(c)
  <2>1. SameOwners
    BY <1>0, <1>16 DEF SameOwners, TypeOK, JobWrites, Step, BootKeeps, ApOwns,
       BootOwns, ApHolding, Accepting, BootHolding
  <2> QED
    BY <2>1, SameOwnersKeep
<1>17. CASE JobProtectionFault(c)
  <2>1. SameOwners
    BY <1>0, <1>17 DEF SameOwners, TypeOK, JobProtectionFault, Step, BootKeeps,
       NoteFault, ApOwns, BootOwns, ApHolding, Accepting, BootHolding
  <2> QED
    BY <2>1, SameOwnersKeep
<1>18. CASE JobFault(c)
  <2>1. SameOwners
    BY <1>0, <1>18 DEF SameOwners, TypeOK, JobFault, Step, BootKeeps,
       NoteFault, ApOwns, BootOwns, ApHolding, Accepting, BootHolding
  <2> QED
    BY <2>1, SameOwnersKeep
<1>19. CASE JobDoubleFault(c)
  <2>1. SameOwners
    BY <1>0, <1>19 DEF SameOwners, TypeOK, JobDoubleFault, Step, BootKeeps,
       NoteFault, ApOwns, BootOwns, ApHolding, Accepting, BootHolding
  <2> QED
    BY <2>1, SameOwnersKeep
<1>20. CASE JobHangs(c)
  <2>1. SameOwners
    BY <1>0, <1>20 DEF SameOwners, TypeOK, JobHangs, Step, BootKeeps, ApOwns,
       BootOwns, ApHolding, Accepting, BootHolding
  <2> QED
    BY <2>1, SameOwnersKeep
<1>21. CASE JobReturns(c)
  <2>1. SameOwners
    BY <1>0, <1>21 DEF SameOwners, TypeOK, JobReturns, Step, BootKeeps, ApOwns,
       BootOwns, ApHolding, Accepting, BootHolding
  <2> QED
    BY <2>1, SameOwnersKeep
<1> QED
  BY <1>1, <1>2, <1>3, <1>4, <1>5, <1>6, <1>7, <1>8, <1>9, <1>10, <1>11,
     <1>12, <1>13, <1>14, <1>15, <1>16, <1>17, <1>18, <1>19, <1>20, <1>21 DEF
     ApNext, ApMoves, JobStep

\* Core 0 takes and releases only the lock of its target.
LEMMA BootLock ==
  ASSUME TypeOK, Located, LockInv, BootNext
  PROVE  LockInv'
<1>1. CASE SendError
  <2>1. SameOwners
    BY <1>1 DEF SameOwners, TypeOK, SendError, Go, Answer, Return, ApOwns,
       BootOwns, ApHolding, Accepting, BootHolding
  <2> QED
    BY <2>1, SameOwnersKeep
<1>2. CASE BootUnlockStore
  <2>1. target \in Contexts
    BY <1>2, OnCore DEF BootUnlockStore, Go, unlock_store, unlock_exchange,
       JobPath, Unlocking
  <2> QED
    BY <1>2, <2>1 DEF TypeOK, BootUnlockStore, Go, ApsKeep, unlock_store,
       unlock_exchange, LockInv, LockNotLeaked, MutualExclusion, Guarded,
       Undisturbed, ApOwns, BootOwns, ApHolding, Accepting, BootHolding
<1>3. CASE BootUnlockExchange
  <2>1. target \in Contexts
    BY <1>3, OnCore DEF BootUnlockExchange, unlock_exchange, JobPath, Unlocking
  <2> QED
    BY <1>3, <2>1 DEF TypeOK, BootUnlockExchange, ApsKeep, unlock_exchange,
       LockInv, LockNotLeaked, MutualExclusion, Guarded, Undisturbed, ApOwns,
       BootOwns, ApHolding, Accepting, BootHolding
<1>4. CASE HandleStart
  <2>1. SameOwners
    BY <1>4 DEF SameOwners, TypeOK, HandleStart, Go, ApsKeep, ApOwns, BootOwns,
       ApHolding, Accepting, BootHolding
  <2> QED
    BY <2>1, SameOwnersKeep
<1>5. CASE StartNext
  <2>1. SameOwners
    BY <1>5 DEF SameOwners, TypeOK, StartNext, StartLoopBody, Go, ApsKeep,
       ApOwns, BootOwns, ApHolding, Accepting, BootHolding
  <2> QED
    BY <2>1, SameOwnersKeep
<1>6. CASE StartCheck
  <2>1. SameOwners
    BY <1>6 DEF SameOwners, TypeOK, StartCheck, Go, ApsKeep, present, ApOwns,
       BootOwns, ApHolding, Accepting, BootHolding
  <2> QED
    BY <2>1, SameOwnersKeep
<1>7. CASE StartLock
  <2>1. target \in Contexts
    BY <1>7, OnCore DEF StartLock, Go, try_lock_context, JobPath, Unlocking
  <2> QED
    BY <1>7, <2>1 DEF TypeOK, StartLock, Go, ApsKeep, try_lock_context,
       LockInv, LockNotLeaked, MutualExclusion, Guarded, Undisturbed, ApOwns,
       BootOwns, ApHolding, Accepting, BootHolding
<1>8. CASE StartLockFails
  <2>1. SameOwners
    BY <1>8 DEF SameOwners, TypeOK, StartLockFails, Go, ApsKeep, ApOwns,
       BootOwns, ApHolding, Accepting, BootHolding
  <2> QED
    BY <2>1, SameOwnersKeep
<1>9. CASE StartTables
  <2>1. SameOwners
    BY <1>9 DEF SameOwners, TypeOK, StartTables, Go, ApsKeep, ApOwns, BootOwns,
       ApHolding, Accepting, BootHolding
  <2> QED
    BY <2>1, SameOwnersKeep
<1>10. CASE StartAp
  <2>1. target \in Contexts /\ target \in APs
    <3>1. boot \in StartPath \ {"start"} /\ boot = "start_ap"
      BY <1>10 DEF StartAp, Go, StartPath
    <3>2. target \in Contexts /\ target < NumCores
      BY <3>1, OnCore
    <3> QED
      BY <3>1, <3>2 DEF Located, Contexts, APs
  <2>2. BootOwns(target) /\ \A c \in Contexts : ~BootOwns(c)'
    BY <1>10 DEF StartAp, Go, BootOwns, BootHolding
  <2>3. \A c \in Contexts : IF c = target THEN ApOwns(c)'
                               ELSE ApOwns(c)' <=> ApOwns(c)
    BY <1>10, <2>1 DEF StartAp, TypeOK, ApOwns, ApHolding
  <2>4. lock' = lock /\ stolen' = stolen
    BY <1>10 DEF StartAp
  <2>5. \A c \in Contexts \ {target} : ~BootOwns(c)
    BY DEF BootOwns
  <2>6. LockNotLeaked'
    BY <2>1, <2>3, <2>4, <2>5 DEF LockInv, LockNotLeaked
  <2>7. MutualExclusion'
    BY <2>2 DEF MutualExclusion
  <2>8. Guarded'
    BY <2>1, <2>2, <2>3, <2>4 DEF LockInv, Guarded, Undisturbed
  <2> QED
    BY <2>6, <2>7, <2>8 DEF LockInv
<1>11. CASE StartApFails
  <2>1. SameOwners
    BY <1>11 DEF SameOwners, TypeOK, StartApFails, UnlockThen, ApsKeep, ApOwns,
       BootOwns, ApHolding, Accepting, BootHolding
  <2> QED
    BY <2>1, SameOwnersKeep
<1>12. CASE AcquireCheck
  <2>1. SameOwners
    BY <1>12 DEF SameOwners, TypeOK, AcquireCheck, Go, ApsKeep, present,
       ApOwns, BootOwns, ApHolding, Accepting, BootHolding
  <2> QED
    BY <2>1, SameOwnersKeep
<1>13. CASE AcquireLock
  <2>1. target \in Contexts
    BY <1>13, OnCore DEF AcquireLock, Go, try_lock_context, JobPath, Unlocking
  <2> QED
    BY <1>13, <2>1 DEF TypeOK, AcquireLock, Go, ApsKeep, try_lock_context,
       LockInv, LockNotLeaked, MutualExclusion, Guarded, Undisturbed, ApOwns,
       BootOwns, ApHolding, Accepting, BootHolding
<1>14. CASE AcquireLockFails
  <2>1. SameOwners
    BY <1>14 DEF SameOwners, TypeOK, AcquireLockFails, Go, ApsKeep, ApOwns,
       BootOwns, ApHolding, Accepting, BootHolding
  <2> QED
    BY <2>1, SameOwnersKeep
<1>15. CASE AcquireReady
  <2>1. SameOwners
    BY <1>15 DEF SameOwners, TypeOK, AcquireReady, Go, UnlockThen, ApsKeep,
       ApOwns, BootOwns, ApHolding, Accepting, BootHolding
  <2> QED
    BY <2>1, SameOwnersKeep
<1>16. CASE AcquireQueued
  <2>1. SameOwners
    BY <1>16 DEF SameOwners, TypeOK, AcquireQueued, Go, UnlockThen, ApsKeep,
       ApOwns, BootOwns, ApHolding, Accepting, BootHolding
  <2> QED
    BY <2>1, SameOwnersKeep
<1>17. CASE ClearJob
  <2>1. SameOwners
    BY <1>17 DEF SameOwners, TypeOK, ClearJob, Go, ApsKeep, ApOwns, BootOwns,
       ApHolding, Accepting, BootHolding
  <2> QED
    BY <2>1, SameOwnersKeep
<1>18. CASE FillJob
  <2>1. SameOwners
    BY <1>18 DEF SameOwners, TypeOK, FillJob, Go, ApsKeep, ApOwns, BootOwns,
       ApHolding, Accepting, BootHolding
  <2> QED
    BY <2>1, SameOwnersKeep
<1>19. CASE QueueJob
  <2>1. SameOwners
    BY <1>19 DEF SameOwners, TypeOK, QueueJob, Go, UnlockThen, ApOwns,
       BootOwns, ApHolding, Accepting, BootHolding
  <2> QED
    BY <2>1, SameOwnersKeep
<1>20. CASE SyncAccept
  <2>1. SameOwners
    BY <1>20 DEF SameOwners, TypeOK, SyncAccept, Go, ApOwns, BootOwns,
       ApHolding, Accepting, BootHolding
  <2> QED
    BY <2>1, SameOwnersKeep
<1>21. CASE WaitLock
  <2>1. SameOwners
    BY <1>21 DEF SameOwners, TypeOK, WaitLock, Go, ApsKeep, ApOwns, BootOwns,
       ApHolding, Accepting, BootHolding
  <2> QED
    BY <2>1, SameOwnersKeep
<1>22. CASE WaitTry
  <2>1. target \in Contexts
    BY <1>22, OnCore DEF WaitTry, Go, try_lock_context, JobPath, Unlocking
  <2> QED
    BY <1>22, <2>1 DEF TypeOK, WaitTry, Go, ApsKeep, try_lock_context, LockInv,
       LockNotLeaked, MutualExclusion, Guarded, Undisturbed, ApOwns, BootOwns,
       ApHolding, Accepting, BootHolding
<1>23. CASE WaitTryFails
  <2>1. SameOwners
    BY <1>23 DEF SameOwners, TypeOK, WaitTryFails, Go, ApsKeep, ApOwns,
       BootOwns, ApHolding, Accepting, BootHolding
  <2> QED
    BY <2>1, SameOwnersKeep
<1>24. CASE WaitReady
  <2>1. SameOwners
    BY <1>24 DEF SameOwners, TypeOK, WaitReady, Go, UnlockThen, ApsKeep,
       ApOwns, BootOwns, ApHolding, Accepting, BootHolding
  <2> QED
    BY <2>1, SameOwnersKeep
<1>25. CASE WaitQueued
  <2>1. SameOwners
    BY <1>25 DEF SameOwners, TypeOK, WaitQueued, UnlockThen, ApsKeep, ApOwns,
       BootOwns, ApHolding, Accepting, BootHolding
  <2> QED
    BY <2>1, SameOwnersKeep
<1>26. CASE WaitTick
  <2>1. SameOwners
    BY <1>26 DEF SameOwners, TypeOK, WaitTick, Go, ApsKeep, ApOwns, BootOwns,
       ApHolding, Accepting, BootHolding
  <2> QED
    BY <2>1, SameOwnersKeep
<1>27. CASE Waited
  <2>1. SameOwners
    BY <1>27 DEF SameOwners, TypeOK, Waited, Go, ApsKeep, ApOwns, BootOwns,
       ApHolding, Accepting, BootHolding
  <2> QED
    BY <2>1, SameOwnersKeep
<1>28. CASE HandleStatus
  <2>1. SameOwners
    BY <1>28 DEF SameOwners, TypeOK, HandleStatus, Go, ApsKeep, ApOwns,
       BootOwns, ApHolding, Accepting, BootHolding
  <2> QED
    BY <2>1, SameOwnersKeep
<1>29. CASE SampleReady
  <2>1. SameOwners
    BY <1>29 DEF SameOwners, TypeOK, SampleReady, Go, ApsKeep, ApOwns,
       BootOwns, ApHolding, Accepting, BootHolding
  <2> QED
    BY <2>1, SameOwnersKeep
<1>30. CASE SampleQueued
  <2>1. SameOwners
    BY <1>30 DEF SameOwners, TypeOK, SampleQueued, Go, ApsKeep, ApOwns,
       BootOwns, ApHolding, Accepting, BootHolding
  <2> QED
    BY <2>1, SameOwnersKeep
<1>31. CASE SampleLock
  <2>1. SameOwners
    BY <1>31 DEF SameOwners, TypeOK, SampleLock, Go, ApsKeep, ApOwns, BootOwns,
       ApHolding, Accepting, BootHolding
  <2> QED
    BY <2>1, SameOwnersKeep
<1>32. CASE SampleFault
  <2>1. SameOwners
    BY <1>32 DEF SameOwners, TypeOK, SampleFault, Go, ApsKeep, ApOwns,
       BootOwns, ApHolding, Accepting, BootHolding
  <2> QED
    BY <2>1, SameOwnersKeep
<1>33. CASE Respond
  <2>1. SameOwners
    BY <1>33 DEF SameOwners, TypeOK, Respond, Go, Answer, Return, ApOwns,
       BootOwns, ApHolding, Accepting, BootHolding
  <2> QED
    BY <2>1, SameOwnersKeep
<1>34. CASE Receive
  <2>1. SameOwners
    BY <1>34 DEF SameOwners, TypeOK, Receive, Go, ApsKeep, ApOwns, BootOwns,
       ApHolding, Accepting, BootHolding
  <2> QED
    BY <2>1, SameOwnersKeep
<1>35. CASE SyncReturns
  <2>1. SameOwners
    BY <1>35 DEF SameOwners, TypeOK, SyncReturns, UnlockThen, ApOwns, BootOwns,
       ApHolding, Accepting, BootHolding
  <2> QED
    BY <2>1, SameOwnersKeep
<1> QED
  BY <1>1, <1>2, <1>3, <1>4, <1>5, <1>6, <1>7, <1>8, <1>9, <1>10, <1>11,
     <1>12, <1>13, <1>14, <1>15, <1>16, <1>17, <1>18, <1>19, <1>20, <1>21,
     <1>22, <1>23, <1>24, <1>25, <1>26, <1>27, <1>28, <1>29, <1>30, <1>31,
     <1>32, <1>33, <1>34, <1>35 DEF BootNext, BootMoves

\* The lock invariant is inductive relative to the type invariant.
LEMMA LockStep == TypeInv /\ LockInv /\ [Next]_vars => LockInv'
<1> SUFFICES ASSUME TypeInv, LockInv, [Next]_vars PROVE LockInv'
  OBVIOUS
<1>1. CASE BootNext
  BY <1>1, BootLock DEF TypeInv
<1>2. ASSUME NEW c \in APs, ApNext(c) PROVE LockInv'
  BY <1>2, ApLock DEF TypeInv
<1>3. CASE UNCHANGED vars
  <2>1. SameOwners
    BY <1>3 DEF vars, SameOwners, ApOwns, BootOwns
  <2> QED
    BY <2>1, SameOwnersKeep
<1> QED
  BY <1>1, <1>2, <1>3 DEF Next

\* The lock invariant holds throughout.
LEMMA LockCorrect == Spec => []LockInv
<1>1. Spec => [](TypeInv /\ LockInv)
  <2>1. Init => TypeInv /\ LockInv
    BY TypeInit, LockInit
  <2>2. TypeInv /\ LockInv /\ [Next]_vars => TypeInv' /\ LockInv'
    BY TypeStep, LockStep
  <2> QED
    BY <2>1, <2>2, PTL DEF Spec
<1> QED
  BY <1>1, PTL

\* No path through the locked sections of the code leaves the lock behind.
THEOREM NoLockLeaks == Spec => []LockNotLeaked
<1>1. LockInv => LockNotLeaked
  BY DEF LockInv
<1> QED
  BY <1>1, LockCorrect, PTL

\* Core 0 and an AP never both work in the section the lock guards, unless
\* the second write of unlock_context has released a lock the other side had
\* just taken.
THEOREM OwnersExclude == Spec => []MutualExclusion
<1>1. LockInv => MutualExclusion
  BY DEF LockInv
<1> QED
  BY <1>1, LockCorrect, PTL
=============================================================================
