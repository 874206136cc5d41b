------------------------------ MODULE CoreJobs ------------------------------
(***************************************************************************)
(* The job protocol between the boot core and the application processors   *)
(* (APs) of AngryUEFI: handlers/cores.c, the job handlers of               *)
(* handlers/ucode_execute.c and handle_read_msr_on_core of                 *)
(* handlers/ucode.c.                                                       *)
(*                                                                         *)
(* Core 0 serves one request at a time.  Each AP spins in core_main_loop   *)
(* over its CoreContext.  The two sides share nothing but that context and *)
(* are never descheduled together, so every action below makes at most one *)
(* access to a field the other side writes; runs of accesses to private    *)
(* data are one action.  Accesses take effect in program order (x86 and    *)
(* the locked cmpxchg in each critical section).                           *)
(***************************************************************************)
EXTENDS Integers

CONSTANTS
  NumCores,       \* get_available_cores(): processors the firmware reports
  MaxCoreCount,   \* MAX_CORE_COUNT: contexts in core_contexts
  MaxRequests,    \* bound: requests core 0 receives in one run
  Timeouts,       \* timeouts a client may ask for; 0 means "wait for ever"
  MsrTimeout      \* iterations handle_read_msr_on_core waits (100 in the code)

ASSUME CoreCounts == NumCores \in Nat \ {0} /\ MaxCoreCount \in Nat \ {0}
ASSUME RequestBound == MaxRequests \in Nat
ASSUME TimeoutRange == Timeouts \subseteq Nat /\ MsrTimeout \in Nat \ {0}

Contexts == 0 .. MaxCoreCount - 1
APs == {c \in Contexts : 0 < c /\ c < NumCores}
Requests == 1 .. MaxRequests

(***************************************************************************)
(* A core function slot: which function the first non-NULL slot holds and, *)
(* as history, the request that put it there (0: slots are all NULL).      *)
(***************************************************************************)
Call == [func : {"null", "code", "read_msr"}, id : 0 .. MaxRequests]
NullCall == [func |-> "null", id |-> 0]

VARIABLES
  ctx,         \* the CoreContext of every core, see Context
  lock,        \* context->lock, 0 or 1
  pc,          \* where each AP is
  running,     \* the call the AP has loaded from its slots
  boot,        \* where core 0 is
  back,        \* where core 0 continues after unlock_context
  req,         \* the request core 0 is serving
  served,      \* number of requests received; the id of the current one
  target,      \* the core whose context core 0 works on
  iterations,  \* of wait_on_ap_exec
  late,        \* what wait_on_ap_exec returned: was the timeout reached?
  sample       \* flags send_core_status or the job handler has read

\* History: what happened to each request's job, what each client was told.
VARIABLES
  job,         \* "none", "queued", "running", "done", "aborted" per request
  tripped,     \* requests whose job raised a fault
  reply,       \* the response sent per request
  stolen       \* contexts whose lock the cmpxchg of unlock_context has
               \* released although the other side had taken it

locks == <<lock, stolen>>
ap == <<pc, running>>
request == <<req, served, target>>
wait == <<iterations, late, sample>>
outcome == <<job, tripped, reply>>
vars == <<ctx, locks, ap, boot, back, request, wait, outcome>>

Context == [started : {0, 1}, ready : {0, 1}, job_queued : {0, 1},
            fault_info : {"null", "clear", "set"},  \* pointer, then flag
            slot : Call,                \* core_functions
            result : 0 .. MaxRequests]  \* whose output result_buffer holds
NoReply == [kind |-> "none", flags |-> {}, result |-> 0]
Reply == [kind : {"none", "error", "status", "result", "msr"},
          flags : SUBSET {"timeout", "fault"},
          result : 0 .. MaxRequests]
Sample == [ready : {0, 1}, queued : {0, 1}, lock : {0, 1}, fault : BOOLEAN]
NoSample == [ready |-> 0, queued |-> 0, lock |-> 0, fault |-> FALSE]

\* Requests a client can send.  "start" with core 0 means every core.
\* Core ids are UINT32 or UINT64 values chosen by the client: two beyond the
\* array show both sides of every range check.
Request ==
  [op : {"start", "status", "last"}, core : 0 .. MaxCoreCount + 1,
   timeout : {0}]
  \cup [op : {"code"}, core : 0 .. MaxCoreCount + 1, timeout : Timeouts]
  \cup [op : {"read_msr"}, core : 0 .. MaxCoreCount + 1, timeout : {MsrTimeout}]
NoRequest == [op |-> "none", core |-> 0, timeout |-> 0]

present(c) == c < NumCores

Init ==
  /\ ctx = [c \in Contexts |->
              LET up == IF c = 0 THEN 1 ELSE 0 IN
              [started |-> up, ready |-> up, job_queued |-> 0,
               fault_info |-> "null", slot |-> NullCall, result |-> 0]]
  /\ lock = [c \in Contexts |-> 0]
  /\ pc = [c \in APs |-> "off"]
  /\ running = [c \in APs |-> NullCall]
  /\ boot = "idle" /\ req = NoRequest /\ served = 0 /\ target = 0
  /\ back = "idle" /\ iterations = 0 /\ late = FALSE /\ sample = NoSample
  /\ job = [r \in Requests |-> "none"]
  /\ tripped = {}
  /\ reply = [r \in Requests |-> NoReply]
  /\ stolen = {}

-----------------------------------------------------------------------------
(***************************************************************************)
(* The lock.  unlock_context stores 0 and then also exchanges 1 for 0: the *)
(* second write releases the lock again if the other side has taken it in  *)
(* between.                                                                *)
(***************************************************************************)
try_lock_context(c) ==
  lock[c] = 0 /\ lock' = [lock EXCEPT ![c] = 1] /\ UNCHANGED stolen

unlock_store(c) == lock' = [lock EXCEPT ![c] = 0] /\ UNCHANGED stolen

\* Mutant: unlock by decrementing.
unlock_exchange_Decrement(c) ==
  lock' = [lock EXCEPT ![c] = @ - 1] /\ UNCHANGED stolen
unlock_exchange(c) ==
  /\ lock' = [lock EXCEPT ![c] = 0]
  /\ stolen' = IF lock[c] = 1 THEN stolen \cup {c} ELSE stolen

-----------------------------------------------------------------------------
(***************************************************************************)
(* An AP: core_main_loop and handle_job.                                   *)
(***************************************************************************)
Step(c, from, to) == pc[c] = from /\ pc' = [pc EXCEPT ![c] = to]
BootKeeps == UNCHANGED <<boot, back, request, wait>>

\* IDT, CR3, IBS and DSM set-up touch this core only; then started = 1.
LoopSetStarted(c) ==
  /\ Step(c, "init", "set_ready")
  /\ ctx' = [ctx EXCEPT ![c].started = 1]
  /\ BootKeeps /\ UNCHANGED <<locks, running, outcome>>

LoopSetReady(c) ==
  /\ Step(c, "set_ready", "clear_queued")
  /\ ctx' = [ctx EXCEPT ![c].ready = 1]
  /\ BootKeeps /\ UNCHANGED <<locks, running, outcome>>

LoopClearQueued(c) ==
  /\ Step(c, "clear_queued", "unlock_store")
  /\ ctx' = [ctx EXCEPT ![c].job_queued = 0]
  /\ BootKeeps /\ UNCHANGED <<locks, running, outcome>>

ApUnlockStore(c) ==
  /\ Step(c, "unlock_store", "unlock_exchange")
  /\ unlock_store(c)
  /\ BootKeeps /\ UNCHANGED <<ctx, running, outcome>>

ApUnlockExchange(c) ==
  /\ Step(c, "unlock_exchange", "spin")
  /\ unlock_exchange(c)
  /\ BootKeeps /\ UNCHANGED <<ctx, running, outcome>>

\* if (context->lock) continue: the AP stays here while the lock is taken.
SpinFree(c) ==
  /\ Step(c, "spin", "check")
  /\ lock[c] = 0
  /\ BootKeeps /\ UNCHANGED <<ctx, locks, running, outcome>>

CheckQueued(c) ==
  /\ Step(c, "check", IF ctx[c].job_queued # 0 THEN "try" ELSE "spin")
  /\ BootKeeps /\ UNCHANGED <<ctx, locks, running, outcome>>

\* Mutant: test and set apart, so the test may be out of date.
TryLock_NotAtomic(c) ==
  /\ Step(c, "try", "recheck")
  /\ lock' = [lock EXCEPT ![c] = 1] /\ UNCHANGED stolen
  /\ BootKeeps /\ UNCHANGED <<ctx, running, outcome>>
TryLock(c) ==
  /\ Step(c, "try", "recheck")
  /\ try_lock_context(c)
  /\ BootKeeps /\ UNCHANGED <<ctx, running, outcome>>

TryLockFails(c) ==
  /\ Step(c, "try", "spin")
  /\ lock[c] = 1
  /\ BootKeeps /\ UNCHANGED <<ctx, locks, running, outcome>>

Recheck(c) ==
  /\ Step(c, "recheck", IF ctx[c].job_queued # 0 THEN "accept" ELSE "unlock_store")
  /\ BootKeeps /\ UNCHANGED <<ctx, locks, running, outcome>>

AcceptJob(c) ==
  /\ Step(c, "accept", "dequeue")
  /\ ctx' = [ctx EXCEPT ![c].ready = 0]
  /\ BootKeeps /\ UNCHANGED <<locks, running, outcome>>

\* Mutant: job_queued stays set.
DequeueJob_Forgotten(c) ==
  /\ Step(c, "dequeue", "zero_fault")
  /\ BootKeeps /\ UNCHANGED <<ctx, locks, running, outcome>>
DequeueJob(c) ==
  /\ Step(c, "dequeue", "zero_fault")
  /\ ctx' = [ctx EXCEPT ![c].job_queued = 0]
  /\ BootKeeps /\ UNCHANGED <<locks, running, outcome>>

\* Mutant: the previous job's fault stays.
ZeroFault_Skipped(c) ==
  /\ Step(c, "zero_fault", "call")
  /\ BootKeeps /\ UNCHANGED <<ctx, locks, running, outcome>>
ZeroFault(c) ==
  /\ Step(c, "zero_fault", "call")
  /\ ctx' = [ctx EXCEPT ![c].fault_info = "clear"]
  /\ BootKeeps /\ UNCHANGED <<locks, running, outcome>>

\* call_core_functions loads the slots; NULL slots call nothing.
CallFunctions(c) ==
  LET call == ctx[c].slot IN
  /\ Step(c, "call", IF call.func = "null" THEN "finish" ELSE "exec")
  /\ running' = [running EXCEPT ![c] = call]
  /\ job' = IF call.func = "null" THEN job
            ELSE [job EXCEPT ![call.id] = "running"]
  /\ BootKeeps /\ UNCHANGED <<ctx, locks, tripped, reply>>

(***************************************************************************)
(* What the called function may do, in any number of steps: write its      *)
(* output, take a #GP (the handler notes it and resumes behind the         *)
(* instruction), take another fault (the handler notes it and resumes at   *)
(* core_main_loop, the context still locked), execute INT 8 (the double    *)
(* fault handler, whose frame then has no error code, leaves the core in   *)
(* dummy_loop; for a fault the processor raises see FaultHandlers),        *)
(* return, or never return.  read_msr executes one rdmsr and writes the    *)
(* caller's buffer.                                                        *)
(***************************************************************************)
NoteFault(c) ==
  /\ ctx' = [ctx EXCEPT ![c].fault_info = "set"]
  /\ tripped' = tripped \cup {running[c].id}

JobWrites(c) ==
  /\ Step(c, "exec", "exec") /\ running[c].func = "code"
  /\ ctx' = [ctx EXCEPT ![c].result = running[c].id]
  /\ BootKeeps /\ UNCHANGED <<locks, running, outcome>>

JobProtectionFault(c) ==
  /\ Step(c, "exec", "exec")
  /\ NoteFault(c)
  /\ BootKeeps /\ UNCHANGED <<locks, running, job, reply>>

\* Mutant: the handler resumes without noting the fault.
JobFault_Unnoted(c) ==
  /\ Step(c, "exec", "init") /\ running[c].func = "code"
  /\ job' = [job EXCEPT ![running[c].id] = "aborted"]
  /\ BootKeeps /\ UNCHANGED <<ctx, locks, running, tripped, reply>>
JobFault(c) ==
  /\ Step(c, "exec", "init") /\ running[c].func = "code"
  /\ NoteFault(c)
  /\ job' = [job EXCEPT ![running[c].id] = "aborted"]
  /\ BootKeeps /\ UNCHANGED <<locks, running, reply>>

JobDoubleFault(c) ==
  /\ Step(c, "exec", "dead") /\ running[c].func = "code"
  /\ NoteFault(c)
  /\ BootKeeps /\ UNCHANGED <<locks, running, job, reply>>

JobHangs(c) ==
  /\ Step(c, "exec", "dead") /\ running[c].func = "code"
  /\ BootKeeps /\ UNCHANGED <<ctx, locks, running, outcome>>

JobReturns(c) ==
  /\ Step(c, "exec", "finish")
  /\ job' = [job EXCEPT ![running[c].id] = "done"]
  /\ BootKeeps /\ UNCHANGED <<ctx, locks, running, tripped, reply>>

\* Mutant: ready is not set again.
FinishJob_NotReady(c) ==
  /\ Step(c, "finish", "unlock_store")
  /\ BootKeeps /\ UNCHANGED <<ctx, locks, running, outcome>>
FinishJob(c) ==
  /\ Step(c, "finish", "unlock_store")
  /\ ctx' = [ctx EXCEPT ![c].ready = 1]
  /\ BootKeeps /\ UNCHANGED <<locks, running, outcome>>

\* The steps an AP takes by itself: all but what the job it runs does.
ApMoves(c) ==
  \/ LoopSetStarted(c) \/ LoopSetReady(c) \/ LoopClearQueued(c)
  \/ ApUnlockStore(c) \/ ApUnlockExchange(c)
  \/ SpinFree(c) \/ CheckQueued(c)
  \/ TryLock(c) \/ TryLockFails(c) \/ Recheck(c)
  \/ AcceptJob(c) \/ DequeueJob(c) \/ ZeroFault(c) \/ CallFunctions(c)
  \/ FinishJob(c)

JobStep(c) ==
  \/ JobWrites(c) \/ JobProtectionFault(c) \/ JobFault(c)
  \/ JobDoubleFault(c) \/ JobHangs(c) \/ JobReturns(c)

ApNext(c) == ApMoves(c) \/ JobStep(c)

-----------------------------------------------------------------------------
(***************************************************************************)
(* Core 0: one request at a time, handled to the end before the next.      *)
(***************************************************************************)
Go(from, to) == boot = from /\ boot' = to /\ UNCHANGED back
UnlockThen(from, to) == boot = from /\ boot' = "unlock_store" /\ back' = to
ApsKeep == UNCHANGED <<ap, outcome>>

Receive ==
  /\ served < MaxRequests /\ served' = served + 1
  /\ \E r \in Request :
       /\ Go("idle", CASE r.op = "start" -> "start"
                       [] r.op \in {"code", "read_msr"} -> "acquire"
                       [] OTHER -> "status")
       /\ req' = r /\ target' = r.core
  /\ ApsKeep /\ UNCHANGED <<ctx, locks, wait>>

\* The message handler returns; its locals are gone.
Return ==
  /\ req' = NoRequest /\ target' = 0
  /\ iterations' = 0 /\ late' = FALSE /\ sample' = NoSample
  /\ UNCHANGED served

Answer(kind, flags, out) ==
  reply' = [reply EXCEPT ![served] =
              [kind |-> kind, flags |-> flags, result |-> out]]

SendError ==
  /\ Go("reject", "idle")
  /\ Answer("error", {}, 0)
  /\ Return /\ UNCHANGED <<ctx, locks, ap, job, tripped>>

BootUnlockStore ==
  /\ Go("unlock_store", "unlock_exchange")
  /\ unlock_store(target)
  /\ ApsKeep /\ UNCHANGED <<ctx, request, wait>>

BootUnlockExchange ==
  /\ boot = "unlock_exchange" /\ boot' = back /\ back' = "idle"
  /\ unlock_exchange(target)
  /\ ApsKeep /\ UNCHANGED <<ctx, request, wait>>

(***************************************************************************)
(* handle_start_core and start_core.  "stray" stands for what follows a    *)
(* read behind the end of core_contexts, which nothing defines.            *)
(***************************************************************************)
HandleStart ==
  /\ Go("start", CASE req.core > MaxCoreCount -> "reject"
                   [] req.core = 0 -> "start_next"
                   [] OTHER -> "start_check")
  /\ target' = IF req.core = 0 THEN 1 ELSE req.core
  /\ ApsKeep /\ UNCHANGED <<ctx, locks, req, served, wait>>

\* The loop over all cores: done, skip a started core, or start the next.  It
\* is bounded by the processors, not by the contexts: with more processors it
\* reads behind the array, and goes on from there as what it reads makes it.
StartLoopBody ==
  \/ target \notin Contexts /\ Go("start_next", "stray") /\ UNCHANGED target
  \/ /\ target \in Contexts /\ ctx[target].started = 1
     /\ Go("start_next", "start_next") /\ target' = target + 1
  \/ /\ target \in Contexts /\ ctx[target].started = 0
     /\ Go("start_next", "start_check") /\ UNCHANGED target

\* Mutant: the loop ends one core early.
StartNext_SkipsLast ==
  /\ IF target >= NumCores - 1
     THEN Go("start_next", "respond") /\ UNCHANGED target
     ELSE StartLoopBody
  /\ ApsKeep /\ UNCHANGED <<ctx, locks, req, served, wait>>
StartNext ==
  /\ IF target >= NumCores
     THEN Go("start_next", "respond") /\ UNCHANGED target
     ELSE StartLoopBody
  /\ ApsKeep /\ UNCHANGED <<ctx, locks, req, served, wait>>

StartCheck ==
  /\ Go("start_check", IF target \notin Contexts THEN "stray"
                       ELSE IF ~present(target) \/ ctx[target].started = 1
                       THEN "reject" ELSE "start_lock")
  /\ ApsKeep /\ UNCHANGED <<ctx, locks, request, wait>>

StartLock ==
  /\ Go("start_lock", "start_tables")
  /\ try_lock_context(target)
  /\ ApsKeep /\ UNCHANGED <<ctx, request, wait>>

StartLockFails ==
  /\ Go("start_lock", "reject")
  /\ lock[target] = 1
  /\ ApsKeep /\ UNCHANGED <<ctx, locks, request, wait>>

\* init_fault_handlers_on_core allocates a zeroed CoreFaultInfo.
StartTables ==
  /\ Go("start_tables", "start_ap")
  /\ ctx' = [ctx EXCEPT ![target].fault_info = "clear"]
  /\ ApsKeep /\ UNCHANGED <<locks, request, wait>>

\* StartupThisAP succeeds: the AP enters core_main_loop_entry_point and owns
\* the lock core 0 took.  The firmware refuses an AP that is not idle, and may
\* fail for reasons of its own.
StartAp ==
  /\ Go("start_ap", IF req.core = 0 THEN "start_next" ELSE "respond")
  /\ target' = IF req.core = 0 THEN target + 1 ELSE target
  /\ pc[target] = "off"
  /\ pc' = [pc EXCEPT ![target] = "init"]
  /\ UNCHANGED <<ctx, locks, running, req, served, wait, outcome>>

StartApFails ==
  /\ UnlockThen("start_ap", "reject")
  /\ ApsKeep /\ UNCHANGED <<ctx, locks, request, wait>>

(***************************************************************************)
(* acquire_core_lock_for_job.                                              *)
(***************************************************************************)
AcquireCheck ==
  /\ Go("acquire",
        IF req.op = "read_msr" /\ req.core = 0 THEN "respond"
        ELSE IF req.core >= MaxCoreCount \/ ~present(req.core) THEN "reject"
        ELSE IF ctx[req.core].started = 1 THEN "acquire_lock" ELSE "reject")
  /\ ApsKeep /\ UNCHANGED <<ctx, locks, request, wait>>

AcquireLock ==
  /\ Go("acquire_lock", "acquire_ready")
  /\ try_lock_context(target)
  /\ ApsKeep /\ UNCHANGED <<ctx, request, wait>>

AcquireLockFails ==
  /\ Go("acquire_lock", "reject")
  /\ lock[target] = 1
  /\ ApsKeep /\ UNCHANGED <<ctx, locks, request, wait>>

AcquireReady ==
  /\ \/ Go("acquire_ready", "acquire_queued") /\ ctx[target].ready = 1
     \/ UnlockThen("acquire_ready", "reject") /\ ctx[target].ready # 1
  /\ ApsKeep /\ UNCHANGED <<ctx, locks, request, wait>>

\* Mutant: ready alone is taken for "nothing outstanding".
AcquireQueued_IgnoresQueue ==
  /\ Go("acquire_queued", "clear")
  /\ ApsKeep /\ UNCHANGED <<ctx, locks, request, wait>>
\* Mutant: a core with a queued job is refused without unlocking it.
AcquireQueued_KeepsLock ==
  /\ Go("acquire_queued", IF ctx[target].job_queued # 1 THEN "clear" ELSE "reject")
  /\ ApsKeep /\ UNCHANGED <<ctx, locks, request, wait>>
AcquireQueued ==
  /\ \/ Go("acquire_queued", "clear") /\ ctx[target].job_queued # 1
     \/ UnlockThen("acquire_queued", "reject") /\ ctx[target].job_queued = 1
  /\ ApsKeep /\ UNCHANGED <<ctx, locks, request, wait>>

(***************************************************************************)
(* The job handlers: write the job, queue it and, for core 0, run it here. *)
(***************************************************************************)
\* Mutant: the result buffer is not zeroed.
ClearJob_KeepsResult ==
  /\ Go("clear", "fill")
  /\ ctx' = [ctx EXCEPT ![target].slot = NullCall]
  /\ ApsKeep /\ UNCHANGED <<locks, request, wait>>

\* clear_core_functions; only code jobs also zero the result buffer.
ClearJob ==
  /\ Go("clear", "fill")
  /\ ctx' = [ctx EXCEPT ![target].slot = NullCall,
                        ![target].result = IF req.op = "code" THEN 0 ELSE @]
  /\ ApsKeep /\ UNCHANGED <<locks, request, wait>>

FillJob ==
  /\ Go("fill", "queue")
  /\ ctx' = [ctx EXCEPT ![target].slot = [func |-> req.op, id |-> served]]
  /\ ApsKeep /\ UNCHANGED <<locks, request, wait>>

\* Mutant: core 0 waits for the AP without unlocking.
QueueJob_KeepsLock ==
  /\ Go("queue", IF target = 0 THEN "sync_accept" ELSE "wait_lock")
  /\ ctx' = [ctx EXCEPT ![target].job_queued = 1]
  /\ job' = [job EXCEPT ![served] = "queued"]
  /\ UNCHANGED <<locks, ap, request, wait, tripped, reply>>
QueueJob ==
  /\ \/ Go("queue", "sync_accept") /\ target = 0
     \/ UnlockThen("queue", "wait_lock") /\ target # 0
  /\ ctx' = [ctx EXCEPT ![target].job_queued = 1]
  /\ job' = [job EXCEPT ![served] = "queued"]
  /\ UNCHANGED <<locks, ap, request, wait, tripped, reply>>

SyncAccept ==
  /\ Go("sync_accept", "sync_call")
  /\ ctx' = [ctx EXCEPT ![0].ready = 0, ![0].job_queued = 0]
  /\ job' = [job EXCEPT ![served] = "running"]
  /\ UNCHANGED <<locks, ap, request, wait, tripped, reply>>

\* The job returns, with or without output; it may also never return.
SyncReturns ==
  /\ UnlockThen("sync_call", "respond")
  /\ \E out \in {0, served} :
       ctx' = [ctx EXCEPT ![0].ready = 1, ![0].result = out]
  /\ job' = [job EXCEPT ![served] = "done"]
  /\ UNCHANGED <<locks, ap, request, wait, tripped, reply>>

(***************************************************************************)
(* wait_on_ap_exec and what the job handlers do after it.                  *)
(***************************************************************************)
\* Mutant: while the context is locked no time is counted.
WaitLock_NoTick ==
  /\ Go("wait_lock", IF lock[target] = 0 THEN "wait_try" ELSE "wait_lock")
  /\ ApsKeep /\ UNCHANGED <<ctx, locks, request, wait>>
WaitLock ==
  /\ Go("wait_lock", IF lock[target] = 0 THEN "wait_try" ELSE "wait_tick")
  /\ ApsKeep /\ UNCHANGED <<ctx, locks, request, wait>>

WaitTry ==
  /\ Go("wait_try", "wait_ready")
  /\ try_lock_context(target)
  /\ ApsKeep /\ UNCHANGED <<ctx, request, wait>>

WaitTryFails ==
  /\ Go("wait_try", "wait_tick")
  /\ lock[target] = 1
  /\ ApsKeep /\ UNCHANGED <<ctx, locks, request, wait>>

WaitReady ==
  /\ \/ Go("wait_ready", "wait_queued") /\ ctx[target].ready = 1
     \/ UnlockThen("wait_ready", "wait_tick") /\ ctx[target].ready # 1
  /\ ApsKeep /\ UNCHANGED <<ctx, locks, request, wait>>

\* Mutant: ready alone is taken for "job finished".
WaitQueued_IgnoresQueue ==
  /\ UnlockThen("wait_queued", "waited")
  /\ ApsKeep /\ UNCHANGED <<ctx, locks, request, wait>>
WaitQueued ==
  /\ UnlockThen("wait_queued",
                IF ctx[target].job_queued = 0 THEN "waited" ELSE "wait_tick")
  /\ ApsKeep /\ UNCHANGED <<ctx, locks, request, wait>>

\* Stall(1000) and count, or, with timeout 0, CpuPause.
WaitTick ==
  /\ \/ req.timeout = 0 /\ Go("wait_tick", "wait_lock") /\ UNCHANGED wait
     \/ /\ req.timeout # 0
        /\ iterations' = iterations + 1
        /\ late' = (iterations + 1 >= req.timeout)
        /\ Go("wait_tick", IF late' THEN "waited" ELSE "wait_lock")
        /\ UNCHANGED sample
  /\ ApsKeep /\ UNCHANGED <<ctx, locks, request>>

\* Code jobs read fault_occured; a late read_msr is an error (status 0x2).
Waited ==
  /\ Go("waited", IF req.op = "read_msr" /\ late THEN "reject" ELSE "respond")
  /\ sample' = [sample EXCEPT !.fault =
                  (req.op = "code" /\ ctx[target].fault_info = "set")]
  /\ ApsKeep /\ UNCHANGED <<ctx, locks, request, iterations, late>>

(***************************************************************************)
(* GETCORESTATUS and GETLASTTESTRESULT: send_core_status reads the flags   *)
(* without the lock, one after the other, and only then is the result of   *)
(* GETLASTTESTRESULT copied.                                               *)
(***************************************************************************)
HandleStatus ==
  /\ Go("status", CASE req.core > MaxCoreCount -> "reject"
                    [] req.core = MaxCoreCount -> "stray"
                    [] OTHER -> "sample_ready")
  /\ ApsKeep /\ UNCHANGED <<ctx, locks, request, wait>>

SampleReady ==
  /\ Go("sample_ready", "sample_queued")
  /\ sample' = [sample EXCEPT !.ready = ctx[target].ready]
  /\ ApsKeep /\ UNCHANGED <<ctx, locks, request, iterations, late>>

SampleQueued ==
  /\ Go("sample_queued", "sample_lock")
  /\ sample' = [sample EXCEPT !.queued = ctx[target].job_queued]
  /\ ApsKeep /\ UNCHANGED <<ctx, locks, request, iterations, late>>

\* Mutant: the lock is not reported.
SampleLock_Skipped ==
  /\ Go("sample_lock", "sample_fault")
  /\ ApsKeep /\ UNCHANGED <<ctx, locks, request, wait>>
SampleLock ==
  /\ Go("sample_lock", "sample_fault")
  /\ sample' = [sample EXCEPT !.lock = lock[target]]
  /\ ApsKeep /\ UNCHANGED <<ctx, locks, request, iterations, late>>

SampleFault ==
  /\ Go("sample_fault", "respond")
  /\ sample' = [sample EXCEPT !.fault = (ctx[target].fault_info = "set")]
  /\ ApsKeep /\ UNCHANGED <<ctx, locks, request, iterations, late>>

(***************************************************************************)
(* The last message of a handler: send_status, send_core_status,           *)
(* send_result_message or send_msr_response.                               *)
(***************************************************************************)
Respond ==
  /\ Go("respond", "idle")
  /\ CASE req.op \in {"start", "status"} -> Answer("status", {}, 0)
       [] req.op = "read_msr" -> Answer("msr", {}, 0)
       [] req.op = "last" -> Answer("result", {}, ctx[target].result)
       [] OTHER -> Answer("result",
                          {f \in {"timeout", "fault"} :
                             IF f = "timeout" THEN late ELSE sample.fault},
                          ctx[target].result)
  /\ Return /\ UNCHANGED <<ctx, locks, ap, job, tripped>>

\* The steps core 0 takes by itself: all but the arrival of a request and the
\* return of a job it runs.
BootMoves ==
  \/ SendError \/ BootUnlockStore \/ BootUnlockExchange
  \/ HandleStart \/ StartNext \/ StartCheck \/ StartLock \/ StartLockFails
  \/ StartTables \/ StartAp \/ StartApFails
  \/ AcquireCheck \/ AcquireLock \/ AcquireLockFails
  \/ AcquireReady \/ AcquireQueued
  \/ ClearJob \/ FillJob \/ QueueJob \/ SyncAccept
  \/ WaitLock \/ WaitTry \/ WaitTryFails \/ WaitReady \/ WaitQueued
  \/ WaitTick \/ Waited
  \/ HandleStatus \/ SampleReady \/ SampleQueued \/ SampleLock \/ SampleFault
  \/ Respond

BootNext == BootMoves \/ Receive \/ SyncReturns

Next == BootNext \/ \E c \in APs : ApNext(c)

Spec == Init /\ [][Next]_vars

(***************************************************************************)
(* Core 0 and each AP are processors of their own: a step they can take    *)
(* they do take.  Nothing makes a job return or a client send a request.   *)
(* The APs' part is an antecedent of the properties that need it.          *)
(***************************************************************************)
BootFairSpec == Spec /\ WF_vars(BootMoves)
ApsRun == \A c \in APs : WF_vars(ApMoves(c))

(***************************************************************************)
(* With timeout 0 core 0 polls by taking and releasing the lock without a  *)
(* pause.  That the AP gets it nevertheless is a matter of timing: it does *)
(* not look, and does not try, only while core 0 holds the lock.           *)
(***************************************************************************)
Timing(c) ==
  /\ SF_vars(SpinFree(c))
  /\ SF_vars(TryLock(c))
  /\ []<>(pc[c] = "try") => []<>(pc[c] = "try" /\ lock[c] = 0)
=============================================================================
