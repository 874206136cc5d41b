------------------------- MODULE CoreJobsProperties -------------------------
(***************************************************************************)
(* What the job protocol of CoreJobs promises.                             *)
(*                                                                         *)
(* Some promises hold of the code as it is.  Others hold only as long as   *)
(* no unlock_context has released a lock the other side had just taken     *)
(* (stolen = {}); the runs expected to fail show what happens otherwise.   *)
(***************************************************************************)
EXTENDS CoreJobs

Finished == {"done", "aborted"}
Undisturbed == stolen = {}

\* The runs in which the second write of unlock_context never releases a
\* lock the other side has taken.
QuietSpec == Init /\ [][Next /\ stolen' = {}]_vars

\* Where core 0 is between a successful try_lock_context(target) and the
\* store of unlock_context, or the hand-over to the AP it starts.
BootHolding ==
  {"start_tables", "start_ap", "acquire_ready", "acquire_queued", "clear",
   "fill", "queue", "sync_accept", "sync_call", "wait_ready", "wait_queued",
   "unlock_store"}

\* Where an AP regards the context as locked by itself.
Accepting == {"recheck", "accept", "dequeue", "zero_fault", "call"}
ApHolding ==
  {"init", "set_ready", "clear_queued", "exec", "finish", "unlock_store", "dead"}
    \cup Accepting

BootOwns(c) == boot \in BootHolding /\ target = c
ApOwns(c) == c \in APs /\ pc[c] \in ApHolding

BootLocations ==
  BootHolding \cup
  {"idle", "reject", "respond", "stray", "unlock_exchange", "start",
   "start_next", "start_check", "start_lock", "acquire", "acquire_lock",
   "wait_lock", "wait_try", "wait_tick", "waited", "status", "sample_ready",
   "sample_queued", "sample_lock", "sample_fault"}

\* Every variable keeps its type: the flags of a context stay 0 or 1, core 0
\* works on a context a request can name, and histories refer to requests.
TypeOK ==
  /\ ctx \in [Contexts -> Context]
  /\ lock \in [Contexts -> {0, 1}]
  /\ pc \in [APs -> ApHolding \cup {"off", "spin", "check", "try", "unlock_exchange"}]
  /\ running \in [APs -> Call]
  /\ boot \in BootLocations
  /\ back \in {"idle", "reject", "wait_lock", "wait_tick", "waited", "respond"}
  /\ req \in Request \cup {NoRequest}
  /\ served \in 0 .. MaxRequests
  /\ target \in 0 .. MaxCoreCount + 1
  /\ iterations \in Nat /\ late \in BOOLEAN /\ sample \in Sample
  /\ job \in [Requests -> {"none", "queued", "running"} \cup Finished]
  /\ tripped \subseteq Requests
  /\ reply \in [Requests -> Reply]
  /\ stolen \subseteq Contexts

-----------------------------------------------------------------------------
(* Promises of the code as it is. *)

\* A context is locked only while a core is inside the section the lock
\* guards: no path of acquire_core_lock_for_job, start_core, wait_on_ap_exec,
\* handle_job or core_main_loop leaves the lock behind.
LockNotLeaked ==
  \A c \in Contexts : lock[c] = 1 => ApOwns(c) \/ BootOwns(c)

\* STARTCORE reports success only when the core it names, or with core 0
\* every AP, was handed to core_main_loop.
StartMeansRunning ==
  boot = "respond" /\ req.op = "start" =>
    \A c \in APs : req.core \in {0, c} => pc[c] # "off"

\* A request that asks for no unbounded wait is answered whatever the AP
\* does: it may hang in its job, fault, or hold its lock for ever.  (Only an
\* id behind core_contexts leaves the model.)
Unbounded == req.op = "code" /\ (req.timeout = 0 \/ req.core = 0)
AsyncReturns == boot # "idle" /\ ~Unbounded ~> boot \in {"idle", "stray"}

-----------------------------------------------------------------------------
(* Promises of the code while no lock was released behind its owner's back. *)

\* Core 0 and an AP never both regard the AP's context as theirs.
MutualExclusion ==
  Undisturbed => \A c \in Contexts : ~(ApOwns(c) /\ BootOwns(c))

\* Core 0 writes a job into a context only when the job written before has
\* finished: ready and job_queued together stand for "nothing outstanding".
\* Nor does it take away the fault information of an unfinished job: a second
\* STARTCORE that has read started = 0 too early still finds the core without
\* a job when it gets the lock.
NoJobOverwritten ==
  Undisturbed /\ boot \in {"clear", "start_tables"} =>
    LET last == ctx[target].slot.id IN last # 0 => job[last] \in Finished

\* A queued job stays where its AP will find it until the AP takes it.  The
\* reset of job_queued in core_main_loop after a fault must not hit the next
\* job.
QueuedJobKept ==
  Undisturbed =>
    \A r \in Requests : job[r] = "queued" =>
      \E c \in Contexts :
        /\ ctx[c].slot.id = r
        /\ \/ ctx[c].job_queued = 1
           \/ c \in APs /\ pc[c] \in {"zero_fault", "call"}

\* A job's function is called once: each call finds its job still queued.
RunsOnce ==
  [][\A c \in APs :
       Undisturbed /\ CallFunctions(c) /\ ctx[c].slot.func # "null"
         => job[ctx[c].slot.id] = "queued"]_vars

\* A test response without the timeout flag, and every MSR response, is sent
\* after the job has finished.
CompletionTruthful ==
  Undisturbed =>
    \A r \in Requests :
      (\/ reply[r].kind = "result" /\ "timeout" \notin reply[r].flags
       \/ reply[r].kind = "msr")
        => job[r] \in {"none"} \cup Finished

\* When a test response says the job finished, its fault flag says whether
\* that job, not an earlier one, raised a fault.  When core 0 gave up waiting,
\* the flag it is about to read is that of its job too, from the moment the AP
\* runs it: only before that it may still be the previous job's.
FaultFlagExact ==
  Undisturbed =>
    /\ \A r \in Requests :
         reply[r].kind = "result" /\ "timeout" \notin reply[r].flags
           => ("fault" \in reply[r].flags <=> r \in tripped)
    /\ boot = "waited" /\ req.op = "code" /\ job[served] # "queued"
         => (ctx[target].fault_info = "set" <=> served \in tripped)

\* The result buffer in a test response holds what the job of this response
\* wrote so far, never the output of an earlier job.
ResultIsOwn ==
  Undisturbed =>
    \A r \in Requests :
      reply[r].kind = "result" /\ job[r] # "none" => reply[r].result \in {0, r}

\* send_core_status reads ready, job_queued and lock one after the other and
\* without the lock.  Read in this order, "ready, nothing queued, unlocked"
\* still means that the last job has finished, so the result copied next is
\* complete.
StatusConsistent ==
  Undisturbed /\ boot = "respond" /\ req.op \in {"status", "last"}
    /\ sample.ready = 1 /\ sample.queued = 0 /\ sample.lock = 0
    => LET last == ctx[target].slot.id IN last # 0 => job[last] \in Finished

\* A queued job is taken by its AP, given only that processors run: between
\* two looks at the context core 0 leaves the lock alone for a while (Stall)
\* and in the end gives up.
QueuedAccepted ==
  ApsRun =>
    \A r \in Requests :
      job[r] = "queued"
        ~> (job[r] # "queued" \/ ~Undisturbed \/ (served = r /\ Unbounded))

\* With timeout 0 core 0 never gives up and never pauses: the AP takes the
\* job under the timing assumption.
PolledAccepted ==
  ApsRun /\ (\A c \in APs : Timing(c)) =>
    \A r \in Requests : job[r] = "queued" ~> (job[r] # "queued" \/ ~Undisturbed)

\* With timeout 0 core 0 waits for ever for the job, and answers when the job
\* finishes.
SyncAnswered ==
  ApsRun =>
    (boot # "idle" /\ req.op = "code" /\ served \in Requests
       /\ job[served] \in Finished
       ~> (boot = "idle" \/ ~Undisturbed))

-----------------------------------------------------------------------------
(* What comments, messages and the README say, and the code does not keep. *)

\* The README: core 0 sends back "a flag to indicate whether the timeout was
\* reached or the job completed on its own".
NoTimeoutMeansCompleted ==
  \A r \in Requests :
    reply[r].kind = "result" /\ "timeout" \notin reply[r].flags
      => job[r] \in {"none"} \cup Finished

\* "all passed arguments, pointers and otherwise, are safe to modify on APs"
\* (SMP_SAFE, handlers/cores.h): read_msr writes the stack buffer of the
\* handle_read_msr_on_core call it belongs to.
MsrBufferAlive ==
  \A c \in APs :
    pc[c] = "exec" /\ running[c].func = "read_msr"
      => boot # "idle" /\ served = running[c].id

\* "Core id %u is out of range, only %u max cores are supported"
\* (handlers/cores.c, handle_start_core and handle_get_core_status): an id no
\* context belongs to ends with this message, and goes no further.
CoreIdsInRange ==
  req.core \notin Contexts => boot \in {"start", "status", "acquire", "reject"}
=============================================================================
