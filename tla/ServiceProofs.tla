---------------------------- MODULE ServiceProofs ----------------------------
(***************************************************************************)
(* Proof that CoreJobs implements JobService: the refinement mapping of    *)
(* CoreJobsRefinement, step by step, for every number of cores and         *)
(* requests.                                                               *)
(***************************************************************************)
EXTENDS JobProofs, CoreJobsRefinement

USE CoreCounts, RequestBound, TimeoutRange
USE DEF locks, ap, request, wait, outcome

-----------------------------------------------------------------------------
(* The mapping. *)

\* What the service calls outstanding, in the terms of the invariant.
LEMMA OutstandingIs ==
  ASSUME NEW c \in Contexts
  PROVE  Outstanding(c) =
           IF JobIs(c, "queued") \/ JobIs(c, "running") THEN Last(c) ELSE 0
  BY DEF Outstanding, JobIs, Last

\* A context whose slot and job are left alone keeps its outstanding job.
LEMMA OutstandingStays ==
  ASSUME NEW c \in Contexts, ctx'[c].slot = ctx[c].slot,
         Last(c) # 0 => job'[Last(c)] = job[Last(c)]
  PROVE  Outstanding(c)' = Outstanding(c)
  BY DEF Outstanding, Last

\* An answered request that has a job keeps it, so what was told about it stays
\* the same.
LEMMA ToldStays ==
  ASSUME NEW r \in Requests, reply'[r] = reply[r],
         reply[r].kind = "none" \/ (job'[r] = "none" <=> job[r] = "none")
  PROVE  Told(r)' = Told(r)
  BY DEF Told

\* A step that hands over no AP, moves no job and answers nothing is none of
\* the service.
LEMMA Stutters ==
  ASSUME UNCHANGED <<job, tripped, reply>>,
         \A c \in Contexts : Outstanding(c)' = Outstanding(c),
         \A c \in APs : pc'[c] = "off" <=> pc[c] = "off"
  PROVE  UNCHANGED Service!vars
<1>1. ({0} \cup {c \in APs : pc[c] # "off"})' = {0} \cup {c \in APs : pc[c] # "off"}
  OBVIOUS
<1>2. [c \in Contexts |-> Outstanding(c)]' = [c \in Contexts |-> Outstanding(c)]
  OBVIOUS
<1>3. \A r \in Requests : Told(r)' = Told(r)
  BY ToldStays
<1>4. [r \in Requests |-> Told(r)]' = [r \in Requests |-> Told(r)]
  BY <1>3
<1> QED
  BY <1>1, <1>2, <1>4 DEF Service!vars

\* The initial states of the protocol are initial states of the service.
LEMMA ServiceInit == Init => Service!Init
<1> SUFFICES ASSUME Init PROVE Service!Init
  OBVIOUS
<1>1. {0} \cup {c \in APs : pc[c] # "off"} = {0}
  BY DEF Init
<1>2. \A c \in Contexts : Outstanding(c) = 0
  BY DEF Init, Outstanding, NullCall
<1>3. \A r \in Requests : Told(r) = "nothing"
  BY DEF Init, Told, NoReply
<1>4. job = [r \in Requests |-> "none"] /\ tripped = {}
  BY DEF Init
<1> QED
  BY <1>1, <1>2, <1>3, <1>4 DEF Service!Init

-----------------------------------------------------------------------------
(* The steps of an AP. *)

\* A step of an AP that changes the stage of a job, or records a fault, maps to
\* the step of the service on that job.
LEMMA ApMapsTo ==
  ASSUME BaseInv, JobInv, NEW c \in APs, ApNext(c)
  PROVE  [Service!Next]_(Service!vars)
<1>0. c \in Contexts /\ TypeInv /\ IdInv /\ ContextInv /\ Stages(c) /\ Places(c)
  BY DEF APs, Contexts, BaseInv, JobInv, ContextInv
<1>1. ApEffect(c) /\ Advance(c)
  BY <1>0, ApEffects, ApAdvances DEF TypeInv
<1>2. pc[c] = "exec" => /\ running[c].id = Last(c) /\ Last(c) \in Requests
                        /\ Last(c) # 0 /\ job[Last(c)] = "running"
                        /\ Outstanding(c) = Last(c)
  <2>1. pc[c] = "exec" => Last(c) # 0 /\ job[Last(c)] = "running"
                          /\ running[c].id = Last(c) /\ Last(c) \in Requests
    BY <1>0 DEF Stages, Places, JobIs, Runs, Last, TypeInv, SlotsOwned
  <2> QED
    BY <2>1 DEF Outstanding, Last
<1>3. reply' = reply /\ \A d \in APs : pc'[d] = "off" <=> pc[d] = "off"
  BY <1>1 DEF ApEffect
<1>4. /\ \A d \in Contexts : ctx'[d].slot = ctx[d].slot /\ Last(d)' = Last(d)
      /\ \A d \in Contexts \ {c} : Outstanding(d)' = Outstanding(d)
  <2>1. \A d \in Contexts : ctx'[d].slot = ctx[d].slot /\ Last(d)' = Last(d)
    BY <1>1 DEF ApEffect, Last
  <2>2. ASSUME NEW d \in Contexts, d # c, Last(d) # 0
        PROVE  job'[Last(d)] = job[Last(d)]
    <3>1. Last(d) # Last(c) /\ Last(d) \in Requests
      BY <1>0, <2>2, Fields, CallId DEF IdInv, TypeInv, Last
    <3> QED
      BY <1>1, <3>1 DEF Advance
  <2> QED
    BY <2>1, <2>2, OutstandingStays
<1>5. \A r \in Requests : Told(r)' = Told(r)
  <2>1. \A r \in Requests : job'[r] = "none" <=> job[r] = "none"
    BY <1>1 DEF Advance, Finished
  <2> QED
    BY <1>3, <2>1, ToldStays
<1>6. /\ ({0} \cup {d \in APs : pc[d] # "off"})' = {0} \cup {d \in APs : pc[d] # "off"}
      /\ [r \in Requests |-> Told(r)]' = [r \in Requests |-> Told(r)]
  BY <1>3, <1>5
<1>7. CASE UNCHANGED <<job, tripped>>
  <2>1. Outstanding(c)' = Outstanding(c)
    BY <1>0, <1>4, <1>7, OutstandingStays
  <2> QED
    BY <1>3, <1>4, <1>7, <2>1, Stutters
<1>8. CASE CallFunctions(c) /\ job' # job
  <2>1. Last(c) \in Requests /\ Last(c) # 0 /\ job[Last(c)] = "queued"
    BY <1>0, <1>8, Fields, CallId DEF CallFunctions, Step, Stages, Taken, JobIs, Last,
       TypeInv
  <2>2. job' = [job EXCEPT ![Last(c)] = "running"] /\ tripped' = tripped
    BY <1>8 DEF CallFunctions, Last
  <2>3. Outstanding(c) = Last(c) /\ Outstanding(c)' = Last(c)
    BY <1>0, <1>4, <2>1, <2>2 DEF Outstanding, Last, TypeInv, TypeOK
  <2>4. [d \in Contexts |-> Outstanding(d)]' = [d \in Contexts |-> Outstanding(d)]
    BY <1>4, <2>3
  <2>5. Service!Run(c, Last(c))
    BY <1>0, <1>6, <2>1, <2>2, <2>3, <2>4 DEF Service!Run
  <2> QED
    BY <1>0, <2>1, <2>5 DEF Service!Next
<1>9. CASE JobProtectionFault(c) \/ JobDoubleFault(c)
  <2>1. pc[c] = "exec" /\ job' = job /\ tripped' = tripped \cup {Last(c)}
    BY <1>2, <1>9 DEF JobProtectionFault, JobDoubleFault, Step, NoteFault
  <2>2. Outstanding(c)' = Outstanding(c)
    BY <1>0, <1>4, <2>1, OutstandingStays
  <2>3. [d \in Contexts |-> Outstanding(d)]' = [d \in Contexts |-> Outstanding(d)]
    BY <1>4, <2>2
  <2>4. Service!Trip(c, Last(c))
    BY <1>0, <1>2, <1>6, <2>1, <2>3 DEF Service!Trip
  <2> QED
    BY <1>0, <1>2, <2>1, <2>4 DEF Service!Next
<1>10. CASE JobFault(c)
  <2>1. /\ pc[c] = "exec" /\ tripped' = tripped \cup {Last(c)}
        /\ job' = [job EXCEPT ![Last(c)] = "aborted"]
    BY <1>2, <1>10 DEF JobFault, Step, NoteFault
  <2>2. Outstanding(c)' = 0
    BY <1>0, <1>2, <1>4, <2>1 DEF Outstanding, Last, TypeInv, TypeOK
  <2>3. [d \in Contexts |-> Outstanding(d)]' =
          [[d \in Contexts |-> Outstanding(d)] EXCEPT ![c] = 0]
    BY <1>0, <1>4, <2>2
  <2>4. Service!Trip(c, Last(c))
    BY <1>0, <1>2, <1>6, <2>1, <2>3 DEF Service!Trip
  <2> QED
    BY <1>0, <1>2, <2>1, <2>4 DEF Service!Next
<1>11. CASE JobReturns(c)
  <2>1. /\ pc[c] = "exec" /\ tripped' = tripped
        /\ job' = [job EXCEPT ![Last(c)] = "done"]
    BY <1>2, <1>11 DEF JobReturns, Step
  <2>2. Outstanding(c)' = 0
    BY <1>0, <1>2, <1>4, <2>1 DEF Outstanding, Last, TypeInv, TypeOK
  <2>3. [d \in Contexts |-> Outstanding(d)]' =
          [[d \in Contexts |-> Outstanding(d)] EXCEPT ![c] = 0]
    BY <1>0, <1>4, <2>2
  <2>4. Service!Finish(c, Last(c))
    BY <1>0, <1>2, <1>6, <2>1, <2>3 DEF Service!Finish
  <2> QED
    BY <1>0, <1>2, <2>1, <2>4 DEF Service!Next
<1>12. \/ UNCHANGED <<job, tripped>>
       \/ CallFunctions(c) /\ job' # job
       \/ JobProtectionFault(c) \/ JobDoubleFault(c) \/ JobFault(c) \/ JobReturns(c)
  BY DEF ApNext, ApMoves, LoopSetStarted, LoopSetReady, LoopClearQueued,
     ApUnlockStore, ApUnlockExchange, SpinFree, CheckQueued, TryLock,
     TryLockFails, Recheck, AcceptJob, DequeueJob, ZeroFault, CallFunctions,
     FinishJob, JobStep, JobWrites, JobHangs
<1> QED
  BY <1>7, <1>8, <1>9, <1>10, <1>11, <1>12

-----------------------------------------------------------------------------
(* The steps of core 0. *)

\* A job that is over is not outstanding.
LEMMA NotOutstanding ==
  ASSUME NEW c \in Contexts, Last(c) = 0 \/ job[Last(c)] \notin {"queued", "running"}
  PROVE  Outstanding(c) = 0
  BY DEF Outstanding, Last

\* Handing an AP to core_main_loop is Start.
LEMMA StartMapsTo ==
  ASSUME BaseInv, StartAp
  PROVE  [Service!Next]_(Service!vars)
<1>1. target \in Contexts /\ target \in APs
  BY OnCore DEF StartAp, Go, BaseInv, TypeInv, Located, StartPath, APs, Contexts
<1>2. PICK t \in APs : t = target
  BY <1>1
<1>3. /\ t \in Contexts /\ t # 0 /\ pc[t] = "off"
      /\ pc' = [pc EXCEPT ![t] = "init"] /\ UNCHANGED <<ctx, job, tripped, reply>>
  BY <1>1, <1>2 DEF StartAp, APs
<1>4. ({0} \cup {c \in APs : pc[c] # "off"})' = {0} \cup {c \in APs : pc[c] # "off"} \cup {t}
  BY <1>2, <1>3 DEF BaseInv, TypeInv, TypeOK
<1>5. [c \in Contexts |-> Outstanding(c)]' = [c \in Contexts |-> Outstanding(c)]
  BY <1>3 DEF Outstanding
<1>6. [r \in Requests |-> Told(r)]' = [r \in Requests |-> Told(r)]
  BY <1>3 DEF Told
<1>7. Service!Start(t)
  BY <1>3, <1>4, <1>5, <1>6 DEF Service!Start
<1> QED
  BY <1>3, <1>7 DEF Service!Next

\* Queueing a job is Submit.
LEMMA QueueMapsTo ==
  ASSUME BaseInv, JobInv, QueueJob
  PROVE  [Service!Next]_(Service!vars)
<1>1. boot = "queue" /\ target \in Contexts
  BY OnCore DEF QueueJob, Go, UnlockThen, BaseInv, TypeInv, JobPath
<1>2. PICK t \in Contexts : t = target
  BY <1>1
<1>3. PICK u \in Requests : u = served
  BY <1>1 DEF BaseInv, TypeInv, Located
<1>4. /\ job[u] = "none" /\ Last(t) = u /\ u # 0 /\ reply[u].kind = "none"
      /\ t = 0 \/ (t \in APs /\ pc[t] # "off")
  <2>1. job[u] = "none"
    BY <1>1, <1>3 DEF JobInv, BootInv, PrepareInv
  <2>2. Last(t) = u
    BY <1>1, <1>2, <1>3 DEF BaseInv, IdInv, Filled, Last
  <2>3. u # 0 /\ reply[u].kind = "none"
    BY <1>1, <1>3 DEF BaseInv, IdInv, Requests
  <2>4. ctx[t].started = 1
    BY <1>1, <1>2 DEF BaseInv, StartInv
  <2>5. t = 0 \/ t \in APs
    BY <1>1, <1>2, OnCore DEF BaseInv, TypeInv, Located, JobPath, APs, Contexts
  <2>6. t \in APs => pc[t] # "off"
    BY <2>4 DEF BaseInv, StartInv
  <2> QED
    BY <2>1, <2>2, <2>3, <2>5, <2>6
<1>5. /\ job' = [job EXCEPT ![u] = "queued"] /\ UNCHANGED <<pc, tripped, reply>>
      /\ \A c \in Contexts : ctx'[c].slot = ctx[c].slot
  BY <1>2, <1>3 DEF QueueJob, BaseInv, TypeInv, TypeOK, Context
<1>6. ASSUME NEW c \in Contexts, c # t PROVE Outstanding(c)' = Outstanding(c)
  <2>1. Last(c) # 0 => Last(c) # u
    BY <1>4, <1>6 DEF BaseInv, IdInv
  <2>2. Last(c) # 0 => job'[Last(c)] = job[Last(c)]
    BY <1>5, <2>1, Fields, CallId DEF BaseInv, TypeInv, TypeOK, Last
  <2> QED
    BY <1>5, <2>2, OutstandingStays
<1>7. Outstanding(t) = 0 /\ Outstanding(t)' = u
  BY <1>4, <1>5 DEF Outstanding, Last, BaseInv, TypeInv, TypeOK
<1>8. [c \in Contexts |-> Outstanding(c)]' =
        [[c \in Contexts |-> Outstanding(c)] EXCEPT ![t] = u]
  BY <1>6, <1>7
<1>9. \A r \in Requests : Told(r)' = Told(r)
  <2>1. \A r \in Requests : r # u => job'[r] = job[r]
    BY <1>5
  <2> QED
    BY <1>4, <1>5, <2>1, ToldStays
<1>10. /\ [r \in Requests |-> Told(r)]' = [r \in Requests |-> Told(r)]
       /\ ({0} \cup {c \in APs : pc[c] # "off"})' = {0} \cup {c \in APs : pc[c] # "off"}
       /\ Told(u) = "nothing" /\ t \in {0} \cup {c \in APs : pc[c] # "off"}
  BY <1>4, <1>5, <1>9 DEF Told
<1>11. Service!Submit(t, u)
  BY <1>4, <1>5, <1>7, <1>8, <1>10 DEF Service!Submit
<1> QED
  BY <1>11 DEF Service!Next

\* Core 0 runs its own jobs: Run, then Finish.
LEMMA SyncMapsTo ==
  ASSUME BaseInv, JobInv, SyncAccept \/ SyncReturns
  PROVE  [Service!Next]_(Service!vars)
<1>1. boot \in {"sync_accept", "sync_call"} /\ target = 0 /\ 0 \in Contexts
  BY DEF SyncAccept, SyncReturns, Go, UnlockThen, JobInv, BootInv, PrepareInv,
     Contexts
<1>2. PICK u \in Requests : u = served
  BY <1>1 DEF BaseInv, TypeInv, Located
<1>3. Last(0) = u /\ u # 0 /\ Stages(0)
  BY <1>1, <1>2 DEF BaseInv, IdInv, Filled, Last, Requests, JobInv, ContextInv
<1>4. /\ UNCHANGED <<pc, tripped, reply>>
      /\ \A c \in Contexts : ctx'[c].slot = ctx[c].slot
      /\ \A r \in Requests \ {u} : job'[r] = job[r]
  BY <1>2 DEF SyncAccept, SyncReturns, BaseInv, TypeInv, TypeOK, Context
<1>5. ASSUME NEW c \in Contexts, c # 0 PROVE Outstanding(c)' = Outstanding(c)
  <2>1. Last(c) # 0 => Last(c) # u
    BY <1>1, <1>3, <1>5 DEF BaseInv, IdInv
  <2>2. Last(c) # 0 => job'[Last(c)] = job[Last(c)]
    BY <1>4, <2>1, Fields, CallId DEF BaseInv, TypeInv, TypeOK, Last
  <2> QED
    BY <1>4, <2>2, OutstandingStays
<1>6. ({0} \cup {c \in APs : pc[c] # "off"})' = {0} \cup {c \in APs : pc[c] # "off"}
  BY <1>4
<1>7. CASE SyncAccept
  <2>1. job[u] = "queued" /\ job' = [job EXCEPT ![u] = "running"]
    BY <1>2, <1>3, <1>7 DEF SyncAccept, Go, JobInv, BootInv, PrepareInv, Stages, JobIs
  <2>2. Outstanding(0) = u /\ Outstanding(0)' = u
    BY <1>1, <1>3, <1>4, <2>1 DEF Outstanding, Last, BaseInv, TypeInv, TypeOK
  <2>3. [c \in Contexts |-> Outstanding(c)]' = [c \in Contexts |-> Outstanding(c)]
    BY <1>5, <2>2
  <2>4. \A r \in Requests : Told(r)' = Told(r)
    BY <1>4, <2>1, ToldStays DEF BaseInv, TypeInv, TypeOK
  <2>5. [r \in Requests |-> Told(r)]' = [r \in Requests |-> Told(r)]
    BY <2>4
  <2>6. Service!Run(0, u)
    BY <1>1, <1>4, <1>6, <2>1, <2>2, <2>3, <2>5 DEF Service!Run
  <2> QED
    BY <1>1, <2>6 DEF Service!Next
<1>8. CASE SyncReturns
  <2>1. job[u] = "running" /\ job' = [job EXCEPT ![u] = "done"]
    BY <1>2, <1>3, <1>8 DEF SyncReturns, UnlockThen, Stages, Runs, JobIs
  <2>2. Outstanding(0) = u /\ Outstanding(0)' = 0
    BY <1>1, <1>3, <1>4, <2>1 DEF Outstanding, Last, BaseInv, TypeInv, TypeOK
  <2>3. [c \in Contexts |-> Outstanding(c)]' =
          [[c \in Contexts |-> Outstanding(c)] EXCEPT ![0] = 0]
    BY <1>1, <1>5, <2>2
  <2>4. \A r \in Requests : Told(r)' = Told(r)
    BY <1>4, <2>1, ToldStays DEF BaseInv, TypeInv, TypeOK
  <2>5. [r \in Requests |-> Told(r)]' = [r \in Requests |-> Told(r)]
    BY <2>4
  <2>6. Service!Finish(0, u)
    BY <1>1, <1>4, <1>6, <2>1, <2>2, <2>3, <2>5 DEF Service!Finish
  <2> QED
    BY <1>1, <2>6 DEF Service!Next
<1> QED
  BY <1>7, <1>8

\* An answer is Tell: it says of the job what is true of it then.
LEMMA AnswerMapsTo ==
  ASSUME BaseInv, JobInv, SendError \/ Respond
  PROVE  [Service!Next]_(Service!vars)
<1>1. boot # "idle"
  BY DEF SendError, Respond, Go
<1>2. PICK u \in Requests : u = served
  BY <1>1 DEF BaseInv, TypeInv, Located
<1>3. reply[u].kind = "none" /\ UNCHANGED <<ctx, pc, job, tripped>>
  BY <1>1, <1>2 DEF BaseInv, IdInv, SendError, Respond
<1>4. \A r \in Requests : r # u => reply'[r] = reply[r]
  BY <1>2 DEF SendError, Respond, Answer, BaseInv, TypeInv, TypeOK
<1>5. \A r \in Requests : r # u => Told(r)' = Told(r)
  BY <1>3, <1>4, ToldStays
<1>6. /\ Told(u) = "nothing"
      /\ Told(u)' \in {"noted", "refused", "late", "finished", "faulty"}
      /\ Told(u)' \in {"noted", "refused"} => job[u] = "none"
      /\ Told(u)' = "late" => job[u] # "none"
      /\ Told(u)' = "finished" => job[u] = "done"
      /\ Told(u)' = "faulty" => job[u] \in {"done", "aborted"} /\ u \in tripped
  <2>1. HistoryInv' /\ job[u] \in {"none", "queued", "running", "done", "aborted"}
    BY BootAnswers DEF BaseInv, JobInv, TypeInv, TypeOK, Finished
  <2>2. Told(u) = "nothing"
    BY <1>3 DEF Told
  <2>3. CASE SendError
    <3>1. reply'[u].kind = "error"
      BY <1>2, <2>3 DEF SendError, Answer, BaseInv, TypeInv, TypeOK
    <3> QED
      BY <1>3, <2>1, <2>2, <3>1 DEF Told
  <2>4. CASE Respond /\ job[u] = "none"
    <3>1. reply'[u].kind \in {"status", "msr", "result"}
      BY <1>2, <2>4 DEF Respond, Answer, BaseInv, TypeInv, TypeOK
    <3> QED
      BY <1>3, <2>1, <2>2, <2>4, <3>1 DEF Told
  <2>5. CASE Respond /\ job[u] # "none"
    <3>1. boot = "respond" /\ req.op \in {"code", "read_msr"}
      BY <1>2, <2>5, RequestFields DEF Respond, Go, BaseInv, IdInv, NotYet, TypeInv,
         Located
    <3>2. CASE req.op = "read_msr"
      <4>1. reply'[u].kind = "msr" /\ reply'[u].flags = {}
        BY <1>2, <2>5, <3>2 DEF Respond, Answer, BaseInv, TypeInv, TypeOK
      <4>2. job[u] = "done"
        BY <1>2, <2>5, <3>1, <3>2 DEF JobInv, BootInv, WaitInv
      <4> QED
        BY <1>3, <2>2, <4>1, <4>2 DEF Told
    <3>3. CASE req.op = "code"
      <4>1. reply'[u].kind = "result"
        BY <1>2, <2>5, <3>3 DEF Respond, Answer, BaseInv, TypeInv, TypeOK
      <4>2. "timeout" \notin reply'[u].flags =>
              /\ job[u] \in {"done", "aborted"}
              /\ "fault" \in reply'[u].flags <=> u \in tripped
              /\ job[u] = "aborted" => u \in tripped
        BY <1>3, <2>1, <2>5, <4>1 DEF HistoryInv, Finished
      <4> QED
        BY <1>3, <2>2, <2>5, <4>1, <4>2 DEF Told
    <3> QED
      BY <3>1, <3>2, <3>3
  <2> QED
    BY <2>3, <2>4, <2>5
<1>7. [r \in Requests |-> Told(r)]' =
        [[r \in Requests |-> Told(r)] EXCEPT ![u] = Told(u)']
  BY <1>5
<1>8. /\ [c \in Contexts |-> Outstanding(c)]' = [c \in Contexts |-> Outstanding(c)]
      /\ ({0} \cup {c \in APs : pc[c] # "off"})' = {0} \cup {c \in APs : pc[c] # "off"}
  BY <1>3 DEF Outstanding
<1>9. Service!Tell(u)
  BY <1>3, <1>6, <1>7, <1>8 DEF Service!Tell
<1> QED
  BY <1>9 DEF Service!Next

\* Clearing a slot whose job is over, and filling it before the job is queued,
\* are no steps of the service.
LEMMA WriteMapsTo ==
  ASSUME BaseInv, JobInv, Undisturbed, ClearJob \/ FillJob \/ StartTables
  PROVE  UNCHANGED Service!vars
<1>1. boot \in {"clear", "fill", "start_tables"} /\ UNCHANGED <<pc, job, tripped, reply>>
  BY DEF ClearJob, FillJob, StartTables, Go, ApsKeep
<1>2. target \in Contexts /\ ~Taken(target) /\ ~Runs(target)
  BY <1>1, Quiescent DEF BaseInv, BootHolding
<1>3. \A c \in Contexts \ {target} : ctx'[c].slot = ctx[c].slot
  BY DEF ClearJob, FillJob, StartTables, BaseInv, TypeInv, TypeOK
<1>4. \A c \in Contexts \ {target} : Outstanding(c)' = Outstanding(c)
  BY <1>1, <1>3 DEF Outstanding
<1>5. PICK t \in Contexts : t = target
  BY <1>2
<1>6. Outstanding(t)' = Outstanding(t)
  <2>1. CASE ClearJob
    <3>1. boot = "clear" /\ ctx[t].job_queued = 0 /\ Stages(t)
      BY <1>5, <2>1 DEF ClearJob, Go, JobInv, BootInv, PrepareInv, ContextInv
    <3>2. Last(t) = 0 \/ Over(t)
      BY <1>2, <1>5, <3>1, NothingLeft DEF BaseInv
    <3>3. Outstanding(t) = 0
      BY <3>2, NotOutstanding DEF Over, JobIs
    <3>4. ctx'[t].slot = NullCall
      BY <1>5, <2>1 DEF ClearJob, BaseInv, TypeInv, TypeOK, Context
    <3> QED
      BY <3>3, <3>4 DEF Outstanding, NullCall
  <2>2. CASE FillJob
    <3>1. boot = "fill" /\ Last(t) = 0
      BY <1>5, <2>2 DEF FillJob, Go, JobInv, BootInv, PrepareInv, Last, NullCall
    <3>2. job[served] = "none"
      BY <3>1 DEF BaseInv, IdInv, NotYet
    <3>3. ctx'[t].slot.id = served
      BY <1>5, <2>2 DEF FillJob, BaseInv, TypeInv, TypeOK, Context
    <3> QED
      BY <1>1, <3>1, <3>2, <3>3 DEF Outstanding, Last
  <2>3. CASE StartTables
    <3>1. ctx'[t].slot = ctx[t].slot
      BY <1>5, <2>3 DEF StartTables, BaseInv, TypeInv, TypeOK, Context
    <3> QED
      BY <1>1, <3>1 DEF Outstanding
  <2> QED
    BY <2>1, <2>2, <2>3
<1> QED
  BY <1>1, <1>4, <1>5, <1>6, Stutters

\* Every step of core 0 is a step of the service, or none.
LEMMA BootMapsTo ==
  ASSUME BaseInv, JobInv, Undisturbed, BootNext
  PROVE  [Service!Next]_(Service!vars)
<1>1. CASE StartAp
  BY <1>1, StartMapsTo
<1>2. CASE QueueJob
  BY <1>2, QueueMapsTo
<1>3. CASE SyncAccept \/ SyncReturns
  BY <1>3, SyncMapsTo
<1>4. CASE SendError \/ Respond
  BY <1>4, AnswerMapsTo
<1>5. CASE ClearJob \/ FillJob \/ StartTables
  BY <1>5, WriteMapsTo
<1>6. CASE ~Writing /\ ~(SendError \/ Respond)
  <2>1. UNCHANGED <<ctx, ap, job, tripped>>
    BY <1>6, ReadingSteps DEF BaseInv
  <2>2. reply' = reply
    BY <1>6, OnlyAnswers
  <2>3. \A c \in Contexts : Outstanding(c)' = Outstanding(c)
    BY <2>1 DEF Outstanding
  <2> QED
    BY <2>1, <2>2, <2>3, Stutters
<1> QED
  BY <1>1, <1>2, <1>3, <1>4, <1>5, <1>6 DEF Writing

-----------------------------------------------------------------------------
(* The refinement. *)

\* Every step of the protocol maps to a step of the service or to none.
LEMMA StepMapsTo ==
  ASSUME BaseInv, JobInv, Undisturbed, [Next]_vars
  PROVE  [Service!Next]_(Service!vars)
<1>1. CASE BootNext
  BY <1>1, BootMapsTo
<1>2. ASSUME NEW c \in APs, ApNext(c) PROVE [Service!Next]_(Service!vars)
  BY <1>2, ApMapsTo
<1>3. CASE UNCHANGED vars
  BY <1>3, Stutters DEF vars, Outstanding
<1> QED
  BY <1>1, <1>2, <1>3 DEF Next

\* As long as unlock_context releases no lock behind its owner's back, the job
\* protocol does what a client of the service may rely on: a core has one
\* outstanding job, each job runs once, and what a client is told of its job is
\* true when it is told.
THEOREM JobsRefineService == QuietSpec => ImplementsService
<1>1. QuietSpec => Spec
  <2>1. [Next /\ stolen' = {}]_vars => [Next]_vars
    OBVIOUS
  <2> QED
    BY <2>1, PTL DEF QuietSpec, Spec
<1>2. QuietSpec => []Undisturbed
  <2>1. Init => Undisturbed
    BY DEF Init, Undisturbed
  <2>2. Undisturbed /\ [Next /\ stolen' = {}]_vars => Undisturbed'
    BY DEF Undisturbed, vars
  <2> QED
    BY <2>1, <2>2, PTL DEF QuietSpec
<1>3. Init => Service!Init
  BY ServiceInit
<1>4. BaseInv /\ QuietJobInv /\ Undisturbed /\ [Next]_vars
        => [Service!Next]_(Service!vars)
  BY StepMapsTo DEF QuietJobInv
<1> QED
  BY <1>1, <1>2, <1>3, <1>4, JobsCorrect, PTL DEF Spec, ImplementsService, Service!Spec
=============================================================================
