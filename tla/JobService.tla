----------------------------- MODULE JobService -----------------------------
(***************************************************************************)
(* What a client of AngryUEFI may rely on when it sends jobs to cores: the *)
(* abstract counterpart of CoreJobs, without locks, flags or polling.      *)
(*                                                                         *)
(* A core works on at most one job.  A job runs once, and a request is     *)
(* answered once: noted (no job in it), refused (no job came of it), late  *)
(* (the job may still be waiting or running), finished, or faulty.         *)
(***************************************************************************)
CONSTANTS Requests, Cores, NoJob  \* NoJob is not a request

VARIABLES up,           \* cores that accept jobs
          outstanding,  \* the job each core has not finished, or NoJob
          job,          \* the stage each request's job has reached
          tripped,      \* jobs that raised a fault
          told          \* what the client was told about each request
vars == <<up, outstanding, job, tripped, told>>

Init ==
  /\ up = {0}
  /\ outstanding = [c \in Cores |-> NoJob]
  /\ job = [r \in Requests |-> "none"]
  /\ tripped = {}
  /\ told = [r \in Requests |-> "nothing"]

\* A core enters its main loop and stays there.
Start(c) ==
  /\ c \notin up /\ up' = up \cup {c}
  /\ UNCHANGED <<outstanding, job, tripped, told>>

\* Only a core with nothing outstanding is given a job.
Submit(c, r) ==
  /\ c \in up /\ outstanding[c] = NoJob
  /\ job[r] = "none" /\ told[r] = "nothing"
  /\ outstanding' = [outstanding EXCEPT ![c] = r]
  /\ job' = [job EXCEPT ![r] = "queued"]
  /\ UNCHANGED <<up, tripped, told>>

Run(c, r) ==
  /\ outstanding[c] = r /\ job[r] = "queued"
  /\ job' = [job EXCEPT ![r] = "running"]
  /\ UNCHANGED <<up, outstanding, tripped, told>>

\* A fault is noted, and may end the job.
Trip(c, r) ==
  /\ outstanding[c] = r /\ job[r] = "running"
  /\ tripped' = tripped \cup {r}
  /\ \/ UNCHANGED <<outstanding, job>>
     \/ /\ job' = [job EXCEPT ![r] = "aborted"]
        /\ outstanding' = [outstanding EXCEPT ![c] = NoJob]
  /\ UNCHANGED <<up, told>>

Finish(c, r) ==
  /\ outstanding[c] = r /\ job[r] = "running"
  /\ job' = [job EXCEPT ![r] = "done"]
  /\ outstanding' = [outstanding EXCEPT ![c] = NoJob]
  /\ UNCHANGED <<up, tripped, told>>

\* The answer is true of the job when it is given.
Tell(r) ==
  /\ told[r] = "nothing"
  /\ \E answer \in {"noted", "refused", "late", "finished", "faulty"} :
       /\ answer \in {"noted", "refused"} => job[r] = "none"
       /\ answer = "late" => job[r] # "none"
       /\ answer = "finished" => job[r] = "done"
       /\ answer = "faulty" => job[r] \in {"done", "aborted"} /\ r \in tripped
       /\ told' = [told EXCEPT ![r] = answer]
  /\ UNCHANGED <<up, outstanding, job, tripped>>

Next ==
  \/ \E c \in Cores : Start(c)
  \/ \E c \in Cores, r \in Requests :
       Submit(c, r) \/ Run(c, r) \/ Trip(c, r) \/ Finish(c, r)
  \/ \E r \in Requests : Tell(r)

Spec == Init /\ [][Next]_vars
=============================================================================
