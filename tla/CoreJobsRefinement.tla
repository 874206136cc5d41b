------------------------- MODULE CoreJobsRefinement -------------------------
(***************************************************************************)
(* CoreJobs implements JobService as long as no lock is released behind    *)
(* its owner's back.                                                       *)
(***************************************************************************)
EXTENDS CoreJobsProperties

Outstanding(c) ==
  LET last == ctx[c].slot.id IN
  IF last # 0 /\ job[last] \in {"queued", "running"} THEN last ELSE 0

\* A late read_msr is answered with an error status although its job exists.
Told(r) ==
  LET kind == reply[r].kind flags == reply[r].flags IN
  IF kind = "none" THEN "nothing"
  ELSE IF job[r] = "none" THEN IF kind = "error" THEN "refused" ELSE "noted"
  ELSE IF kind = "error" \/ "timeout" \in flags THEN "late"
  ELSE IF "fault" \in flags THEN "faulty" ELSE "finished"

Service == INSTANCE JobService WITH
  Cores <- Contexts,
  NoJob <- 0,
  up <- {0} \cup {c \in APs : pc[c] # "off"},
  outstanding <- [c \in Contexts |-> Outstanding(c)],
  told <- [r \in Requests |-> Told(r)]

\* Every step of the protocol is a step of the service it promises, or none.
\* An answer without timeout comes after the end of the job, and its fault
\* flag belongs to that job.
ImplementsService == Service!Spec
=============================================================================
