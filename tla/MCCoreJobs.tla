----------------------------- MODULE MCCoreJobs -----------------------------
(* CoreJobs with its properties; the instances are in the configurations.   *)
EXTENDS CoreJobsProperties
=============================================================================
