---------------------------- MODULE MCUcodeJobs ----------------------------
(***************************************************************************)
(* Instances of UcodeJobs.  Three entries as in db_entries, the fallback   *)
(* for any processor in the middle; flips inside, behind and twice at the  *)
(* same place of an update of two bytes.                                   *)
(***************************************************************************)
EXTENDS UcodeJobs

MCDbEntries == <<{1}, {2, 9}, {3}>>
MCDbUpdates == <<[ucode |-> {0}, length |-> 2], [ucode |-> {0}, length |-> 2],
                 [ucode |-> {0}, length |-> 1]>>
MCFlips == {<<>>, <<0>>, <<2, 3, 2>>, <<4>>}
=============================================================================
