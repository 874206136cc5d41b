------------------------------- MODULE UcodeDB -------------------------------
(***************************************************************************)
(* get_update_for_cpuid (data/ucode/ucode_db.c): which of the updates      *)
(* compiled into the image is the known good one for this processor.  The  *)
(* entries are searched in order; an entry that lists the processor ends   *)
(* the search, an entry that lists FALLBACK_CPUID is kept in case none     *)
(* does.  The zero-terminated list of an entry is a set of numbers.        *)
(***************************************************************************)
EXTENDS Integers, Sequences

CONSTANTS
  DbEntries,      \* db_entries: per entry the set matching_cpuids
  Cpuids,         \* what CPUID leaf 1 may return
  FALLBACK_CPUID

ASSUME EntryList == DbEntries \in Seq(SUBSET (Cpuids \cup {FALLBACK_CPUID}))

VARIABLES
  my_cpuid,       \* of the processor the program runs on, 0 when returned
  search          \* the locals of get_update_for_cpuid and its result

\* 0 stands for the NULL pointer, i for &db_entries[i - 1].
Entries == 1 .. Len(DbEntries)
Search == [done : BOOLEAN, i : 1 .. Len(DbEntries) + 1,
           fallback : 0 .. Len(DbEntries), entry : 0 .. Len(DbEntries)]

NoSearch == [done |-> FALSE, i |-> 1, fallback |-> 0, entry |-> 0]
SearchInit ==
  /\ my_cpuid \in Cpuids
  /\ search = NoSearch

cpuid_matches(i, id) == id \in DbEntries[i]

\* Mutant: an entry for any processor ends the search, too.
SearchEntry_FallbackEnds ==
  /\ ~search.done /\ search.i \in Entries
  /\ LET i == search.i IN
     search' = IF cpuid_matches(i, my_cpuid) \/ cpuid_matches(i, FALLBACK_CPUID)
               THEN [search EXCEPT !.done = TRUE, !.entry = i]
               ELSE [search EXCEPT !.i = i + 1]
  /\ UNCHANGED my_cpuid
SearchEntry ==
  /\ ~search.done /\ search.i \in Entries
  /\ LET i == search.i
         kept == IF cpuid_matches(i, FALLBACK_CPUID) THEN i ELSE search.fallback
     IN search' = IF cpuid_matches(i, my_cpuid)
                  THEN [done |-> TRUE, i |-> i, fallback |-> kept, entry |-> i]
                  ELSE [done |-> FALSE, i |-> i + 1, fallback |-> kept, entry |-> 0]
  /\ UNCHANGED my_cpuid

SearchFails ==
  /\ ~search.done /\ search.i \notin Entries
  /\ search' = [search EXCEPT !.done = TRUE, !.entry = search.fallback]
  /\ UNCHANGED my_cpuid

SearchNext == SearchEntry \/ SearchFails

\* ensure_ucode_slot_0 has used the entry and returns.
SearchReturns == search.done /\ my_cpuid' = 0 /\ search' = NoSearch

-----------------------------------------------------------------------------
Listing(id) == {i \in Entries : cpuid_matches(i, id)}

\* The update found is the first one that lists the processor, wherever a
\* fallback stands in the list; without one it is the last fallback, and
\* without a fallback there is none.
KnownGoodFound ==
  search.done =>
    IF Listing(my_cpuid) # {}
    THEN search.entry \in Listing(my_cpuid) /\ \A i \in Listing(my_cpuid) : search.entry <= i
    ELSE IF Listing(FALLBACK_CPUID) # {}
    THEN /\ search.entry \in Listing(FALLBACK_CPUID)
         /\ \A i \in Listing(FALLBACK_CPUID) : i <= search.entry
    ELSE search.entry = 0
=============================================================================
