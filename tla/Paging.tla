------------------------------- MODULE Paging -------------------------------
(***************************************************************************)
(* Page tables (system/paging.c): core 0 reports a table or an entry to    *)
(* the client, and gives each AP it starts a reduced copy of its own       *)
(* tables.                                                                 *)
(*                                                                         *)
(* Memory is identity mapped: an entry's addr is the number of the page it *)
(* points to.  The code takes PDPT, PD and PT for tables of two pages, and *)
(* takes an entry for a pointer to a table whether it is present or not    *)
(* and whether it maps a large page: where it leads there may be no        *)
(* memory.  "stray" stands for what follows a read there, or a write       *)
(* through a null pointer, which nothing defines.                          *)
(***************************************************************************)
EXTENDS Integers, Sequences, SequencesExt

CONSTANTS
  PageEntries,  \* entries in a page, and in the PML4: 512
  PerPacket,    \* MAX_ENTRIES_PER_PACKET
  Low,          \* entries of the first PDPT that stay mapped: 4, for 4 GB
  BasePages,    \* page numbers in use when AngryUEFI starts
  FreePages,    \* pages behind them: all AllocatePages can give
  Tables,       \* what the pages hold then, taken for entries
  Unbacked,     \* page numbers without memory behind them
  NumCores,     \* get_available_cores(): processors the firmware reports
  MaxCoreCount, \* MAX_CORE_COUNT
  MaxRequests   \* bound on the requests

Root == 1
LastPage == BasePages + FreePages
Entries == [addr : 0 .. LastPage - 1, present : BOOLEAN]

ASSUME PagingSizes ==
  /\ PageEntries \in Nat \ {0} /\ PerPacket \in Nat \ {0} /\ MaxRequests \in Nat
  /\ Low \in 0 .. PageEntries /\ BasePages \in Nat \ {0, 1} /\ FreePages \in Nat
  /\ NumCores \in Nat \ {0} /\ MaxCoreCount \in Nat \ {0}

\* The firmware's tables may hold anything.  Only the PML4 has to be there, what
\* AllocatePages gives is memory, and the PDPT that maps this program is none of it.
ASSUME FirmwareTables ==
  /\ Tables \in [0 .. LastPage -> [0 .. PageEntries - 1 -> Entries]]
  /\ Unbacked \subseteq 0 .. LastPage
  /\ Unbacked \cap ({Root} \cup BasePages .. LastPage - 1) = {}
  /\ Tables[Root][0].addr < BasePages

VARIABLES
  memory,    \* page |-> its entries
  free,      \* the next page AllocatePages returns
  cr3,       \* cr3_value of each context
  ap,        \* each AP: "off", "coming" up, or "started" as its context says
  requests,  \* requests so far
  expected,  \* history: what the client should receive
  phase, starting,               \* what core 0 does, and the core it starts
  base, count, level, i,         \* send_table
  payload,   \* entries in payload_buffer
  packets,   \* history: packets of the answer
  answer     \* history: how the request ended

paging == <<memory, free, cr3>>
sending == <<base, count, level, i, payload>>
result == <<packets, answer>>
vars == <<paging, ap, requests, expected, phase, starting, sending, result>>

Contexts == 0 .. MaxCoreCount - 1
present(c) == c < NumCores
Aps == {c \in Contexts : 0 < c /\ present(c)}
started(c) == c = 0 \/ (c \in Aps /\ ap[c] = "started")
TwoPages == 2 * PageEntries

\* Core ids a client sends: one behind core_contexts shows both sides.
Ids == 0 .. MaxCoreCount

\* Values of an index that name no entry: CURRENT_TABLE and PREVIOUS_ENTRY.
CurrentTable == -1
PreviousEntry == -2
IndexBeyond == TwoPages
Index == {CurrentTable, PreviousEntry} \cup 0 .. IndexBeyond

Init ==
  /\ memory = Tables /\ free = BasePages
  /\ cr3 = [c \in Contexts |-> IF c = 0 THEN Root ELSE 0]
  /\ ap = [c \in Aps |-> "off"]
  /\ requests = 0 /\ expected = [answer |-> "none", entries |-> <<>>]
  /\ phase = "idle" /\ starting = 0
  /\ base = 0 /\ count = 0 /\ level = 0 /\ i = 0
  /\ payload = <<>> /\ packets = <<>> /\ answer = "none"

\* The page of entry k of a table that begins at page p, and the entry.
PageOf(p, k) == p + (k \div PageEntries)
\* Entry k of the table that begins at page p.
Entry(m, p, k) == m[PageOf(p, k)][k % PageEntries]

\* The table behind entry k of a table.  A null table leads to a null table.
Behind(p, k) == IF p = 0 THEN 0 ELSE Entry(memory, p, k).addr

get_pdpt_at(root, at) == Behind(root, at[1])
get_pd_at(root, at) == Behind(get_pdpt_at(root, at), at[2])
get_pt_at(root, at) == Behind(get_pd_at(root, at), at[3])

\* The table of level l (4 is the PML4) behind the entries at the indexes.
Table(l, root, at) ==
  CASE l = 4 -> root
    [] l = 3 -> get_pdpt_at(root, at)
    [] l = 2 -> get_pd_at(root, at)
    [] l = 1 -> get_pt_at(root, at)

-----------------------------------------------------------------------------
(* start_core with create_minimal_paging. *)

\* An entry of the new PDPT.
\* Mutant: one entry too many stays mapped.
PdptEntry_OneMore(e, k) == IF k <= Low THEN e ELSE [e EXCEPT !.present = FALSE]
PdptEntry(e, k) == IF k < Low THEN e ELSE [e EXCEPT !.present = FALSE]

Pml4Entry(e, k, pdpt) ==
  IF k = 0 THEN [e EXCEPT !.addr = pdpt] ELSE [e EXCEPT !.present = FALSE]

\* Mutant: the PDPT is reduced in place.
PdptPage_InPlace == memory[Root][0].addr
PdptPage == free + 1

Keeps == UNCHANGED <<requests, expected, sending, result>>

\* started is read before the lock is taken.
StartCheck(c) ==
  /\ phase = "idle" /\ ap[c] # "started"
  /\ phase' = "start" /\ starting' = c
  /\ Keeps /\ UNCHANGED <<paging, ap>>

\* The AP holds the lock from its start until it has said that it is started.
StartRefused ==
  /\ phase = "start" /\ ap[starting] # "off" /\ phase' = "idle"
  /\ Keeps /\ UNCHANGED <<paging, ap, starting>>

TakesLock == phase = "start" /\ ap[starting] # "coming"

\* The pages create_minimal_paging reads.
Copied == LET pdpt == get_pdpt_at(Root, <<0>>)
              pd == get_pd_at(Root, <<0, 0>>)
          IN {pdpt, pdpt + 1, pd, pd + 1}

\* The new PML4 and PDPT; a copy of the first PD is made as well, and used by
\* nobody.  Then StartupThisAP: the firmware refuses an AP that is not idle,
\* and may fail for reasons of its own.  The new tables stay.
StartAp ==
  LET pdpt == get_pdpt_at(Root, <<0>>)
      pd == get_pd_at(Root, <<0, 0>>)
      Pdpt(half) == [k \in 0 .. PageEntries - 1 |->
                       PdptEntry(memory[pdpt + half][k], half * PageEntries + k)]
  IN /\ TakesLock /\ free + 5 <= LastPage /\ Copied \cap Unbacked = {}
     /\ memory' = [memory EXCEPT
          ![free] = [k \in DOMAIN @ |-> Pml4Entry(memory[Root][k], k, PdptPage)],
          ![PdptPage] = Pdpt(0), ![PdptPage + 1] = Pdpt(1),
          ![free + 3] = memory[pd], ![free + 4] = memory[pd + 1]]
     /\ cr3' = [cr3 EXCEPT ![starting] = free] /\ free' = free + 5
     /\ \/ ap[starting] = "off" /\ ap' = [ap EXCEPT ![starting] = "coming"]
        \/ UNCHANGED ap
     /\ phase' = "idle" /\ Keeps /\ UNCHANGED starting

\* None of the three results of AllocatePages is checked: the tables are copied
\* to a null pointer.  Or there is no memory to copy from.
StartStray ==
  /\ TakesLock /\ phase' = "stray"
  /\ Keeps /\ UNCHANGED <<paging, ap, starting>>

ApStarted(c) ==
  /\ ap[c] = "coming" /\ ap' = [ap EXCEPT ![c] = "started"]
  /\ Keeps /\ UNCHANGED <<paging, phase, starting>>

-----------------------------------------------------------------------------
(* handle_get_paging_info. *)

\* The tables on the way of a request.
Walk(root, at) ==
  LET table[n \in 1 .. 4] ==
        IF n = 1 THEN root
        ELSE IF table[n - 1] = 0 THEN 0
        ELSE Entry(memory, table[n - 1], at[n - 1]).addr
  IN table

NoEntries(why) == [answer |-> why, entries |-> <<>>]

\* Why GETPAGINGINFO should be refused for a core whose tables are not known.
Refusal(c) == CASE c \in Aps -> "not_started"
                [] c \in Contexts /\ c \notin Aps -> "absent"
                [] OTHER -> "no_context"

\* What GETPAGINGINFO should answer for a core whose tables are known: the
\* first of the four indexes that is out of range or special decides.
\* CURRENT_TABLE asks for the table the indexes before it lead to,
\* PREVIOUS_ENTRY for the entry that leads there; without either the answer is
\* the entry of the page table.
Expected(c, at) ==
  LET Size(n) == IF n = 1 THEN PageEntries ELSE TwoPages
      One(n, k) == [entry |-> Entry(memory, Walk(cr3[c], at)[n], k), position |-> k,
                    level |-> 5 - n]
      Deciding == {n \in 1 .. 4 : at[n] \notin 0 .. Size(n) - 1}
      d == CHOOSE n \in Deciding : \A k \in Deciding : n <= k
  IN IF Deciding = {} THEN [answer |-> "entries", entries |-> <<One(4, at[4])>>]
     ELSE CASE at[d] = CurrentTable ->
                 [answer |-> "entries", entries |-> [k \in 1 .. Size(d) |-> One(d, k - 1)]]
            [] at[d] = PreviousEntry /\ d > 1 ->
                 [answer |-> "entries", entries |-> <<One(d - 1, at[d - 1])>>]
            [] OTHER -> NoEntries(<<"pml4", "pdpt", "pd", "pt">>[d])

SendStatus(code) ==
  /\ answer' = code /\ packets' = <<>>
  /\ UNCHANGED <<phase, sending>>

Astray == phase' = "stray" /\ UNCHANGED <<sending, result>>

\* The entry cannot be sent: a status is sent instead, if that is possible.
SendEntry(table, k, l) ==
  IF PageOf(table, k) \in Unbacked THEN Astray
  ELSE \/ /\ packets' = <<[entries |-> <<[entry |-> Entry(memory, table, k),
                                         position |-> k, level |-> l]>>, last |-> TRUE]>>
          /\ answer' = "entries"
          /\ UNCHANGED <<phase, sending>>
       \/ SendStatus("failed")

SendTable(table, length, l) ==
  /\ phase' = "table" /\ base' = table /\ count' = length /\ level' = l
  /\ i' = 0 /\ payload' = <<>> /\ packets' = <<>> /\ answer' = "none"

OutOfRange(l) == <<"pt", "pd", "pdpt", "pml4">>[l]

\* The decisions from level l downwards; table is the one that
\* level's index belongs to.
AtLevel4(root, at) ==
  \/ at[1] = CurrentTable /\ SendTable(root, PageEntries, 4)
  \/ at[1] = PreviousEntry /\ SendStatus(OutOfRange(4))
  \/ at[1] >= PageEntries /\ SendStatus(OutOfRange(4))

\* The index of level l is the (5 - l)th.
\* Mutant: the index behind the last entry is accepted.
AtLevel_OneBehind(l, root, at) ==
  LET n == 5 - l
      above == Table(l + 1, root, at)
      table == Table(l, root, at)
  IN \/ at[n] = CurrentTable /\ SendTable(table, TwoPages, l)
     \/ at[n] = PreviousEntry /\ SendEntry(above, at[n - 1], l + 1)
     \/ at[n] > TwoPages /\ SendStatus(OutOfRange(l))
     \/ at[n] \in 0 .. TwoPages /\ l = 1 /\ SendEntry(table, at[n], 1)
AtLevel(l, root, at) ==
  LET n == 5 - l
      above == Table(l + 1, root, at)
      table == Table(l, root, at)
  IN \/ at[n] = CurrentTable /\ SendTable(table, TwoPages, l)
     \/ at[n] = PreviousEntry /\ SendEntry(above, at[n - 1], l + 1)
     \/ at[n] >= TwoPages /\ SendStatus(OutOfRange(l))
     \/ at[n] \in 0 .. TwoPages - 1 /\ l = 1 /\ SendEntry(table, at[n], 1)

Passes(at, n) == at[n] \in 0 .. (IF n = 1 THEN PageEntries ELSE TwoPages) - 1

\* get_pdpt_at, get_pd_at and get_pt_at read the entry at each index before the
\* nth, unless its table is null.
Lost(root, at, n) ==
  \E k \in 1 .. n - 1 : LET table == Table(5 - k, root, at) IN
    table # 0 /\ PageOf(table, at[k]) \in Unbacked

Receive(wanted) ==
  /\ phase = "idle" /\ requests < MaxRequests /\ requests' = requests + 1
  /\ expected' = wanted
  /\ UNCHANGED <<paging, ap, starting>>

\* The payload may be too short for a request.
GetShort == Receive(NoEntries("short")) /\ SendStatus("short")

\* The core id is compared with the contexts, the processors and started.
GetRefused(c) ==
  /\ ~started(c) /\ Receive(NoEntries(Refusal(c)))
  /\ \/ c >= MaxCoreCount /\ SendStatus("no_context")
     \/ c < MaxCoreCount /\ ~present(c) /\ SendStatus("absent")
     \/ c < MaxCoreCount /\ present(c) /\ SendStatus("not_started")

Get(c, at) ==
  /\ started(c) /\ Receive(Expected(c, at))
  /\ \/ AtLevel4(cr3[c], at)
     \/ \E n \in 2 .. 4 :
          /\ \A k \in 1 .. n - 1 : Passes(at, k)
          /\ IF Lost(cr3[c], at, n) THEN Astray ELSE AtLevel(5 - n, cr3[c], at)

\* send_table: before an entry that starts a new packet the full one goes out.
\* Mutant: an empty packet goes out first.
TableEntry_EmptyFirst ==
  LET e == [entry |-> Entry(memory, base, i), position |-> i, level |-> level]
      full == i % PerPacket = 0
  IN /\ phase = "table" /\ i < count /\ i' = i + 1
     /\ payload' = IF full THEN <<e>> ELSE Append(payload, e)
     /\ packets' = IF full THEN Append(packets, [entries |-> payload, last |-> FALSE])
                           ELSE packets
     /\ UNCHANGED <<paging, ap, requests, expected, phase, starting, base, count, level,
                    answer>>
TableEntry ==
  LET e == [entry |-> Entry(memory, base, i), position |-> i, level |-> level]
      full == i % PerPacket = 0 /\ i # 0
  IN /\ phase = "table" /\ i < count /\ PageOf(base, i) \notin Unbacked
     /\ i' = i + 1
     /\ payload' = IF full THEN <<e>> ELSE Append(payload, e)
     /\ packets' = IF full THEN Append(packets, [entries |-> payload, last |-> FALSE])
                           ELSE packets
     /\ UNCHANGED <<paging, ap, requests, expected, phase, starting, base, count, level,
                    answer>>

TableEnd ==
  /\ phase = "table" /\ i = count /\ phase' = "idle" /\ answer' = "entries"
  /\ packets' = Append(packets, [entries |-> payload, last |-> TRUE])
  /\ UNCHANGED <<paging, ap, requests, expected, starting, sending>>

TableStray ==
  /\ phase = "table" /\ i < count /\ PageOf(base, i) \in Unbacked /\ Astray
  /\ UNCHANGED <<paging, ap, requests, expected, starting>>

\* A packet cannot be sent: a status is sent instead, if that is possible.
TableFails ==
  /\ phase = "table" /\ (i = count \/ (i % PerPacket = 0 /\ i # 0))
  /\ phase' = "idle" /\ answer' = "failed"
  /\ UNCHANGED <<paging, ap, requests, expected, starting, sending, packets>>

Next ==
  \/ \E c \in Aps : StartCheck(c) \/ ApStarted(c)
  \/ StartRefused \/ StartAp \/ StartStray
  \/ GetShort \/ \E c \in Ids : GetRefused(c)
  \/ \E c \in Contexts, at \in Index \X Index \X Index \X Index : Get(c, at)
  \/ TableEntry \/ TableStray \/ TableEnd \/ TableFails
Spec == Init /\ [][Next]_vars

-----------------------------------------------------------------------------
Report == [entry : Entries, position : 0 .. TwoPages - 1, level : 1 .. 4]

Refusals == {"short", "no_context", "absent", "not_started"}
Answers == {"none", "entries", "pml4", "pdpt", "pd", "pt"} \cup Refusals

\* Every variable keeps its type: with whatever the firmware's tables hold,
\* what core 0 reads as an entry is on a page it can name, or it is astray.
TypeOK ==
  /\ memory \in [0 .. LastPage -> [0 .. PageEntries - 1 -> Entries]]
  /\ free \in BasePages .. LastPage /\ cr3 \in [Contexts -> 0 .. LastPage - 1]
  /\ ap \in [Aps -> {"off", "coming", "started"}]
  /\ requests \in 0 .. MaxRequests
  /\ expected \in [answer : Answers, entries : Seq(Report)]
  /\ phase \in {"idle", "start", "table", "stray"} /\ starting \in Aps \cup {0}
  /\ base \in 0 .. LastPage - 1
  /\ count \in {0, PageEntries, TwoPages} /\ level \in 0 .. 4 /\ i \in 0 .. count
  /\ payload \in Seq(Report)
  /\ packets \in Seq([entries : Seq(Report), last : BOOLEAN])
  /\ answer \in Answers \cup {"failed"}

\* send_table and send_entry: the packets hold exactly what was asked for, in
\* order, all but the last one full, and only the last one marked as last.
AnswerExact ==
  requests > 0 /\ phase \in {"idle", "start"} /\ answer # "failed" =>
    /\ answer = expected.answer
    /\ FlattenSeq([k \in 1 .. Len(packets) |-> packets[k].entries]) = expected.entries
    /\ \A k \in 1 .. Len(packets) :
         /\ packets[k].last <=> k = Len(packets)
         /\ IF packets[k].last THEN Len(packets[k].entries) \in 1 .. PerPacket
                               ELSE Len(packets[k].entries) = PerPacket

Unmapped == -1

\* Where the hardware, whose tables fill one page, finds the PD.
Reach(root, i4, i3) ==
  LET pml4e == Entry(memory, root, i4)
      pdpte == Entry(memory, pml4e.addr, i3)
  IN IF pml4e.present /\ pdpte.present THEN pdpte.addr ELSE Unmapped

\* "unmap all pages in PDPT[0], except first 4 GB": an AP sees the first 4 GB
\* as core 0 does, and nothing else.
MinimalMapping ==
  \A c \in Aps : cr3[c] # 0 =>
    \A i4, i3 \in 0 .. PageEntries - 1 :
      Reach(cr3[c], i4, i3) =
        IF i4 = 0 /\ i3 < Low THEN Reach(Root, i4, i3) ELSE Unmapped

\* Starting a core, again after a failure or too late as well, changes neither
\* core 0's tables nor those of another AP, nor the ones an AP was given before,
\* as long as AllocatePages succeeds: if not, core 0 goes astray.
TablesInUseKept == [][\A p \in 0 .. free - 1 : memory'[p] = memory[p]]_vars
=============================================================================
