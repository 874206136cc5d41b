# AngryUEFI: models, checks and proofs

AngryUEFI is a UEFI application that runs microcode updates and machine code on
the cores of an AMD machine on behalf of a TCP client, AngryCAT. Core 0 (the boot
core) talks to the client; the other cores (APs) execute jobs. This directory
models the program in TLA+, checks the models with TLC on small instances, and
proves with TLAPS, for all sizes, the safety properties of the job protocol and that it
implements its abstract specification, the safety properties of the network connection,
of the capture buffers, of the page tables and of the updates: their slots, the jobs that use
them and the faults they end in.

Run a check with `tlc -config <run>.cfg <Module>.tla`, and the proofs with
`tlapm <Module>.tla` for `CoreJobsProofs`, `JobProofs`, `ServiceProofs`,
`SequenceLemmas`, `ConnectionProofs`, `CaptureProofs`, `PagingProofs` and `UcodeProofs`.
`PROJECT.json` maps each definition to source lines.

## The system

| Component | State | Operations | Talks to |
|---|---|---|---|
| Connection and dispatch (`AngryUEFI.c`, `Protocol.c`) | TCP instance and what else the firmware gave, `receive_buffer`, events | set up, accept, receive, dispatch, send | client; all handlers, by calls |
| Debug messages (`handlers/debug.c`) | none | PING, MULTIPING, GETMSGSIZE, REBOOT | connection |
| Job protocol (`handlers/cores.c`, `ucode_execute.c`, `ucode.c`, `system/smp.c`) | `core_contexts[]`: `present`, `started`, `ready`, `job_queued`, `lock`, fault flags, function slots, arguments, result buffer | STARTCORE, GETCORESTATUS, EXECUTEMACHINECODE, APPLYUCODEEXECUTETEST, GETLASTTESTRESULT, READMSRONCORE; `core_main_loop` on every AP | core 0 and each AP share one context, with a spin lock |
| Fault handling (`system/fault_handling*`) | IDT, TSS, stacks, fault data per context | entry per vector, restart of the main loop | runs on the core that faults; writes its context |
| Capture buffers (`asr/ibs.c`, `asr/dsm.c`, `handlers/handle_ibs.c`, `handle_dsm.c`) | per context an event buffer and its fill level | a job stores and clears; GETIBSBUFFER, GETDSMBUFFER | written by the AP's job, read by core 0, no lock |
| Page tables (`system/paging.c`) | CR3 and the tables behind it | GETPAGINGINFO, `create_minimal_paging` | core 0; used by `start_core` |
| Slots (`handlers/ucode.c`, `ucode_execute.c`) | 10 ucode slots of 16 KB, 10 machine code slots of 1 MB, the original update | SENDUCODE, FLIPBITS, SENDMACHINECODE, APPLYUCODE | read by jobs while they run; machine code may ask for a slot's address |
| Update stubs (`stubs.s`) | registers | apply an update, call machine code, restore | called by jobs; a rejected update goes through the fault handlers |
| Ucode database (`data/ucode`) | constant | search by CPUID | slots, at boot |
| ASR registry and system information (`asr/asr.c`, `sysinfo.c`) | constant | search by number | called by machine code |

What is hard here is concurrency without an operating system. A context is
shared by two processors; its lock is a hand-made spin lock; `ready` is written
by the AP, `job_queued` by both sides; a job may hang, fault, or finish long
after the request that started it was answered; a fault throws the AP back to
the start of its loop. A refused update is reported through a fault handler, a
register it patches and a comparison two instructions later; a handler that
takes one word too many off the stack faults itself. Slots are written while a
late job may still use them. Status and capture buffers are read with no lock at all.
On the network side TCP may cut a message anywhere and clients may vanish at any
time. `PROJECT.json` lists the hazards at their lines.

What makes the components right:

- *Job protocol*: a lock is never leaked and excludes; a job is neither lost,
  overwritten nor run twice; a response means what it says (timeout flag, fault
  flag, result, status); core 0 answers even if an AP does not.
- *Connection*: messages are what the client sent; responses can be matched to
  requests; only listed causes end the program; the next client is served; a
  failing firmware call at any point leaves nothing behind but what is listed.
- *Capture buffers*: a transfer delivers the events asked for, whole, in order,
  once, although the job goes on.
- *Slots, stubs, database*: slot 0 starts with the update for this processor;
  FLIPBITS changes the bits it lists and nothing else; what a job used is what its
  slots held when the client asked; machine code runs exactly if the update before it was taken.
- *Fault handling*: every fault is recorded with its place and leads back into
  the program, to the place that faulted or to the main loop.
- *Page tables*: reports are exact; an AP's reduced tables map the first 4 GB as
  core 0's do and nothing else, and starting it disturbs no one.

## Modules

| Module | Models |
|---|---|
| `JobService` | what the job protocol promises: jobs of a core come one after the other, and what the client is told about them |
| `CoreJobs` | the protocol in detail: one action per step between two accesses to what the other processor writes |
| `CoreJobsProperties`, `MCCoreJobs` | its properties; instances are in the configurations |
| `CoreJobsRefinement` | the mapping from `CoreJobs` to `JobService` |
| `CoreJobsProofs` | theorems about `CoreJobs`: types, locks |
| `JobProofs` | theorems about `CoreJobs`: what becomes of a job, and what is said of it |
| `ServiceProofs` | theorem that `CoreJobs` implements `JobService` |
| `CaptureBuffers` | IBS and DSM buffers and their transfer |
| `CaptureProofs` | theorems about `CaptureBuffers` |
| `Connection` | set-up, accept loop, framing, dispatch, debug handlers, clean-up |
| `SequenceLemmas` | induction, flattened and cut sequences |
| `ConnectionProofs` | theorems about `Connection` |
| `Paging`, `MCPaging` | page table reports and reduced tables |
| `PagingProofs` | theorems about `Paging` |
| `UcodeDB` | the search for the known good update |
| `FaultHandlers` | descriptor table and handlers, as functions on a processor's registers and stack |
| `UcodeJobs`, `MCUcodeJobs` | slots, their handlers, the stubs and machine code; composes `UcodeDB` and `FaultHandlers` |
| `UcodeProofs` | theorems about `UcodeJobs` |

The definitions named `X_Something` next to a definition `X`, commented as
mutants, are plausible bugs of that code; each property fails when one of
them replaces the original.

`"stray"`, in four of the modules, is the state of core 0 after an access that is outside
all objects of the program: behind an array or a buffer, through a null pointer, or at an address
without memory. Core 0 takes no step from there, because nothing defines what the
next one would be. So the properties say what holds up to such an access, and nothing of what
follows it. Which requests lead there is part of the model, and listed in `PROJECT.json` as
hazards.

### The job protocol

`ctx[c]` and `lock[c]` are a context. `pc[c]` is where an AP is in
`core_main_loop` and `handle_job`, `running[c]` the call it is executing. `boot`
is where core 0 is in the handler of request `req`, `back` where it continues after
`unlock_context`. `job`, `tripped`, `reply` and `stolen` are histories.

- Memory: accesses are taken in program order (x86 keeps stores in order, the
  lock is a `cmpxchg`, `unlock_context` ends in an `xchg`), and each action makes
  at most one access to a field the other side writes.
- `unlock_context` is two writes: a plain store of 0 and then an exchange. They
  are two actions. Between them the other side may take the lock, and then
  the exchange releases *its* lock. `stolen` records the contexts to which that
  has happened. `Undisturbed` (`stolen = {}`) and `QuietSpec` state what holds
  while it has not; several promises hold only then.
- The first function slot that is set stands for the list of slots. A job writes
  a result, may fault (with restart, or a protection fault that continues),
  execute `INT 8`, hang, or return. A double fault raised by the processor ends like any other
  fault: see *Faults* below.
- Ids run from 0 to `MaxCoreCount + 1`. The id `MaxCoreCount` passes the range check
  in STARTCORE, GETCORESTATUS and GETLASTTESTRESULT and names no context (a finding
  below); core 0 then is in the state `"stray"`. So it is when STARTCORE for all cores
  counts processors behind the last context (`NumCores > MaxCoreCount`); the model
  stops at the first of them, the code's loop would go on to the others.
- Timeouts are counted in iterations of the wait loop, of 1 ms each.
- Left out: `heartbeat` (only reported), what a fault report contains, the bytes of
  results. Faults on core 0 are in `UcodeJobs`.

Three behaviours of the code that are visible in the model. A second STARTCORE that
reads `started = 0` just before the AP sets it, and finds the AP's lock released,
replaces the fault information and CR3 value of the running core before the firmware
refuses to start it (`cores.c:242`); `NoJobOverwritten` shows that the core has no
job then, so no job is lost with them, but GETPAGINGINFO describes from then on tables the
core does not use. `ready` stays 1 until the AP accepts the
job, so a client that polls for `ready = 1` alone, as `src/README.md` has it between
the steps 6 and 7 of its example, may take a queued job for a finished one; together with
`job_queued` and `lock` it can tell (`StatusConsistent`). And a job may run while its context is not
locked, once the exchange of `unlock_context` has released the AP's lock
(`cores.c:38`), against the comment at `cores.h:176`.

### Capture buffers

One module for both buffers, since their handlers have the same loop; `Init`
chooses the device. `position` is `current_position` or `num_items`. Each entry is two
words, written and read one at a time, so that a torn event would be seen. The
job makes any sequence of calls: `ClearResults`, `StoreEntry`; `PrepareCapture`,
`StoreCapture`. The two reads of the fill level in `copy_ibs_entries` are two
actions; a compiler may make them one, which is the case without a step
in between. Arithmetic on `UINT64` wraps at `Wrap`. The filter for IBS events always has
the value "all", because the function that sets it is not registered (`asr.c:30`).
`disturbed` records that the job reused entries after the request came: then
nothing is promised, the packets may be malformed, and when the buffer is cleared
under the loop core 0 sends empty packets until the connection breaks. The model takes these steps; `TransferExact`, `NoUnderflow`
and `TransferEnds` have `~disturbed` as an antecedent and do not refute them, so these two hazards
are disclosed here and not caught by a property. What holds even then is that
core 0 stays inside the buffer (`BufferNotLeft`).

### Connection

`Init` is the first line of the program: `SetUp` lists the firmware calls in their order,
each of which succeeds (`Succeeds`, `held` gains what it returned) or fails
(`Fails`); `NoAddress` and `ConfigureAgain` are the wait for an address. The status
of the second `Configure` is not looked at; a failure shows as a failing
`Accept`. `CleanUp` is the label `CLEANUP`. The events of the set-up, the events of sent
packets and the children of accepted connections are left behind by the
code: `CleanedUp` excepts the first, `tx_events` counts the second, the third
are named here only.

The stream is a sequence of cells; `ChunkArrives` delivers any number of them up to
what was asked for. `rx_events` and `tx_events` count open events. `blame` records that
a client, the network or the firmware did something that ends the program: a
length field cut in two, a message cut short, one too small or of a wrong
version, a reset, a failing `Accept` or `CreateEvent`. A message longer than
`receive_buffer` (`"overlong"`), whose length no one compares with anything, leads core 0 astray
when the first byte too many arrives. A PING or MULTIPING whose PONG is
longer than `response_buffer` (`"ping_oversized"`) is first copied behind the end of
`payload_buffer`, which may lead astray; if it does not, `construct_message` refuses it, the
handler returns, and no packet is sent. MULTIPING explores 0, 1 and 3
packets, the others of `debug.c` and unknown types are there with their malformed forms; the
remaining messages are modelled in the other modules. Clients come one after the other, as
the accept loop takes them.

### Page tables

`memory` maps page numbers to entries. What the pages hold at the beginning is the constant
`Tables`, any function from pages to entries: entries that are not present and entries that map a large page
(the `ps` bit) are entries like any other to the code, which takes the address in them for that of a
table, so what they lead to is walked as a table here as well, whatever it is. `Unbacked` are page numbers
without memory: reading there leads core 0 astray. A table of 1024 entries is two pages, read as the
code reads it (`Entry`).

`ap[c]` is what STARTCORE sees of an AP: off, coming up with the lock held, or started.
`StartCheck` reads `started`; `StartRefused` and `StartAp` find the lock taken or free, so an AP
may be started again after `StartupThisAP` has failed, or too late, when it has set `started` in
between. `StartAp` is the rest of `start_core` with `create_minimal_paging`; `StartStray` its outcome
when one of the three calls of `AllocatePages`, which nobody checks, returns NULL and
the tables are copied to address 0, or when there is no memory to copy from.

GETPAGINGINFO is refused for a payload that is too short, a core id out of range, and a core that is
absent or has not said that it is started (`GetShort`, `GetRefused`). `get_pdpt_at`, `get_pd_at` and
`get_pt_at` are the functions of these names; `Expected`, the reference for the answers, finds the
tables by a recursion of its own (`Walk`). `TableEntry` is one round of the loop in
`send_table`; that and `send_entry` may fail to send.

### Slots, jobs and stubs

`UcodeJobs` looks at the same jobs as `CoreJobs` from the other end: what they do. That a
core takes a job once and when it is free is the subject of `CoreJobs`; here `job[c]` is
queued, running, done or aborted, and only the steps in between matter.
`ucodes[s]` is the memory of a slot, the set of bits that are 1, and its length;
`AllocatePages` does not clear what it returns (`Garbage`), and `CopyMem` writes as many
bytes as the message announces (`Written`). A job holds the *addresses* of its slots.
`cpu[c]` holds the registers that decide what happens (instruction pointer, stack, rax,
r9); the actions from `Apply` to `FinishJob` are the stubs between two
places at which something can happen. `Accepted` is what the processor takes as
an update. Machine code returns, raises an exception, applies the update in a
slot it asks for (`get_ucode_slot_addr`, or by a NULL address for an unknown one), or stays; it
is assumed not to write the slots or its caller's stack.

`before`, `job`, and `raised` are histories. Core 0 is in the state `"stray"` after an
APPLYUCODE for slot 10 or above, which no check refuses (`ucode.c:115`), after a SENDUCODE or
SENDMACHINECODE longer than a slot, whose length no one compares with it (`ucode.c:50`,
`ucode_execute.c:334`), after a FLIPBITS for which the pages of slot 1 could not be allocated
(`ucode.c:88`), and when the pages of slot 0 could not and there is an update to copy
(`ucode.c:309`). Nor is a length compared with that of its own message: what the handler
reads behind the message is, like the message, any of the updates, images and lists of positions.

What the model shows beside its properties:

- after a protection fault that is resumed rcx is lost (`store_registers` uses it
  and no one restores it); the stubs do not need it, machine code may;
- `apply_ucode_restore` returns the rax of its second `wrmsr`, and every job that
  restores sets the fault flag, because that `wrmsr` always fails (a finding below);
- machine code that faults never reaches the restoring part of its stub: the
  tested update would stay active even if the restoring part were right.

### Faults

`FaultHandlers` has functions, not actions: `Fault` is delivery by the processor, through
`idt` and its limit; `HandlerBody` a handler up to its `iretq`, `HandlerNotes` what it
records, `Iretq` the return, which raises a protection fault itself when it does
not find a code segment in its place. `UcodeJobs` makes actions of them. Addresses
are numbers because the protection fault handler resumes two bytes behind the
fault, wherever that is: the handlers follow each other in memory, and two
bytes behind the `iretq` of one begins the next. So a double fault goes like
this: handler 8 patches the wrong word of its frame, its `iretq` faults, handler 13
resumes behind it, which is handler 9; its `iretq` faults, handler 13 leads
to handler 10, which finds the frame it expects and returns to the main loop. The job is
lost, 10 is recorded, and the core goes on, where `fault_handling_stubs.s` says that a double
fault must always lock up the core (a finding below). A division error is recorded as 1
(`proto_handler_0`). `FaultOutcome` states what becomes of the vectors that have a handler of their own
and are recorded as themselves, 1 to 15 without 8; that the detour of vector 8 ends is part of `HandlersEnd`. An `INT n` for a vector with an error code
pushes none; `INT 8` is in `CoreJobs` (`JobDoubleFault`), the others are excluded.

### The database

`UcodeDB` is `get_update_for_cpuid`, one action per round of its loop. An entry that
lists the processor ends it; the last entry that lists `FALLBACK_CPUID` is
kept for the case that none does.

## Runs

| Run | What it shows | Bounds |
|---|---|---|
| `one_ap` | types, no leaked lock, exclusion, truthful responses and status, jobs run once; bounded requests are answered whatever the APs do; if they run, queued jobs are taken, also from under a polling core 0, and waits end | 1 AP and a processor without a context, 3 requests, timeouts 0 and 2, `MsrTimeout` 1 |
| `two_aps` | STARTCORE's success, no job overwritten or lost, fault flag and result belong to the job; `CoreJobs` implements `JobService` | 2 APs and a context without a processor, 3 requests, timeouts 0 and 1, no stolen lock |
| `timeout_flag`, `msr_buffer`, `core_ids` | findings | 1 AP, 1 to 3 requests |
| `capture_buffers` | transfers | 3 entries, 2 per packet, 4 calls |
| `connection` | set-up, framing, responses, events, survival, clean-up | every outcome of the set-up, 2 clients, 2 messages each, `receive_buffer` of 4 cells |
| `paging` | reports, refusals and reduced tables | tables of 2 and 4 entries, packets of 3, 2 APs and a context without a processor, 17 pages of which 11 are free, 1 request |
| `ucode_jobs` | slots, FLIPBITS, what jobs use, when machine code runs, where faults end | core 0 and 1 AP, 2 ucode slots, 1 machine code slot, updates of 2 bytes of 2 bits, 3 requests, vectors 0, 8, 13, 14, 19 |
| `restore`, `fallback`, `double_fault` | findings | as `ucode_jobs`; `fallback` raises vector 32, `double_fault` vector 8 |

Why these bounds are enough to be interesting: three requests are start, a job
and one more, which is what overwriting, losing, mistaking a flag or stealing a
lock takes; two APs let a step of one fall between two steps of core 0 with the
other. A timeout of 2 distinguishes "counted before compared" from its
neighbours. Three entries with two per packet need a full and a partial packet; four
calls fill the buffer and clear it, or capture, prepare and capture again. A table of four and
packets of three leave a rest; a table of two fits in one. One request is enough there: the
handler keeps nothing from one request to the next but buffers it sets up itself, and `AnswersExact` is
proved for any number. The free pages are enough for two starts and run out at the third, and the starts,
their failures and the request come in every order. Two messages
of one client are needed for one to run into the next, two clients for what one
leaves to the other. In `ucode_jobs` two bytes give a bit inside, behind and at the end of an
update of one byte; three requests are filling a slot, queueing a job and
changing the slot under it, or FLIPBITS between the two. The vectors are one
for each way through the handlers: a fault without an error code, one with, the
protection fault, the double fault, and one behind the table's limit. All configurations turn the deadlock check off: the
number of requests, calls and clients is bounded, and a hanging job is allowed.

Fairness. `BootFairSpec`: core 0 takes a step it can take; it is a processor of its
own, with no interrupts it waits for. `one_ap` checks under it alone that core 0 answers, so that this does
not depend on any AP. `ApsRun` says the same of each AP, except that no job must return; it is an
antecedent of `QueuedAccepted`, `PolledAccepted` and `SyncAnswered`. `Timing`, an antecedent of
`PolledAccepted`, says that an AP that
looks again and again does not look only at moments when core 0, which polls
without pause when the timeout is 0, holds the lock: nothing in the code
guarantees it, and `PolledAccepted` says no more than that the code does not keep the lock beside that. In
`CaptureBuffers` core 0's transfer is weakly fair, the job is not; in `Connection` the
server is weakly fair and the network delivers what was sent; the client is not, nor is
the firmware in the set-up. In `UcodeJobs` every core executes its instructions; nothing makes
machine code return or a client send.

## Findings

- `timeout_flag`: a response can lack the timeout flag though the job has just
  begun: the AP's second unlock write releases core 0's lock between its reads of
  `ready` and of `job_queued`, and the AP accepts the job in between.
- `core_ids`: STARTCORE, GETCORESTATUS and GETLASTTESTRESULT refuse core ids *above* `MAX_CORE_COUNT`
  as "out of range, only %u max cores are supported"; the id `MAX_CORE_COUNT` itself, one behind the
  last context, passes, and core 0 reads and writes behind `core_contexts`. The jobs and GETPAGINGINFO
  check with `>=`.
- `msr_buffer`: READMSRONCORE gives up after 100 ms while the AP still holds a pointer
  into the handler's stack.
- `restore`: the stubs that restore the original update give `wrmsr` the
  address of a constant that holds the address of the variable that holds the
  address of the update; the processor refuses it, the fault handler resumes, and
  the tested update stays.
- `fallback`: the limit of the descriptor table is given as the number of its last vector,
  but counts bytes: of 256 entries 16 are usable. A vector from 16 on raises a
  protection fault, which is recorded as 13 and resumed two bytes further, and
  the fallback handler is never reached.
- `double_fault`: the handler of the double fault means to lock the core up in `dummy_loop`, but leaves the
  error code on the stack, writes the loop's address over it, and returns to the wrong word; two protection faults
  later the core is back in its main loop.

## Proofs

Every invariant below was checked with TLC, as an invariant of a run's instance, before
it was proved. A theorem holds for all values of the constants that satisfy the
assumptions of its module; the proofs have one step per action.

### The job protocol

Assumptions: `CoreCounts`, `RequestBound` and `TimeoutRange` in `CoreJobs`: there is a processor,
a context, and timeouts are numbers. Both kinds of unlock write are covered.

| Theorem | States |
|---|---|
| `TypeCorrect` | `Spec => []TypeOK` |
| `NoLockLeaks`, `OwnersExclude` | `LockNotLeaked`, `MutualExclusion` |
| `StartsTruthfully` | `StartMeansRunning` |
| `JobsNotOverwritten`, `QueuedJobsKept` | `NoJobOverwritten`, `QueuedJobKept` |
| `JobsRunOnce` | `Spec => RunsOnce`, an action property |
| `CompletionIsTruthful`, `FaultFlagsExact`, `ResultsAreOwn` | the flags and the result of a response |
| `StatusIsConsistent` | `StatusConsistent` |
| `JobsRefineService` | `QuietSpec => ImplementsService` |

*Types and locks* (`CoreJobsProofs`). `TypeOK` is not inductive. `TypeInv` adds `Located`,
which ties core 0's place in the
code to its request and target (it dereferences a context only inside
`core_contexts`, except in `"stray"`), and `SlotsOwned`, which says that the job named
in a context is one of the requests served so far. `LockNotLeaked` and
`MutualExclusion` need each other, and a third part, `Guarded`: a place that stands for ownership is
entered only with the lock at 1 as long as nobody has stolen it. `LockInv` is their
conjunction; `SameOwners` says that a step that changes neither core's place nor
the lock keeps it.

*Jobs* (`JobProofs`). Three parts hold in every behaviour: `StartInv` (an AP that
has set `started` was handed to `core_main_loop`, core 0 gives jobs only to cores that
have, and the loop over all cores leaves none behind), `IdInv` (no two contexts name the
same job, and the request being served has no job until core 0 fills a slot) and the
invariants above. The others hold as long as no unlock has released the other side's
lock, so they are proved under `Undisturbed`; as `stolen` only grows, `QuietJobInv`,
`Undisturbed => JobInv`, is inductive:

- `Stages` relates `job_queued`, the place of the AP and the stage of the last job: the
  flag is set exactly while the job waits or its AP is taking it. `Places` says where the AP
  may find the flag set. These two carry the argument: `job_queued` is reset before
  the job runs, so a core 0 that reads 0 and holds the lock, which the AP keeps until
  the job is over, writes over no job.
- `Outputs`: `fault_info` and the result buffer are those of the job in the slot, because the AP
  resets the first before the call and core 0 the second before it fills the slot.
- `BootInv`: what core 0 remembers of its wait is true of the job it waited for.
- `SampleInv`: core 0 is the only one to queue jobs, so what it samples field by field
  cannot get newer behind its back.
- `HistoryInv`: what was told stays true.

The theorems say of the states in which a lock *was* stolen only what their
properties say. What can happen then is the subject of the findings. None of these proofs uses
`ready`: while no lock is stolen, core 0's tests of `ready` decide nothing that
`job_queued` and the lock have not decided.

*Refinement* (`ServiceProofs`). `ServiceInit` maps the initial states. `ApMapsTo` and
`BootMapsTo` take each action to the step of the service it is (an AP taking a job, a
job returning or faulting, core 0 queueing, answering) or, with `Stutters`, to none. They need
`JobInv`: that a slot is free when core 0 fills it is a precondition of the service's step
and not of the action's. `JobsRefineService` then combines them with the invariants of
`QuietSpec`. The mapping is that of `CoreJobsRefinement`, which run `two_aps` checks.

### The connection

Assumption: `ConnectionBounds`, the constants are numbers, and `receive_buffer` holds the shorter messages.

| Theorem | States |
|---|---|
| `ConnectionTypes` | `Spec => []TypeOK` |
| `MessagesFramed` | `Framed` |
| `AnswersInOrder` | `RepliesMatch` |
| `ReceiveEventsClosed` | `RxEventsClosed` |
| `EndsForCause` | `StopsForCause` |
| `ChildGivenBack` | `CleanedUp` |

`Framed` speaks about messages, the loop about cells. What joins them is `WireInv`: there is
an assignment of places, `ahead`, to messages, of which the one being received has
minus the number of cells already taken, so that every cell of the stream is the cell of its message.
Sending adds a place, receiving shifts them all. `BufferInv` says the rest: the buffer is
the beginning of the current message's body, and all of it when the message is handled.
`BlameInv` says that garbage and an end have a cause, `HeldInv` that the calls of the set-up
succeeded one after the other.

`RepliesMatch` is about the flattened promises of all messages, a recursive
definition. `AnswerInv` says it with the last message answered in part. Its step needs that the
flattening of one sequence more is the old one followed by the new, and the library states
that only with operators as parameters. `SequenceLemmas` proves it: `SetInduction` is
induction for a *set* of numbers, from the least number of its complement, which the
provers can instantiate; `FlatAppend` uses it on the recursive function in `FlattenSeq`.
A ping whose PONG does not fit is promised nothing, so `construct_message`'s refusal is
part of the theorem; a message that does not fit `receive_buffer` ends in `"stray"`.

### The capture buffers

Assumption: `BufferSizes`: the sizes are numbers, a packet fits into its buffer, and
`UINT64` is larger than every sum the code builds.

| Theorem | States |
|---|---|
| `CaptureTypes` | `Spec => []TypeOK` |
| `BufferNotLeft` | `[]InsideBuffer`: no access behind `event_buffer`, by the job or by core 0 |
| `TransfersExact` | `TransferExact` |
| `NothingUnderflows` | `NoUnderflow` |

The handlers take no lock. `BufferInv` says that below the fill level every entry is the
event recorded, and describes the entry that is being written behind it. `CopyInv` is about core 0 and
holds whatever the job does: its loop stays inside the buffer. `RequestInv` says what was
delivered, is in the packet and is left to send, and it holds until the job
reuses entries (`~disturbed`): the job then only writes behind the fill level
core 0 has read, so each of core 0's reads still finds what was promised. `NumberFits`,
`NoWrap` and `RingOrder` are the arithmetic: `%` never wraps, and the kth event in the ring of a
trace is the kth recorded.

### The page tables

Assumptions: `PagingSizes`, the sizes are numbers and `Low` is an index; `FirmwareTables`, the PML4 is
memory, what `AllocatePages` returns is, and the first PDPT is none of what it still has to give. Nothing
else is assumed of the firmware's tables.

| Theorem | States |
|---|---|
| `PagingTypes` | `Spec => []TypeOK` |
| `AnswersExact` | `AnswerExact` |
| `MinimalMappings` | `MinimalMapping` |
| `UsedTablesKept` | `Spec => TablesInUseKept`, an action property |

`MemoryInv` says that the pages in use at the beginning are as they were, that the tables of each AP that was
given some lie behind them and below `free`, and that an entry is always an entry. From it follows
`UsedTablesKept`, and with it that `TablesInv`, what `create_minimal_paging` wrote for an AP, stays; that is
`MinimalMapping` with core 0's tables in place of what they lead to. All this is for starts that find
memory; `StartStray` leads to a state without successors and writes nothing of which a theorem speaks.
For the answers, `FirstDecides`
compares the nested tests of `handle_get_paging_info` with `Expected`, and `Refused` those before them with
`Refusal`. `PacketsInv`
says of the loop in `send_table` that what was sent and what the payload buffer holds are the first
`i` entries, and how full the buffer is; `FillLevel` is the arithmetic of `i % MAX_ENTRIES_PER_PACKET`.

### The updates, their jobs and faults

Assumptions: `EntryList`, the database is a sequence of sets of CPUIDs; `CoreZero`,
`SlotCounts` and `UpdateSize`, there are slots 0 and 1 and an update has a size; `NoUpdateAtNull`, the
processor takes nothing at address 0 for an update; `Contents`, updates are sets of
bits, positions and vectors are numbers, and an image is not the NULL pointer. Nothing is assumed of the
updates the processor accepts or of the vectors machine code raises. The theorems speak of a run up to the first
access behind a slot, which a SENDUCODE of any length may make (`"stray"`).

| Theorem | States |
|---|---|
| `KnownGood` | `Spec => []KnownGoodFound` |
| `FlipsExactly` | `FlipExact` |
| `UcodeTypes` | `TypeOK` |
| `JobsUseRequest` | `JobUsesRequest` |
| `CodeRunsOnlyIfAccepted` | `CodeRunsIfAccepted` |
| `FaultsEndRight` | `Spec => FaultOutcome`, an action property |

*Core 0* (`SlotInv`). `SearchInv` is the invariant of the loop of `get_update_for_cpuid`: no
entry before `i` lists the processor, `fallback` is the last one before `i` for any
processor, and once the search has ended its result is right. `FlipInv` is that of
`handle_flip_bits`: `Flipped(n)` says that slot 1 is what `FlipExact` asks for with the first n
positions of the list in place of all; that the length read in each round is still the original's, also
when slot 1 is flipped in place, is part of it. `TimesGrow` counts one position more.

*A core* (`CoreInv`). `Runs` says of each place of the stubs what is on the stack and what
the job has used: between the `wrmsr` and the store of the result, rax says
whether the update was taken; behind the comparison only an accepted update reaches the
call. `Handling` follows an exception through the handlers by what lies on the
stack below the frame. There are three kinds of places: the entry of the first handler with the frame and perhaps an
error code, the last `iretq` with the patched frame, and, behind a double fault, the four places
of the detour in which handler 8's `iretq` faults, handler 13 steps two bytes further into handler 9,
and the same again from 9 to 10. `BodyHandles` and `IretHandles` are the steps along it, `FrameIs`, `RestIs`,
`BehindIs` and `TopOn` the stacks. `LeavesByIret` says that nothing else leaves the handlers;
`LastIs` says that an exception of the vectors in `Ordinary` reaches the handler of its own number.

*The request* (`UseInv`). While core 0 waits for a job, the slots it named are what they were, because
only core 0 writes slots. It is stated under `boot = "wait"`: after a timeout it need not
hold. `CodeThere` says that an image once written is never taken back, so a queued job
calls some image, if not the one asked for.

### Only model-checked

- Liveness, of all modules: `tlapm` has no rules for fairness and ENABLED.
- The findings: they are counterexamples.

## Not modelled

- Programming of the IBS and DSM registers: calls into hardware; what they would have to
  promise is in the processor's manual, not in this code.
- The ASR registry is a constant table searched by number; of its functions
  `get_ucode_slot_addr` and those of the capture buffers are modelled, `get_machine_slot_addr`
  and the addresses of the DSM stubs are not.
- Console output, the build, the data of `src/data`. Bytes of payloads are
  abstracted everywhere, so the byte order of the length field (`src/README.md` says big endian, the
  code uses the processor's own) is not visible.
- How many events the firmware can hold: `tx_events` grows with every packet (`AngryUEFI.c:82`),
  and there is no bound to state.
- The physical page behind a PDPT, PD or PT, which the code takes for the second
  half of a table of 1024 entries (`paging.c:34`), is reported as the code
  reports it; no property says what a reader should make of it.

## Plan

Every safety property the runs check is proved. Left are the temporal properties, and the parts under
"Not modelled": the registers of IBS and DSM, as an interface whose promises would be
taken from the manual, and the addresses of machine code slots and stubs.
