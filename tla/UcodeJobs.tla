----------------------------- MODULE UcodeJobs -----------------------------
(***************************************************************************)
(* Updates, machine code and what happens to them: the slots and their     *)
(* handlers (handlers/ucode.c, handlers/ucode_execute.c), the stubs that   *)
(* apply an update and call machine code (stubs.s), the slot addresses the *)
(* machine code may ask for (asr/sysinfo.c).  UcodeDB gives slot 0 its     *)
(* first content, FaultHandlers is where a rejected update or a faulting   *)
(* machine code ends up.                                                   *)
(*                                                                         *)
(* Core 0 and the APs share the slots: a job holds the address of a slot,  *)
(* not a copy.  That a core takes a job at most once and only when it is   *)
(* free is the subject of CoreJobs; here a job is queued, running, done or *)
(* aborted, as in JobService.                                              *)
(***************************************************************************)
EXTENDS UcodeDB, FaultHandlers, FiniteSets

CONSTANTS
  Cores,          \* 0 is core 0, the others are started APs
  UCODE_SLOTS, MACHINE_CODE_SLOTS,
  UpdateBytes,    \* bytes a slot's pages hold: UCODE_SIZE rounded up to pages
  ByteBits,       \* bits of a byte (8)
  Updates,        \* bound: the contents a client sends, sets of bits
  Accepted,       \* the contents the processor accepts as an update
  Flips,          \* bound: the lists of positions handle_flip_bits reads
  Images,         \* the machine code a client sends
  Vectors,        \* bound: the exceptions machine code raises
  DbUpdates,      \* content and length of the updates in db_entries
  Garbage,        \* bound: what AllocatePages may return uninitialised
  MaxRequests,    \* bound: requests core 0 receives in one run
  NULL

ASSUME CoreZero == 0 \in Cores /\ Cores \subseteq Nat
ASSUME SlotCounts == UCODE_SLOTS \in Nat \ {0, 1} /\ MACHINE_CODE_SLOTS \in Nat \ {0}
ASSUME UpdateSize == UpdateBytes \in Nat \ {0} /\ ByteBits \in Nat \ {0}
ASSUME NoUpdateAtNull == NULL \notin Accepted
ASSUME JobBound == MaxRequests \in Nat

Slots == 0 .. UCODE_SLOTS - 1
CodeSlots == 0 .. MACHINE_CODE_SLOTS - 1
Bits == 0 .. UpdateBytes * ByteBits - 1
ByteOf(position) == position \div ByteBits
BitsBelow(bytes) == {b \in Bits : ByteOf(b) < bytes}

\* An update is its bits, wherever it comes from; addresses are no contents.
ASSUME Contents ==
  /\ Updates \subseteq SUBSET Bits /\ Garbage \subseteq SUBSET Bits
  /\ DbUpdates \in [Entries -> [ucode : SUBSET Bits, length : 0 .. UpdateBytes]]
  /\ Flips \subseteq Seq(Nat) /\ Vectors \subseteq Nat /\ NULL \notin Images

VARIABLES
  ucodes,         \* per slot its memory, NULL or the set of bits that are 1,
                  \* and its length in bytes
  machine_codes,  \* per slot NULL or an image, and the length (zero or not)
  cpu,            \* the processors, see FaultHandlers
  loaded,         \* the update active on each core, NULL: the one it had
  context,        \* the job fields of the CoreContext
  boot,           \* where core 0 is between receiving a request and the answer
  req,            \* the request core 0 is serving
  flips,          \* positions handle_flip_bits has still to flip
  served          \* number of requests received

\* History.
VARIABLES
  job,            \* per core what its last job was asked to use and has used
  raised,         \* per core the last exception of its job
  before          \* the slots when core 0 received its request

slots == <<ucodes, machine_codes>>
cores == <<cpu, loaded, context, job, raised>>
serving == <<boot, req, flips, served, before>>
database == <<my_cpuid, search>>
vars == <<database, slots, cores, serving>>

\* The program's places outside the handlers.  A wrmsr has two bytes.
ApplyUpdate == 200
Applied == 202
RestoreUpdate == 210
Restored == 212
CallCode == 220
StubReturn == 230
Code == 300
InCode(c) == cpu[c].rip \in {Code, Code + 2}
Saved == 240                                \* what m_save_regs pushes
Caller == 250                               \* return address of the stub

NoSlots == [s \in Slots |-> [ucode |-> NULL, length |-> 0]]
NoFault == [occured |-> FALSE, number |-> 0, rip |-> 0]
NotRaised == [vector |-> -1, rip |-> 0, depth |-> 0]
Unused == [ucode |-> NULL, code |-> NULL]
NoJob == [state |-> "none", asked |-> Unused, used |-> Unused]
NoRequest == [op |-> "none"]

Init ==
  /\ SearchInit
  /\ ucodes = NoSlots
  /\ machine_codes = [s \in CodeSlots |-> [machine_code |-> NULL, length |-> 0]]
  /\ cpu = [c \in Cores |->
              [rip |-> MainLoop, stack |-> <<>>, rax |-> "other", r9 |-> "other"]]
  /\ loaded = [c \in Cores |-> NULL]
  /\ context = [c \in Cores |->
       [func |-> "none", restore |-> FALSE, ucode |-> 0, code |-> 0,
        ret_gpf_value |-> "zero", fault_info |-> NoFault]]
  /\ boot = "init" /\ req = NoRequest /\ flips = <<>> /\ served = 0
  /\ job = [c \in Cores |-> NoJob]
  /\ raised = [c \in Cores |-> NotRaised]
  /\ before = ucodes

-----------------------------------------------------------------------------
(***************************************************************************)
(* The slots.  AllocatePages may fail and does not clear what it returns;  *)
(* CopyMem overwrites as many bytes as the message announces and leaves    *)
(* the rest.                                                               *)
(***************************************************************************)
Written(memory, update, bytes) ==
  (memory \ BitsBelow(bytes)) \cup (update \cap BitsBelow(bytes))

\* The memory slot s has, or is given now.
Memory(s) == IF ucodes[s].ucode = NULL THEN Garbage ELSE {ucodes[s].ucode}

CoresKeep == UNCHANGED <<cores, database>>
\* The answer is sent and the message forgotten.
Reply == /\ boot' = "idle" /\ req' = NoRequest /\ before' = NoSlots
         /\ UNCHANGED <<flips, served>>
Refuse == Reply /\ CoresKeep /\ UNCHANGED slots

\* init_ucode: slot 0 holds the known good update, or nothing anybody chose, or
\* has no memory: what AllocatePages returns is not checked.
EnsureSlot0 ==
  /\ boot = "init" /\ SearchReturns
  /\ boot' = "idle"
  /\ ucodes' \in
       IF search.entry = 0
       THEN {[ucodes EXCEPT ![0] = [ucode |-> memory, length |-> UpdateBytes]] :
               memory \in Garbage \cup {NULL}}
       ELSE LET good == DbUpdates[search.entry] IN
            {[ucodes EXCEPT ![0] = [ucode |-> Written(memory, good.ucode, good.length),
                                    length |-> good.length]] : memory \in Garbage}
  /\ UNCHANGED <<machine_codes, cores, req, flips, served, before>>

\* The program has written where it has no memory, or behind the memory it has:
\* what follows is defined by nothing.
Stray ==
  /\ boot' = "stray"
  /\ CoresKeep /\ UNCHANGED <<slots, req, flips, served, before>>

\* The known good update is copied to a null pointer.
EnsureSlot0Stray == boot = "init" /\ search.done /\ search.entry # 0 /\ Stray

Search0 == boot = "init" /\ SearchNext /\ UNCHANGED <<slots, cores, serving>>

\* A request may be too short for its handler.  Nothing compares the lengths it
\* announces with the size of a slot, where one byte more stands for all, nor with
\* its own: ucode, flips and code are what the handler reads, be it the message or
\* what is behind it in memory.  The length of an image is none, some, or more than
\* MACHINE_CODE_SIZE.
Request ==
  [op : {"short"}]
  \cup [op : {"send_ucode"}, slot : 0 .. UCODE_SLOTS, ucode : Updates,
        length : 0 .. UpdateBytes + 1]
  \cup [op : {"flip_bits"}, slot : 0 .. UCODE_SLOTS, flips : Flips]
  \cup [op : {"send_code"}, slot : 0 .. MACHINE_CODE_SLOTS, code : Images,
        length : {0, 1, 2}]
  \cup [op : {"apply"}, slot : 0 .. UCODE_SLOTS, restore : BOOLEAN, core : {0}]
  \cup [op : {"test"}, slot : 0 .. UCODE_SLOTS, code : 0 .. MACHINE_CODE_SLOTS,
        restore : BOOLEAN, core : Cores]
  \cup [op : {"execute"}, code : 0 .. MACHINE_CODE_SLOTS, core : Cores]

Receive ==
  /\ boot = "idle" /\ served < MaxRequests
  /\ \E r \in Request : req' = r /\ boot' = r.op
  /\ served' = served + 1 /\ before' = ucodes
  /\ CoresKeep /\ UNCHANGED <<slots, flips>>

RefuseShort == boot = "short" /\ Refuse

\* Only a slot without memory allocates, and only then can it fail.
SendUcodeFails ==
  /\ boot = "send_ucode"
  /\ IF req.slot \in Slots THEN ucodes[req.slot].ucode = NULL ELSE TRUE
  /\ Refuse

SendUcode ==
  /\ boot = "send_ucode" /\ req.slot \in Slots /\ req.length <= UpdateBytes
  /\ \E memory \in Memory(req.slot) :
       ucodes' = [ucodes EXCEPT ![req.slot] =
                    [ucode |-> Written(memory, req.ucode, req.length),
                     length |-> req.length]]
  /\ Reply /\ CoresKeep /\ UNCHANGED machine_codes

\* The update is copied over what is behind the slot.
SendUcodeStray ==
  /\ boot = "send_ucode" /\ req.slot \in Slots /\ req.length > UpdateBytes /\ Stray

SendCodeFails ==
  /\ boot = "send_code"
  /\ IF req.slot \in CodeSlots
     THEN machine_codes[req.slot].machine_code = NULL ELSE TRUE
  /\ Refuse

\* An image of no bytes leaves the memory as it is.
SendCode ==
  /\ boot = "send_code" /\ req.slot \in CodeSlots /\ req.length <= 1
  /\ \E memory \in IF machine_codes[req.slot].machine_code = NULL
                    THEN Images ELSE {machine_codes[req.slot].machine_code} :
       machine_codes' = [machine_codes EXCEPT ![req.slot] =
         [machine_code |-> IF req.length = 0 THEN memory ELSE req.code,
          length |-> req.length]]
  /\ Reply /\ CoresKeep /\ UNCHANGED ucodes

SendCodeStray ==
  /\ boot = "send_code" /\ req.slot \in CodeSlots /\ req.length > 1 /\ Stray

(***************************************************************************)
(* handle_flip_bits works on slot 1, on a copy of the slot it was given if *)
(* that is another one.  The pages of slot 1 are used without looking      *)
(* whether there are any ("stray": the copy goes to address 0).            *)
(***************************************************************************)
FlipBitsFails ==
  /\ boot = "flip_bits"
  /\ IF req.slot \in Slots THEN ucodes[req.slot].ucode = NULL ELSE TRUE
  /\ Refuse

FlipBitsStray ==
  /\ boot = "flip_bits" /\ req.slot \in Slots \ {1}
  /\ ucodes[req.slot].ucode # NULL /\ ucodes[1].ucode = NULL /\ Stray

CopyToSlot1 ==
  /\ boot = "flip_bits" /\ req.slot \in Slots
  /\ ucodes[req.slot].ucode # NULL
  /\ \E memory \in Memory(1) :
       LET from == ucodes[req.slot] IN
       ucodes' = [ucodes EXCEPT ![1] =
                    [ucode |-> Written(memory, from.ucode, from.length),
                     length |-> from.length]]
  /\ boot' = "flip" /\ flips' = req.flips
  /\ CoresKeep /\ UNCHANGED <<machine_codes, req, served, before>>

Toggled(bits, b) == IF b \in bits THEN bits \ {b} ELSE bits \cup {b}

\* Mutant: the byte behind the update is flipped, too.
FlipBit_OffByOne ==
  /\ boot = "flip" /\ flips # <<>>
  /\ LET b == Head(flips) IN
     ucodes' = IF ByteOf(b) > ucodes[req.slot].length THEN ucodes
               ELSE [ucodes EXCEPT ![1].ucode = Toggled(@, b)]
  /\ flips' = Tail(flips)
  /\ CoresKeep /\ UNCHANGED <<machine_codes, boot, req, served, before>>
FlipBit ==
  /\ boot = "flip" /\ flips # <<>>
  /\ LET b == Head(flips) IN
     ucodes' = IF ByteOf(b) >= ucodes[req.slot].length THEN ucodes
               ELSE [ucodes EXCEPT ![1].ucode = Toggled(@, b)]
  /\ flips' = Tail(flips)
  /\ CoresKeep /\ UNCHANGED <<machine_codes, boot, req, served, before>>

FlipBitsDone ==
  /\ boot = "flip" /\ flips = <<>>
  /\ Reply /\ CoresKeep /\ UNCHANGED slots

-----------------------------------------------------------------------------
(***************************************************************************)
(* Jobs: handle_apply_ucode, handle_apply_ucode_execute_test and           *)
(* handle_execute_machine_code.  APPLYUCODE calls its stub directly and    *)
(* keeps what the others keep in the context in locals; it is a job of     *)
(* core 0 here.                                                            *)
(***************************************************************************)
UcodeEmpty(s) == ucodes[s].ucode = NULL \/ ucodes[s].length = 0
CodeEmpty(s) == machine_codes[s].machine_code = NULL \/ machine_codes[s].length = 0
Busy(c) == job[c].state \in {"queued", "running"}
IsJob == boot \in {"apply", "test", "execute"}

\* check_job_parameters; only APPLYUCODE does not check its slot.
CodeMissing == IF req.code \in CodeSlots THEN CodeEmpty(req.code) ELSE TRUE
UcodeMissing == IF req.slot \in Slots THEN UcodeEmpty(req.slot) ELSE TRUE
Missing ==
  CASE boot = "apply" -> req.slot \in Slots /\ UcodeEmpty(req.slot)
    [] boot = "test" -> UcodeMissing \/ CodeMissing
    [] OTHER -> CodeMissing

RefuseJob == IsJob /\ (Missing \/ Busy(req.core)) /\ Refuse

\* What lies behind the slots is taken for a slot.
ApplyStray == boot = "apply" /\ req.slot \notin Slots /\ Stray

Asked(r) ==
  [ucode |-> IF r.op = "execute" THEN NULL ELSE ucodes[r.slot].ucode,
   code |-> IF r.op = "apply" THEN NULL ELSE machine_codes[r.code].machine_code]

Queue(c) ==
  /\ context' = [context EXCEPT ![c] =
       [func |-> req.op,
        restore |-> IF req.op = "execute" THEN FALSE ELSE req.restore,
        ucode |-> IF req.op = "execute" THEN @.ucode ELSE req.slot,
        code |-> IF req.op = "apply" THEN @.code ELSE req.code,
        ret_gpf_value |-> "zero", fault_info |-> @.fault_info]]
  /\ job' = [job EXCEPT ![c] =
       [state |-> "queued", asked |-> Asked(req), used |-> Unused]]
  /\ boot' = "wait"
  /\ UNCHANGED <<slots, cpu, loaded, raised, database, req, flips,
                 served, before>>

\* Mutant: a core that runs a job is given another one.
QueueJob_Busy ==
  /\ IsJob /\ ~Missing /\ (req.op = "apply" => req.slot \in Slots)
  /\ Queue(req.core)
QueueJob ==
  /\ IsJob /\ ~Missing /\ (req.op = "apply" => req.slot \in Slots)
  /\ ~Busy(req.core)
  /\ Queue(req.core)

\* The result is sent; the history of the job ends with it.
JobEnds ==
  /\ boot = "wait" /\ ~Busy(req.core)
  /\ job' = [job EXCEPT ![req.core] = NoJob]
  /\ raised' = [raised EXCEPT ![req.core] = NotRaised]
  /\ Reply /\ UNCHANGED <<slots, cpu, loaded, context, database>>

\* wait_on_ap_exec gives up at a time of its own; the job stays.
WaitTimesOut ==
  /\ boot = "wait" /\ req.core # 0 /\ Busy(req.core)
  /\ Reply /\ CoresKeep /\ UNCHANGED slots

-----------------------------------------------------------------------------
(***************************************************************************)
(* A core runs its job.  A processor executes between two shared accesses  *)
(* as one step: the slot memory is read by wrmsr and by the call.          *)
(***************************************************************************)
BootKeeps == UNCHANGED <<slots, serving, database>>
At(c, rip) == cpu[c].rip = rip
Jump(c, rip) == cpu' = [cpu EXCEPT ![c].rip = rip]
Push(p, word, rip) == [p EXCEPT !.stack = <<word>> \o @, !.rip = rip]

\* handle_job zeroes the fault information; call_core_functions and the stub
\* leave their return address and the saved registers on the stack.
StartJob(c) ==
  /\ At(c, MainLoop) /\ job[c].state = "queued"
  /\ cpu' = [cpu EXCEPT ![c] =
       Push(Push(@, Caller, @.rip), Saved,
            IF context[c].func = "execute" THEN CallCode ELSE ApplyUpdate)]
  /\ context' = [context EXCEPT ![c].fault_info = NoFault]
  /\ job' = [job EXCEPT ![c].state = "running"]
  /\ raised' = [raised EXCEPT ![c] = NotRaised]
  /\ BootKeeps /\ UNCHANGED loaded

\* An exception at the present instruction.
Raises(c, v) ==
  /\ raised' = [raised EXCEPT ![c] =
       [vector |-> v, rip |-> cpu[c].rip, depth |-> Len(cpu[c].stack)]]
  /\ cpu' = [cpu EXCEPT ![c] = IF c = 0 THEN FaultOnCore0(@, v) ELSE Fault(@, v)]

\* wrmsr of the patch register: the processor takes the update at that
\* address or raises a #GP.
Wrmsr(c, update) ==
  \/ /\ update \in Accepted
     /\ loaded' = [loaded EXCEPT ![c] = update]
     /\ cpu' = [cpu EXCEPT ![c].rip = @ + 2, ![c].rax = "address"]
     /\ UNCHANGED raised
  \/ update \notin Accepted /\ Raises(c, 13) /\ UNCHANGED loaded

Apply(c) ==
  LET update == ucodes[context[c].ucode].ucode IN
  /\ At(c, ApplyUpdate)
  /\ Wrmsr(c, update)
  /\ job' = [job EXCEPT ![c].used.ucode = update]
  /\ BootKeeps /\ UNCHANGED context

\* rax is kept in r9 before rdtscp overwrites it.
AfterApply(c) ==
  LET k == context[c] IN
  IF k.func = "apply" THEN (IF k.restore THEN RestoreUpdate ELSE StubReturn)
  ELSE IF cpu[c].rax = "dead" THEN StubReturn ELSE CallCode
\* Mutant: rdtscp comes first, r9 never holds the handler's value.
StoreResult_TooLate(c) ==
  /\ At(c, Applied)
  /\ cpu' = [cpu EXCEPT ![c] =
       [@ EXCEPT !.rax = "ticks", !.r9 = "ticks",
                 !.rip = IF context[c].func = "apply" THEN AfterApply(c) ELSE CallCode]]
  /\ context' = [context EXCEPT ![c].ret_gpf_value = "ticks"]
  /\ BootKeeps /\ UNCHANGED <<loaded, job, raised>>
StoreResult(c) ==
  /\ At(c, Applied)
  /\ cpu' = [cpu EXCEPT ![c] =
       [@ EXCEPT !.r9 = cpu[c].rax, !.rax = "ticks", !.rip = AfterApply(c)]]
  /\ context' = [context EXCEPT ![c].ret_gpf_value = cpu[c].rax]
  /\ BootKeeps /\ UNCHANGED <<loaded, job, raised>>

CallMachineCode(c) ==
  LET back == IF context[c].func = "test" /\ context[c].restore
              THEN RestoreUpdate ELSE StubReturn IN
  /\ At(c, CallCode)
  /\ cpu' = [cpu EXCEPT ![c] = Push(@, back, Code)]
  /\ job' = [job EXCEPT ![c].used.code = machine_codes[context[c].code].machine_code]
  /\ BootKeeps /\ UNCHANGED <<loaded, context, raised>>

\* The restoring stubs load the address of original_ucode_s, a constant in
\* the image that holds the address of original_ucode: no update is there.
Restore(c) ==
  /\ At(c, RestoreUpdate)
  /\ Wrmsr(c, NULL)
  /\ BootKeeps /\ UNCHANGED <<context, job>>

AfterRestore(c) ==
  /\ At(c, Restored)
  /\ cpu' = [cpu EXCEPT ![c] =
       [@ EXCEPT !.r9 = cpu[c].rax, !.rip = StubReturn,
                 !.rax = IF context[c].func = "apply" THEN cpu[c].rax ELSE "ticks"]]
  /\ BootKeeps /\ UNCHANGED <<loaded, context, job, raised>>

\* m_restore_regs and ret.
FinishJob(c) ==
  /\ At(c, StubReturn)
  /\ cpu[c].stack[1] = Saved /\ cpu[c].stack[2] = Caller
  /\ cpu' = [cpu EXCEPT ![c].rip = MainLoop, ![c].stack = Behind(@, 2)]
  /\ job' = [job EXCEPT ![c].state = "done"]
  /\ BootKeeps /\ UNCHANGED <<loaded, context, raised>>

(***************************************************************************)
(* Machine code does what it likes.  Modelled: it returns, raises an       *)
(* exception, applies the update in a slot whose address it asks for, or   *)
(* stays.  It does not write the slots or the stack below it.              *)
(***************************************************************************)
get_ucode_slot_addr(s) == IF s >= UCODE_SLOTS THEN NULL ELSE ucodes[s].ucode

CodeReturns(c) ==
  /\ InCode(c)
  /\ cpu' = [cpu EXCEPT ![c].rip = cpu[c].stack[1], ![c].stack = Behind(@, 1)]
  /\ BootKeeps /\ UNCHANGED <<loaded, context, job, raised>>

CodeRaises(c) ==
  /\ At(c, Code)
  /\ \E v \in Vectors : Raises(c, v)
  /\ BootKeeps /\ UNCHANGED <<loaded, context, job>>

CodeApplies(c) ==
  /\ At(c, Code)
  /\ \E s \in 0 .. UCODE_SLOTS : Wrmsr(c, get_ucode_slot_addr(s))
  /\ BootKeeps /\ UNCHANGED <<context, job>>

CodeGoesOn(c) ==
  /\ At(c, Code + 2) /\ Jump(c, Code)
  /\ BootKeeps /\ UNCHANGED <<loaded, context, job, raised>>

\* The handlers of an AP.
HandlerRuns(c) ==
  /\ \E h \in 0 .. Fallback : At(c, Entry(h))
  /\ cpu' = [cpu EXCEPT ![c] = HandlerBody(@)]
  /\ context' = [context EXCEPT ![c].fault_info = HandlerNotes(cpu[c])]
  /\ BootKeeps /\ UNCHANGED <<loaded, job, raised>>

HandlerReturns(c) ==
  /\ \E h \in 0 .. Fallback : At(c, IretAt(h))
  /\ cpu' = [cpu EXCEPT ![c] = Iretq(@)]
  /\ BootKeeps /\ UNCHANGED <<loaded, context, job, raised>>

\* The main loop begins again; the job is lost.
RecoverCore(c) ==
  /\ At(c, Recovery)
  /\ cpu' = [cpu EXCEPT ![c] = Recover(@)]
  /\ job' = [job EXCEPT ![c].state = "aborted"]
  /\ BootKeeps /\ UNCHANGED <<loaded, context, raised>>

\* The steps a core takes by itself: all but what machine code does.
CoreMoves(c) ==
  \/ StartJob(c) \/ Apply(c) \/ StoreResult(c) \/ CallMachineCode(c)
  \/ Restore(c) \/ AfterRestore(c) \/ FinishJob(c)
  \/ HandlerRuns(c) \/ HandlerReturns(c) \/ RecoverCore(c)
CodeStep(c) ==
  CodeReturns(c) \/ CodeRaises(c) \/ CodeApplies(c) \/ CodeGoesOn(c)

BootMoves ==
  \/ Search0 \/ EnsureSlot0 \/ EnsureSlot0Stray \/ RefuseShort
  \/ SendUcodeFails \/ SendUcode \/ SendUcodeStray
  \/ SendCodeFails \/ SendCode \/ SendCodeStray
  \/ FlipBitsFails \/ FlipBitsStray \/ CopyToSlot1 \/ FlipBit \/ FlipBitsDone
  \/ RefuseJob \/ ApplyStray \/ QueueJob \/ JobEnds \/ WaitTimesOut

Next == Receive \/ BootMoves \/ \E c \in Cores : CoreMoves(c) \/ CodeStep(c)

Spec == Init /\ [][Next]_vars

\* Every core executes the instructions of the program.  Nothing makes
\* machine code return or a client send a request.
FairSpec == Spec /\ \A c \in Cores : WF_vars(CoreMoves(c))

-----------------------------------------------------------------------------
(* Properties. *)

\* Every variable keeps its type: no handler leads an AP to an address that is
\* not the program's, ret_gpf_value holds nothing but what wrmsr left in rax,
\* and only what the processor accepts is ever loaded.
TypeOK ==
  /\ my_cpuid \in Cpuids \cup {0} /\ search \in Search
  /\ \A s \in Slots : /\ ucodes[s].ucode \in {NULL} \cup SUBSET Bits
                     /\ ucodes[s].length \in 0 .. UpdateBytes
  /\ \A s \in CodeSlots : /\ machine_codes[s].machine_code \in {NULL} \cup Images
                         /\ machine_codes[s].length \in {0, 1}
  /\ \A c \in Cores :
       /\ cpu[c].rip \in {MainLoop, DummyLoop, Recovery, ApplyUpdate, Applied,
                         RestoreUpdate, Restored, CallCode, StubReturn, Code,
                         Code + 2} \cup Entry(0) .. IretAt(Fallback)
       /\ cpu[c].rax \in {"address", "dead", "ticks", "other"}
       /\ context[c].ret_gpf_value \in {"zero", "address", "dead"}
       /\ loaded[c] \in {NULL} \cup Accepted
       /\ job[c].state \in {"none", "queued", "running", "done", "aborted"}
  /\ boot \in {"init", "idle", "short", "send_ucode", "flip_bits", "flip", "send_code",
               "apply", "test", "execute", "wait", "stray"}

\* As long as no request has run past a slot, FLIPBITS leaves in slot 1 the update of
\* the slot it names with exactly the bits toggled that it lists an odd number of
\* times, positions behind the update ignored, and touches no other slot and
\* nothing behind the update, whatever slot 1 held and whether or not it is the
\* slot named.
FlipExact ==
  boot = "flip" /\ flips = <<>> =>
    LET from == before[req.slot]
        times(b) == Cardinality({i \in 1 .. Len(req.flips) : req.flips[i] = b})
    IN /\ \A b \in BitsBelow(from.length) :
            (b \in ucodes[1].ucode) = ((b \in from.ucode) # (times(b) % 2 = 1))
       /\ before[1].ucode # NULL =>
            ucodes[1].ucode \ BitsBelow(from.length)
              = before[1].ucode \ BitsBelow(from.length)
       /\ ucodes[1].length = from.length
       /\ \A s \in Slots \ {1} : ucodes[s] = before[s]

\* A job holds addresses: SENDUCODE, FLIPBITS and SENDMACHINECODE write what
\* it will use.  A client that gets its result without a timeout still knows
\* that what ran is what its slots held when it asked.
JobUsesRequest ==
  boot = "wait" /\ ~Busy(req.core) =>
    LET j == job[req.core] IN
    /\ j.used.ucode = j.asked.ucode
    /\ j.used.code \in {NULL, j.asked.code}

\* The machine code of a test runs if and only if the processor has taken the
\* update, and ret_gpf_value says which: the value 0xDEAD has to come from the
\* #GP handler through rax and r9 to the comparison, over two rdtscp.
CodeRunsIfAccepted ==
  \A c \in Cores :
    LET j == job[c] taken == j.used.ucode \in Accepted IN
    context[c].func = "test" /\ j.state = "done" =>
      /\ (j.used.code # NULL) = taken
      /\ (context[c].ret_gpf_value = "dead") = ~taken

\* What a fault on an AP comes to, over every handler it leads through, with the
\* vectors the table is long enough for but for #DE and the double fault: its
\* number and the address where it happened are recorded.  A #GP resumes two bytes
\* further on the same stack; all others return to the main loop.
Ordinary == 1 .. 15 \ {8}
FaultOutcome ==
  [][\A c \in Cores :
       LET r == raised[c] IN
       InHandlers(cpu[c].rip) /\ ~InHandlers(cpu'[c].rip) /\ r.vector \in Ordinary =>
         /\ context[c].fault_info = [occured |-> TRUE, number |-> r.vector, rip |-> r.rip]
         /\ Len(cpu'[c].stack) = r.depth
         /\ IF r.vector = 13
            THEN cpu'[c].rip = r.rip + 2 /\ cpu'[c].rax = "dead"
            ELSE cpu'[c].rip = Recovery]_vars

\* However it goes through the handlers, a fault ends: the AP is back in the
\* program, at the place that faulted or in the main loop.
HandlersEnd ==
  \A c \in Cores : InHandlers(cpu[c].rip) ~> ~InHandlers(cpu[c].rip)

-----------------------------------------------------------------------------
(* What the comments and messages say, and the code does not keep. *)

\* "Restoring after ucode.": behind the second wrmsr of a job that asked for
\* it, the original update is active again.
OriginalRestored ==
  \A c \in Cores :
    At(c, Restored) /\ job[c].used.ucode \in Accepted
      /\ ucodes[0].ucode \in Accepted
      => loaded[c] = ucodes[0].ucode

\* "used as a placeholder for non-present handlers, writes 0x100 as fault
\* number, no matter the fault" (fallback_handler).
FallbackNumber ==
  \A c \in Cores \ {0} :
    raised[c].vector >= proto_fault_handlers_count /\ InCode(c)
      => context[c].fault_info.number = 256

\* "this must always lock up the core even if later other handlers allow resume"
\* (proto_handler_8): a core with a double fault never runs the main loop again.
DoubleFaultLocksUp ==
  \A c \in Cores \ {0} : raised[c].vector = 8 => cpu[c].rip # Recovery
=============================================================================
