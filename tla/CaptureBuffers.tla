--------------------------- MODULE CaptureBuffers ---------------------------
(***************************************************************************)
(* The buffers in which a job on an AP collects IBS samples (asr/ibs.c) or *)
(* a DSM trace (asr/dsm.c), and the handlers by which core 0 sends such a  *)
(* buffer to the client in several packets while the job may still run     *)
(* (handlers/handle_ibs.c, handlers/handle_dsm.c).                         *)
(*                                                                         *)
(* Nothing locks these buffers: each action makes at most one access to    *)
(* what the other side writes.  An event is two words; the job is any      *)
(* sequence of calls of the registered functions.                          *)
(***************************************************************************)
EXTENDS Integers, Sequences, FiniteSets

CONSTANTS
  MaxEntries,   \* MAX_IBS_ENTRIES, MAXIMUM_DSM_ENTRIES
  PerPacket,    \* MAX_IBS_EVENTS_PER_PACKET, MAX_DSM_EVENTS_PER_PACKET
  Header,       \* size of a packet without events, counted in events
  Capacity,     \* what construct_message accepts, counted in events
  Wrap,         \* where UINT64 wraps around
  Starts,       \* start_index of the requests explored
  Counts,       \* entry_count of the requests explored
  MaxCalls      \* bound on the calls a job makes

ASSUME BufferSizes ==
  /\ MaxEntries \in Nat \ {0} /\ PerPacket \in Nat \ {0}
  /\ Header \in Nat /\ Capacity \in Nat /\ Capacity >= Header + PerPacket
  /\ Wrap \in Nat /\ Wrap > 2 * MaxEntries + Capacity /\ Wrap > MaxEntries + Header
  /\ Starts \subseteq 0 .. Wrap - 1 /\ Counts \subseteq 0 .. MaxEntries + 1
  /\ MaxCalls \in Nat

VARIABLES
  device,      \* which of the two buffers
  position,    \* current_position, num_items: how many entries count
  entries,     \* event_buffer
  step, at,    \* the AP: where it is in a call, and in a loop over entries
  oldest,      \* DSM: index of the oldest event in the hardware's ring
  calls,       \* calls made; numbers the event, or trace, of a call
  log,         \* history: the events recorded since the buffer was cleared
  phase,       \* core 0: where it is in the handler
  get,         \* start_index and entry_count of the request
  start, left, end,   \* start_index, events_to_send, end_index
  packet,      \* events copied to payload_buffer
  answer,      \* history: how the request ended
  delivered,   \* history: events the client has received
  promised,    \* history: events the request asked for
  disturbed    \* history: entries were reused since the request came

ap == <<device, position, entries, step, at, oldest, calls, log>>
core0 == <<phase, get, start, left, end, packet, answer, delivered, promised>>
vars == <<ap, core0, disturbed>>

Smaller(a, b) == IF a < b THEN a ELSE b
Unset == -1
Indexes == 0 .. MaxEntries - 1
Event(n) == [lo |-> n, hi |-> n]

Init ==
  /\ device \in {"ibs", "dsm"}
  /\ position = 0 /\ entries = [i \in Indexes |-> Event(0)]
  /\ step = "job" /\ at = 0 /\ oldest = 0 /\ calls = 0 /\ log = <<>>
  /\ phase = "idle" /\ get = [start |-> 0, count |-> 0]
  /\ start = 0 /\ left = 0 /\ end = 0 /\ packet = <<>>
  /\ answer = "none" /\ delivered = <<>> /\ promised = <<>>
  /\ disturbed = FALSE

-----------------------------------------------------------------------------
(* The AP. *)

Call(d) == /\ device = d /\ step = "job" /\ calls < MaxCalls
           /\ calls' = calls + 1
           /\ UNCHANGED <<device, core0>>

\* clear_ibs_results.  The filter that clear_ibs_results_reset_filter resets
\* always has the value IBS_FILTER_ALL: nothing registered sets it.
ClearResults ==
  /\ Call("ibs") /\ position' = 0 /\ log' = <<>> /\ disturbed' = TRUE
  /\ UNCHANGED <<entries, step, at, oldest>>

\* store_ibs_entry: nothing is written once the buffer is full.
\* Mutant: the buffer's end is not checked.
StoreEntry_WhenFull ==
  /\ Call("ibs") /\ step' = "store_lo"
  /\ UNCHANGED <<position, entries, at, oldest, log, disturbed>>
StoreEntry ==
  /\ Call("ibs") /\ position < MaxEntries /\ step' = "store_lo"
  /\ UNCHANGED <<position, entries, at, oldest, log, disturbed>>

WriteWord(word, i, n) == entries' = [entries EXCEPT ![i][word] = n]

StoreLow ==
  /\ step = "store_lo" /\ step' = "store_hi"
  /\ WriteWord("lo", position, calls)
  /\ UNCHANGED <<device, position, at, oldest, calls, log, core0, disturbed>>

StoreHigh ==
  /\ step = "store_hi" /\ step' = "advance"
  /\ WriteWord("hi", position, calls)
  /\ UNCHANGED <<device, position, at, oldest, calls, log, core0, disturbed>>

StoreAdvance ==
  /\ step = "advance" /\ step' = "job"
  /\ position' = position + 1 /\ log' = Append(log, calls)
  /\ UNCHANGED <<device, entries, at, oldest, calls, core0, disturbed>>

\* prepare_dsm_capture zeroes the header, then the entries one by one.
PrepareCapture ==
  /\ Call("dsm") /\ position' = 0 /\ log' = <<>> /\ disturbed' = TRUE
  /\ step' = "zero" /\ at' = 0
  /\ UNCHANGED <<entries, oldest>>

ZeroEntry ==
  /\ step = "zero"
  /\ entries' = [entries EXCEPT ![at] = Event(0)]
  /\ at' = at + 1 /\ step' = IF at' = MaxEntries THEN "job" ELSE "zero"
  /\ disturbed' = TRUE
  /\ UNCHANGED <<device, position, oldest, calls, log, core0>>

\* The hardware's ring of trace events; external.  Entry s was recorded as
\* the ((s - oldest) % MaxEntries)th of this trace.
Recorded(s) == calls * MaxEntries + ((s - oldest) % MaxEntries)

\* store_dsm_capture reads where the ring begins.
StoreCapture ==
  /\ Call("dsm") /\ oldest' \in Indexes /\ log' = <<>> /\ disturbed' = TRUE
  /\ step' = "load_lo" /\ at' = 0
  /\ UNCHANGED <<position, entries>>

LoadLow ==
  /\ step = "load_lo" /\ step' = "load_hi"
  /\ WriteWord("lo", at, Recorded((oldest + at) % MaxEntries))
  /\ disturbed' = TRUE
  /\ UNCHANGED <<device, position, at, oldest, calls, log, core0>>

LoadHigh ==
  /\ step = "load_hi"
  /\ WriteWord("hi", at, Recorded((oldest + at) % MaxEntries))
  /\ at' = at + 1 /\ step' = IF at' = MaxEntries THEN "publish" ELSE "load_lo"
  /\ disturbed' = TRUE
  /\ UNCHANGED <<device, position, oldest, calls, log, core0>>

PublishCapture ==
  /\ step = "publish" /\ step' = "job" /\ position' = MaxEntries
  /\ log' = [k \in 1 .. MaxEntries |-> calls * MaxEntries + k - 1]
  /\ disturbed' = TRUE
  /\ UNCHANGED <<device, entries, at, oldest, calls, core0>>

Ap == \/ ClearResults \/ StoreEntry \/ StoreLow \/ StoreHigh \/ StoreAdvance
      \/ PrepareCapture \/ ZeroEntry
      \/ StoreCapture \/ LoadLow \/ LoadHigh \/ PublishCapture

-----------------------------------------------------------------------------
(* Core 0. *)

\* The events a request asks for: those at the indexes from start on, count
\* of them, or all with count 0.  GETDSMBUFFER always asks for all.
Asked(r) ==
  LET n == Cardinality({j \in 1 .. Len(log) :
                          j > r.start /\ (r.count = 0 \/ j <= r.start + r.count)})
  IN [k \in 1 .. n |-> Event(log[r.start + k])]

\* handle_get_ibs_buffer and handle_get_dsm_buffer up to the first access to
\* the buffer.  check_core_id and a context without a buffer send one packet.
Get(r) ==
  /\ phase = "idle" /\ phase' = "stored"
  /\ get' = r /\ start' = r.start
  /\ answer' = "none" /\ delivered' = <<>> /\ promised' = <<>> /\ packet' = <<>>
  /\ disturbed' = (device = "dsm" /\ step # "job")
  /\ UNCHANGED <<ap, left, end>>

GetIbs == device = "ibs" /\ \E r \in [start : Starts, count : Counts] : Get(r)
GetDsm == device = "dsm" /\ Get([start |-> 0, count |-> 0])

\* How many events to send; with none one empty packet is the answer.
\* Mutant: the events before start_index are not subtracted.
ToSend_IgnoresStart(stored) ==
  LET wanted == IF get.count = 0 THEN stored ELSE get.count
  IN IF stored <= start \/ wanted = 0 THEN 0 ELSE Smaller(wanted, stored)
ToSend(stored) ==
  LET wanted == IF get.count = 0 THEN stored ELSE get.count
  IN IF stored <= start \/ wanted = 0 THEN 0
     ELSE Smaller(wanted, (stored - start) % Wrap)

ReadStored ==
  /\ phase = "stored"
  /\ left' = ToSend(position) /\ promised' = Asked(get)
  /\ IF left' = 0 THEN phase' = "idle" /\ answer' = "complete"
                  ELSE phase' = "check" /\ answer' = answer
  /\ UNCHANGED <<ap, get, start, end, packet, delivered, disturbed>>

\* Mutant: every packet is filled.
Iteration_Full == PerPacket
Iteration == Smaller(PerPacket, left)

\* copy_ibs_entries and copy_dsm_entries read current_position twice, or once
\* where the compiler keeps it in a register: no other step may come between.
CopyCheck ==
  /\ phase = "check" /\ packet' = <<>> /\ end' = start
  /\ phase' = IF position <= start THEN "send" ELSE "bound"
  /\ UNCHANGED <<ap, get, start, left, answer, delivered, promised, disturbed>>

CopyBound ==
  /\ phase = "bound"
  /\ end' = Smaller(start + Iteration, position)
  /\ phase' = IF end' > start THEN "copy_lo" ELSE "send"
  /\ UNCHANGED <<ap, get, start, left, packet, answer, delivered, promised, disturbed>>

CopyLow ==
  /\ phase = "copy_lo" /\ phase' = "copy_hi"
  /\ packet' = Append(packet, [lo |-> entries[start + Len(packet)].lo, hi |-> Unset])
  /\ UNCHANGED <<ap, get, start, left, end, answer, delivered, promised, disturbed>>

CopyHigh ==
  /\ phase = "copy_hi"
  /\ packet' = [packet EXCEPT ![Len(packet)].hi = entries[start + Len(packet) - 1].hi]
  /\ phase' = IF start + Len(packet) < end THEN "copy_lo" ELSE "send"
  /\ UNCHANGED <<ap, get, start, left, end, answer, delivered, promised, disturbed>>

Copied == (end - start) % Wrap
Size == (Header + Copied) % Wrap

\* A packet goes out, the last one marked as such; construct_message refuses
\* what does not fit.  A size that wrapped around leaves a stump of a packet.
\* Mutant: start_index is not advanced.
Send_KeepsStart ==
  /\ phase = "send"
  /\ left' = IF Copied <= left THEN left - Copied ELSE 0
  /\ start' = start
  /\ IF Size > Capacity
       THEN phase' = "idle" /\ answer' = "oversized" /\ delivered' = delivered
       ELSE /\ delivered' = delivered \o packet
            /\ phase' = IF left' = 0 THEN "idle" ELSE "check"
            /\ answer' = CASE Size < Header -> "stump"
                           [] Size >= Header /\ left' = 0 -> "complete"
                           [] OTHER -> answer
  /\ UNCHANGED <<ap, get, end, packet, promised, disturbed>>
Send ==
  /\ phase = "send"
  /\ left' = IF Copied <= left THEN left - Copied ELSE 0
  /\ start' = (start + Copied) % Wrap
  /\ IF Size > Capacity
       THEN phase' = "idle" /\ answer' = "oversized" /\ delivered' = delivered
       ELSE /\ delivered' = delivered \o packet
            /\ phase' = IF left' = 0 THEN "idle" ELSE "check"
            /\ answer' = CASE Size < Header -> "stump"
                           [] Size >= Header /\ left' = 0 -> "complete"
                           [] OTHER -> answer
  /\ UNCHANGED <<ap, get, end, packet, promised, disturbed>>

\* send_message fails: the handler gives up.
SendFails ==
  /\ \/ phase = "stored" /\ ToSend(position) = 0
     \/ phase = "send" /\ Size <= Capacity
  /\ phase' = "idle" /\ answer' = "gone"
  /\ UNCHANGED <<ap, get, start, left, end, packet, delivered, promised, disturbed>>

Transfer == ReadStored \/ CopyCheck \/ CopyBound \/ CopyLow \/ CopyHigh \/ Send
Next == Ap \/ GetIbs \/ GetDsm \/ Transfer \/ SendFails
Spec == Init /\ [][Next]_vars
FairSpec == Spec /\ WF_vars(Transfer)

-----------------------------------------------------------------------------
Word == {Unset} \cup 0 .. (MaxCalls + 1) * MaxEntries
Packets == [lo : Word, hi : Word]

\* Every variable keeps its type; no index leaves the buffer.
TypeOK ==
  /\ device \in {"ibs", "dsm"} /\ position \in 0 .. MaxEntries
  /\ entries \in [Indexes -> Packets]
  /\ step \in {"job", "store_lo", "store_hi", "advance", "zero", "load_lo",
               "load_hi", "publish"}
  /\ at \in 0 .. MaxEntries /\ oldest \in Indexes /\ calls \in 0 .. MaxCalls
  /\ log \in Seq(Nat)
  /\ phase \in {"idle", "stored", "check", "bound", "copy_lo", "copy_hi", "send"}
  /\ get \in [start : 0 .. Wrap - 1, count : 0 .. MaxEntries + 1]
  /\ start \in 0 .. Wrap - 1 /\ left \in 0 .. MaxEntries /\ end \in 0 .. Wrap - 1
  /\ packet \in Seq(Packets) /\ delivered \in Seq(Packets) /\ promised \in Seq(Packets)
  /\ answer \in {"none", "complete", "oversized", "stump", "gone"}
  /\ disturbed \in BOOLEAN

\* GETIBSBUFFER and GETDSMBUFFER: the packets up to the one marked as last
\* hold the events asked for, whole, in the order they were recorded, each
\* once, unless the job reused the buffer meanwhile.  IBS events stored
\* meanwhile do no harm.
TransferExact ==
  ~disturbed =>
    /\ answer = "complete" => delivered = promised
    /\ answer \notin {"oversized", "stump"}

\* "if copy_ibs_entries works correctly this shouldn't underflow": the entries
\* copied for a packet are at most those left to send.
NoUnderflow == phase = "send" /\ ~disturbed => Copied <= left

\* A request is answered up to its last packet.  (A job that clears the buffer
\* under the loop makes core 0 send empty packets for ever.)
TransferEnds == phase # "idle" ~> (phase = "idle" \/ disturbed)
=============================================================================
