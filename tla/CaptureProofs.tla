---------------------------- MODULE CaptureProofs ----------------------------
(***************************************************************************)
(* Theorems about CaptureBuffers: what the client is sent of a buffer that *)
(* nothing locks is what was recorded in it, for every size of the buffer, *)
(* of a packet and of a request.                                           *)
(***************************************************************************)
EXTENDS CaptureBuffers, FiniteSetTheorems, SequenceTheorems, TLAPS

-----------------------------------------------------------------------------
(* The inductive invariant. *)

Storing == step \in {"store_lo", "store_hi", "advance"}
Loading == step \in {"load_lo", "load_hi", "publish"}
Copying == phase \in {"check", "bound", "copy_lo", "copy_hi", "send"}

Words == 0 .. (MaxCalls + 1) * MaxEntries

\* The types, and that the recorded events are numbers that fit an entry.
TypeInv == TypeOK /\ log \in Seq(Words)

\* The buffer: up to current_position its entries are the events recorded;
\* the entry behind is written word by word, and a trace event by event.
BufferInv ==
  /\ device = "ibs" => step = "job" \/ Storing
  /\ device = "dsm" => ~Storing /\ (step # "job" => disturbed)
  /\ Storing => position < MaxEntries
  /\ step = "store_hi" => entries[position].lo = calls
  /\ step = "advance" => entries[position] = Event(calls)
  /\ step = "zero" => position = 0 /\ log = <<>> /\ at < MaxEntries
  /\ step \in {"load_lo", "load_hi"} => at < MaxEntries
  /\ step = "publish" => at = MaxEntries
  /\ Loading => \A j \in 0 .. at - 1 : entries[j] = Event(calls * MaxEntries + j)
  /\ step = "load_hi" => entries[at].lo = calls * MaxEntries + at
  /\ step = "job" \/ Storing =>
       /\ Len(log) = position
       /\ \A k \in 1 .. position : entries[k - 1] = Event(log[k])

\* The handler, whatever the job does: it copies from inside the buffer.
CopyInv ==
  /\ phase # "idle" => answer = "none"
  /\ phase = "stored" => start = get.start /\ delivered = <<>>
  /\ phase = "bound" => packet = <<>>
  /\ phase \in {"copy_lo", "copy_hi"} => end <= MaxEntries
  /\ phase = "copy_lo" => start + Len(packet) < end
  /\ phase = "copy_hi" => packet # <<>> /\ start + Len(packet) <= end

\* The request, while the job does not reuse the buffer: what was asked for is
\* in the buffer, what was delivered and what is in the packet continue each
\* other, and what is left to send is the rest.
RequestInv ==
  /\ ~Copying => TransferExact
  /\ Copying =>
       /\ start = get.start + Len(delivered)
       /\ left # 0 /\ left + Len(delivered) = Len(promised)
       /\ get.start + Len(promised) <= position
       /\ \A k \in 1 .. Len(promised) : promised[k] = Event(log[get.start + k])
       /\ \A k \in 1 .. Len(delivered) : delivered[k] = promised[k]
  /\ phase \in {"copy_lo", "copy_hi", "send"} =>
       /\ end = start + Iteration
       /\ \A k \in 1 .. Len(packet) :
            /\ packet[k].lo = promised[Len(delivered) + k].lo
            /\ packet[k] = promised[Len(delivered) + k]
                 \/ (phase = "copy_hi" /\ k = Len(packet))
  /\ phase = "send" => start + Len(packet) = end

QuietRequestInv == ~disturbed => RequestInv

IInv == TypeInv /\ BufferInv /\ CopyInv /\ QuietRequestInv

-----------------------------------------------------------------------------
(* Numbers, words and entries. *)

USE BufferSizes

\* What does not reach the wrap-around stays as it is.
LEMMA NoWrap ==
  ASSUME NEW m \in Nat \ {0}, NEW x \in 0 .. m - 1
  PROVE  x % m = x
  OBVIOUS

\* The kth event behind the oldest in a ring of m is the kth recorded.
LEMMA RingOrder ==
  ASSUME NEW m \in Nat \ {0}, NEW o \in 0 .. m - 1, NEW k \in 0 .. m - 1
  PROVE  (((o + k) % m) - o) % m = k
<1>1. CASE o + k < m
  <2>1. (o + k) % m = o + k
    BY <1>1
  <2>2. o + k - o = k /\ k % m = k
    OBVIOUS
  <2> QED
    BY <2>1, <2>2
<1>2. CASE o + k >= m
  <2>1. (o + k) % m = o + k - m
    BY <1>2
  <2>2. PICK x \in Int : x = k - m
    OBVIOUS
  <2>3. x % m = x + m
    BY <2>2
  <2>4. o + k - m - o = x
    BY <2>2
  <2> QED
    BY <2>1, <2>2, <2>3, <2>4
<1> QED
  BY <1>1, <1>2

\* The number of an event, and of the kth event of a trace, fits a word.
LEMMA NumberFits ==
  ASSUME NEW c \in 0 .. MaxCalls
  PROVE  /\ c \in Words /\ 0 \in Words /\ Words \subseteq Word /\ Words \subseteq Nat
         /\ \A k \in 0 .. MaxEntries - 1 : c * MaxEntries + k \in Words
<1>1. PICK m \in Nat \ {0} : m = MaxEntries
  OBVIOUS
<1>2. PICK x \in Nat : x = MaxCalls
  OBVIOUS
<1>3. (x + 1) * m \in Nat /\ c \in 0 .. (x + 1) * m /\ c \in Nat
  BY <1>1, <1>2
<1>4. \A k \in 0 .. m - 1 : c * m + k \in 0 .. (x + 1) * m
  BY <1>1, <1>2
<1> QED
  BY <1>1, <1>2, <1>3, <1>4 DEF Words, Word

\* One word of an entry is written.
LEMMA LowWritten ==
  ASSUME TypeOK, NEW j \in Indexes, NEW n \in Words, WriteWord("lo", j, n)
  PROVE  /\ entries' \in [Indexes -> Packets]
         /\ \A k \in Indexes : k # j => entries'[k] = entries[k]
         /\ entries'[j].lo = n
<1>1. entries \in [Indexes -> [lo : Word, hi : Word]]
  BY DEF TypeOK, Packets
<1>2. n \in Word
  BY DEF Words, Word
<1>3. entries' = [entries EXCEPT ![j]["lo"] = n]
  BY DEF WriteWord
<1> QED
  BY <1>1, <1>2, <1>3 DEF Packets

LEMMA HighWritten ==
  ASSUME TypeOK, NEW j \in Indexes, NEW n \in Words, WriteWord("hi", j, n)
  PROVE  /\ entries' \in [Indexes -> Packets]
         /\ \A k \in Indexes : k # j => entries'[k] = entries[k]
         /\ entries[j].lo = n => entries'[j] = Event(n)
<1>1. entries \in [Indexes -> [lo : Word, hi : Word]]
  BY DEF TypeOK, Packets
<1>2. n \in Word
  BY DEF Words, Word
<1>3. entries' = [entries EXCEPT ![j]["hi"] = n]
  BY DEF WriteWord
<1>4. /\ entries' \in [Indexes -> [lo : Word, hi : Word]]
      /\ \A k \in Indexes : k # j => entries'[k] = entries[k]
      /\ entries'[j].lo = entries[j].lo /\ entries'[j].hi = n
  BY <1>1, <1>2, <1>3
<1>5. entries[j].lo = n => entries'[j] = [lo |-> n, hi |-> n]
  <2>1. PICK e \in [lo : Word, hi : Word] : e = entries'[j]
    BY <1>4
  <2>2. e.lo = n /\ e.hi = n => e = [lo |-> n, hi |-> n]
    OBVIOUS
  <2> QED
    BY <1>4, <2>1, <2>2
<1> QED
  BY <1>4, <1>5 DEF Packets, Event

\* Both words of an event are its number.
LEMMA EventIs ==
  ASSUME NEW n \in Words
  PROVE  Event(n) \in Packets /\ Event(n).lo = n
  BY DEF Event, Packets, Words, Word

-----------------------------------------------------------------------------
(* The AP. *)

\* Recorded gives the events of the trace in the order they were recorded.
LEMMA RecordedIs ==
  ASSUME TypeOK, at < MaxEntries
  PROVE  /\ Recorded((oldest + at) % MaxEntries) = calls * MaxEntries + at
         /\ Recorded((oldest + at) % MaxEntries) \in Words
<1>1. at \in 0 .. MaxEntries - 1 /\ oldest \in 0 .. MaxEntries - 1 /\ calls \in 0 .. MaxCalls
  BY DEF TypeOK, Indexes
<1>2. (((oldest + at) % MaxEntries) - oldest) % MaxEntries = at
  BY <1>1, RingOrder
<1>3. calls * MaxEntries + at \in Words
  BY <1>1, NumberFits
<1> QED
  BY <1>2, <1>3 DEF Recorded

\* The step writes a word of the entry at current_position.
LEMMA StoreStep ==
  ASSUME TypeInv, BufferInv, StoreLow \/ StoreHigh
  PROVE  TypeInv' /\ BufferInv'
<1>1. position \in Indexes /\ calls \in Words /\ TypeOK
  BY NumberFits DEF TypeInv, TypeOK, BufferInv, Storing, Indexes, StoreLow, StoreHigh
<1>2. /\ UNCHANGED <<device, position, at, oldest, calls, log, core0, disturbed>>
      /\ device = "ibs" /\ position < MaxEntries /\ Len(log) = position
      /\ \A k \in 1 .. position : entries[k - 1] = Event(log[k])
      /\ step \in {"store_lo", "store_hi"} /\ step' \in {"store_hi", "advance"}
  BY DEF StoreLow, StoreHigh, BufferInv, Storing, TypeInv, TypeOK
<1>3. /\ entries' \in [Indexes -> Packets]
      /\ \A k \in Indexes : k # position => entries'[k] = entries[k]
  BY <1>1, LowWritten, HighWritten DEF StoreLow, StoreHigh
<1>4. TypeInv'
  BY <1>1, <1>2, <1>3 DEF TypeInv, TypeOK, core0
<1>5. ASSUME NEW k \in 1 .. position
      PROVE  entries'[k - 1] = Event(log[k])
  <2>1. k - 1 \in Indexes /\ k - 1 # position
    BY <1>1 DEF Indexes
  <2> QED
    BY <1>2, <1>3, <2>1
<1>6. step' = "store_hi" => entries'[position].lo = calls
  BY <1>1, LowWritten DEF StoreLow, StoreHigh
<1>7. step' = "advance" => entries'[position] = Event(calls)
  BY <1>1, HighWritten DEF StoreLow, StoreHigh, BufferInv
<1> QED
  BY <1>2, <1>4, <1>5, <1>6, <1>7 DEF BufferInv, Storing, Loading

LEMMA AdvanceStep ==
  ASSUME TypeInv, BufferInv, StoreAdvance
  PROVE  TypeInv' /\ BufferInv'
<1>1. position \in Indexes /\ calls \in Words /\ log \in Seq(Words)
  BY NumberFits DEF TypeInv, TypeOK, BufferInv, Storing, Indexes, StoreAdvance
<1>2. PICK p \in Nat : p = position
  BY <1>1 DEF Indexes
<1>3. /\ UNCHANGED <<device, entries, at, oldest, calls, core0, disturbed>>
      /\ device = "ibs" /\ p < MaxEntries /\ Len(log) = p
      /\ \A k \in 1 .. p : entries[k - 1] = Event(log[k])
      /\ entries[p] = Event(calls)
      /\ step' = "job" /\ position' = p + 1 /\ log' = Append(log, calls)
  BY <1>2 DEF StoreAdvance, BufferInv, Storing, TypeInv, TypeOK
<1>4. /\ log' \in Seq(Words) /\ Len(log') = p + 1 /\ log'[p + 1] = calls
      /\ \A k \in 1 .. p : log'[k] = log[k]
  BY <1>1, <1>3
<1>5. log' \in Seq(Nat)
  BY <1>4, NumberFits, SeqMonotonic DEF Words
<1>6. TypeInv'
  BY <1>2, <1>3, <1>4, <1>5 DEF TypeInv, TypeOK, core0
<1>7. ASSUME NEW k \in 1 .. p + 1
      PROVE  entries'[k - 1] = Event(log'[k])
  <2>1. k \in 1 .. p \/ k = p + 1
    OBVIOUS
  <2> QED
    BY <1>3, <1>4, <2>1
<1> QED
  BY <1>3, <1>4, <1>6, <1>7 DEF BufferInv, Storing, Loading

LEMMA LoadStep ==
  ASSUME TypeInv, BufferInv, LoadLow \/ LoadHigh
  PROVE  TypeInv' /\ BufferInv'
<1>1. at \in Indexes /\ TypeOK
  BY DEF TypeInv, TypeOK, BufferInv, Indexes, LoadLow, LoadHigh
<1>2. PICK n \in Words : /\ n = Recorded((oldest + at) % MaxEntries)
                         /\ n = calls * MaxEntries + at
  BY <1>1, RecordedIs DEF Indexes
<1>3. PICK a \in Nat : a = at
  BY <1>1 DEF Indexes
<1>4. /\ UNCHANGED <<device, position, oldest, calls, log, core0>>
      /\ device = "dsm" /\ disturbed' = TRUE /\ step \in {"load_lo", "load_hi"}
      /\ \A j \in 0 .. a - 1 : entries[j] = Event(calls * MaxEntries + j)
  BY <1>3 DEF LoadLow, LoadHigh, BufferInv, Storing, Loading, TypeInv, TypeOK
<1>5. disturbed' \in BOOLEAN
  BY <1>4, Zenon
<1>6. CASE LoadLow
  <2>1. step = "load_lo" /\ step' = "load_hi" /\ at' = at /\ WriteWord("lo", at, n)
    BY <1>2, <1>6 DEF LoadLow
  <2>2. /\ entries' \in [Indexes -> Packets] /\ entries'[at].lo = n
        /\ \A k \in Indexes : k # at => entries'[k] = entries[k]
    BY <1>1, <2>1, LowWritten
  <2>3. TypeInv'
    BY <1>1, <1>4, <1>5, <2>1, <2>2 DEF TypeInv, TypeOK, core0
  <2>4. ASSUME NEW j \in 0 .. a - 1
        PROVE  entries'[j] = Event(calls * MaxEntries + j)
    <3>1. j \in Indexes /\ j # at
      BY <1>1, <1>3 DEF Indexes
    <3> QED
      BY <1>4, <2>2, <3>1
  <2> QED
    BY <1>1, <1>2, <1>3, <1>4, <2>1, <2>2, <2>3, <2>4
       DEF BufferInv, Storing, Loading, Indexes
<1>7. CASE LoadHigh
  <2>1. /\ step = "load_hi" /\ step' = IF at' = MaxEntries THEN "publish" ELSE "load_lo"
        /\ at' = a + 1 /\ WriteWord("hi", at, n)
    BY <1>2, <1>3, <1>7 DEF LoadHigh
  <2>2. /\ entries' \in [Indexes -> Packets] /\ entries'[at] = Event(n)
        /\ \A k \in Indexes : k # at => entries'[k] = entries[k]
    BY <1>1, <1>2, <2>1, HighWritten DEF BufferInv
  <2>3. at' \in 0 .. MaxEntries
    BY <1>1, <1>3, <2>1 DEF Indexes
  <2>4. TypeInv'
    BY <1>1, <1>4, <1>5, <2>1, <2>2, <2>3 DEF TypeInv, TypeOK, core0
  <2>5. ASSUME NEW j \in 0 .. a
        PROVE  entries'[j] = Event(calls * MaxEntries + j)
    <3>1. CASE j = a
      BY <1>2, <1>3, <2>2, <3>1
    <3>2. CASE j # a
      <4>1. j \in 0 .. a - 1 /\ j \in Indexes /\ j # at
        BY <1>1, <1>3, <3>2 DEF Indexes
      <4> QED
        BY <1>4, <2>2, <4>1
    <3> QED
      BY <3>1, <3>2
  <2>6. at' - 1 = a
    BY <2>1
  <2>7. at' = MaxEntries \/ at' < MaxEntries
    BY <2>3
  <2> QED
    BY <1>4, <2>1, <2>4, <2>5, <2>6, <2>7 DEF BufferInv, Storing, Loading
<1> QED
  BY <1>6, <1>7

LEMMA ZeroStep ==
  ASSUME TypeInv, BufferInv, ZeroEntry
  PROVE  TypeInv' /\ BufferInv'
<1>1. /\ UNCHANGED <<device, position, oldest, calls, log, core0>>
      /\ device = "dsm" /\ disturbed' = TRUE /\ at \in Indexes /\ position = 0 /\ log = <<>>
      /\ entries' = [entries EXCEPT ![at] = Event(0)] /\ at' = at + 1
      /\ step' = IF at' = MaxEntries THEN "job" ELSE "zero"
  BY DEF ZeroEntry, TypeInv, TypeOK, BufferInv, Storing, Indexes
<1>2. entries' \in [Indexes -> Packets] /\ at' \in 0 .. MaxEntries
  BY <1>1, NumberFits, EventIs DEF TypeInv, TypeOK, Indexes
<1>3. disturbed' \in BOOLEAN
  BY <1>1, Zenon
<1>4. TypeInv'
  BY <1>1, <1>2, <1>3 DEF TypeInv, TypeOK, core0
<1> QED
  BY <1>1, <1>2, <1>4 DEF BufferInv, Storing, Loading

\* A call begins.
LEMMA CallStep ==
  ASSUME TypeInv, BufferInv, ClearResults \/ StoreEntry \/ PrepareCapture \/ StoreCapture
  PROVE  TypeInv' /\ BufferInv'
<1>1. /\ step = "job" /\ calls < MaxCalls /\ calls' = calls + 1
      /\ device' = device /\ entries' = entries /\ UNCHANGED core0
      /\ position' = position \/ position' = 0
      /\ at' = at \/ at' = 0
      /\ oldest' = oldest \/ oldest' \in Indexes
      /\ log' = log \/ log' = <<>>
      /\ disturbed' = disturbed \/ disturbed' = TRUE
      /\ step' \in {"job", "store_lo", "zero", "load_lo"}
  BY DEF ClearResults, StoreEntry, PrepareCapture, StoreCapture, Call
<1>2. position' \in 0 .. MaxEntries /\ at' \in 0 .. MaxEntries /\ oldest' \in Indexes
  BY <1>1 DEF TypeInv, TypeOK
<1>3. calls' \in 0 .. MaxCalls
  BY <1>1 DEF TypeInv, TypeOK
<1>4. log' \in Seq(Words) /\ log' \in Seq(Nat)
  <2>1. log \in Seq(Words) /\ log \in Seq(Nat)
    BY DEF TypeInv, TypeOK
  <2>2. <<>> \in Seq(Words) /\ <<>> \in Seq(Nat)
    OBVIOUS
  <2> QED
    BY <1>1, <2>1, <2>2
<1>5. disturbed' \in BOOLEAN
  <2>1. disturbed \in BOOLEAN
    BY DEF TypeInv, TypeOK
  <2> QED
    BY <1>1, <2>1, Zenon
<1>6. TypeInv'
  BY <1>1, <1>2, <1>3, <1>4, <1>5 DEF TypeInv, TypeOK, core0
<1>7. CASE ClearResults
  <2>1. device = "ibs" /\ position' = 0 /\ log' = <<>> /\ step' = "job"
    BY <1>7 DEF ClearResults, Call
  <2> QED
    BY <1>1, <1>6, <2>1 DEF BufferInv, Storing, Loading
<1>8. CASE StoreEntry
  <2>1. /\ device = "ibs" /\ position < MaxEntries /\ step' = "store_lo"
        /\ UNCHANGED <<position, entries, log>>
    BY <1>8 DEF StoreEntry, Call
  <2> QED
    BY <1>1, <1>6, <2>1 DEF BufferInv, Storing, Loading
<1>9. CASE PrepareCapture
  <2>1. device = "dsm" /\ position' = 0 /\ log' = <<>> /\ step' = "zero" /\ at' = 0 /\ disturbed'
    BY <1>9 DEF PrepareCapture, Call
  <2> QED
    BY <1>1, <1>6, <2>1 DEF BufferInv, Storing, Loading
<1>10. CASE StoreCapture
  <2>1. device = "dsm" /\ step' = "load_lo" /\ at' = 0 /\ disturbed'
    BY <1>10 DEF StoreCapture, Call
  <2> QED
    BY <1>1, <1>6, <2>1 DEF BufferInv, Storing, Loading
<1> QED
  BY <1>7, <1>8, <1>9, <1>10

LEMMA PublishStep ==
  ASSUME TypeInv, BufferInv, PublishCapture
  PROVE  TypeInv' /\ BufferInv'
<1> DEFINE e(k) == calls * MaxEntries + k - 1
           l == [k \in 1 .. MaxEntries |-> e(k)]
<1>1. /\ UNCHANGED <<device, entries, at, oldest, calls, core0>>
      /\ device = "dsm" /\ disturbed' = TRUE /\ step' = "job" /\ position' = MaxEntries
      /\ log' = l
      /\ \A j \in 0 .. MaxEntries - 1 : entries[j] = Event(calls * MaxEntries + j)
  BY DEF PublishCapture, TypeInv, TypeOK, BufferInv, Storing, Loading
<1>2. \A k \in 1 .. MaxEntries : e(k) \in Words /\ e(k) = calls * MaxEntries + (k - 1)
  <2> TAKE k \in 1 .. MaxEntries
  <2>1. k - 1 \in 0 .. MaxEntries - 1 /\ calls \in 0 .. MaxCalls
    BY DEF TypeInv, TypeOK
  <2>2. calls * MaxEntries + (k - 1) \in Words
    BY <2>1, NumberFits
  <2>3. PICK c \in Int : c = calls * MaxEntries
    BY <2>1
  <2>4. c + k - 1 = c + (k - 1)
    OBVIOUS
  <2> QED
    BY <2>2, <2>3, <2>4
<1>3. l \in Seq(Words) /\ Len(l) = MaxEntries /\ \A k \in 1 .. MaxEntries : l[k] = e(k)
  <2>1. l \in [1 .. MaxEntries -> Words]
    BY <1>2
  <2>2. \A k \in 1 .. MaxEntries : l[k] = e(k)
    OBVIOUS
  <2> HIDE DEF l
  <2> QED
    BY <2>1, <2>2
<1> HIDE DEF l
<1>4. log' \in Seq(Nat)
  BY <1>1, <1>3, NumberFits, SeqMonotonic DEF Words
<1>5. disturbed' \in BOOLEAN
  BY <1>1, Zenon
<1>6. TypeInv'
  BY <1>1, <1>3, <1>4, <1>5 DEF TypeInv, TypeOK, core0
<1>7. ASSUME NEW k \in 1 .. MaxEntries
      PROVE  entries'[k - 1] = Event(log'[k])
  <2>1. k - 1 \in 0 .. MaxEntries - 1
    OBVIOUS
  <2>2. log'[k] = calls * MaxEntries + (k - 1)
    BY <1>1, <1>2, <1>3
  <2> QED
    BY <1>1, <2>1, <2>2
<1> QED
  BY <1>1, <1>3, <1>6, <1>7 DEF BufferInv, Storing, Loading

LEMMA ApStep ==
  ASSUME TypeInv, BufferInv, Ap
  PROVE  TypeInv' /\ BufferInv'
  BY StoreStep, AdvanceStep, LoadStep, ZeroStep, CallStep, PublishStep DEF Ap

-----------------------------------------------------------------------------
(* The request. *)

\* How many events are sent of those stored.
LEMMA ToSendIs ==
  ASSUME TypeOK, NEW stored \in 0 .. MaxEntries
  PROVE  /\ ToSend(stored) \in 0 .. MaxEntries
         /\ ToSend(stored) = IF stored <= start THEN 0
                             ELSE IF get.count = 0 \/ get.count > stored - start
                             THEN stored - start ELSE get.count
<1>1. start \in 0 .. Wrap - 1 /\ get.count \in 0 .. MaxEntries + 1
  BY DEF TypeOK
<1>2. PICK c \in Nat : c = get.count
  BY <1>1
<1>3. CASE stored <= start
  BY <1>3 DEF ToSend
<1>4. CASE stored > start
  <2>1. stored - start \in 0 .. Wrap - 1 /\ Wrap \in Nat \ {0}
    BY <1>1, <1>4
  <2>2. (stored - start) % Wrap = stored - start
    BY <2>1, NoWrap
  <2> QED
    BY <1>1, <1>2, <1>4, <2>2 DEF ToSend, Smaller
<1> QED
  BY <1>1, <1>3, <1>4

\* What a request asks for is what ToSend counts.
LEMMA AskedIs ==
  ASSUME TypeInv, start = get.start
  PROVE  /\ Asked(get) \in Seq(Packets)
         /\ Len(log) = position =>
              /\ Len(Asked(get)) = ToSend(position)
              /\ ToSend(position) # 0 => get.start + ToSend(position) <= position
              /\ \A k \in 1 .. ToSend(position) :
                   Asked(get)[k] = Event(log[get.start + k])
<1>1. /\ TypeOK /\ log \in Seq(Words) /\ position \in 0 .. MaxEntries
      /\ get.start \in 0 .. Wrap - 1 /\ get.count \in 0 .. MaxEntries + 1
  BY DEF TypeInv, TypeOK
<1>2. PICK s \in Nat : s = get.start
  BY <1>1
<1>3. PICK c \in Nat : c = get.count
  BY <1>1
<1>4. PICK l \in Nat : l = Len(log)
  BY <1>1
<1> DEFINE top == IF c = 0 \/ s + c > l THEN l ELSE s + c
           J == {j \in 1 .. Len(log) : j > get.start /\ (get.count = 0 \/ j <= get.start + get.count)}
<1>5. J = s + 1 .. top
  BY <1>2, <1>3, <1>4
<1>6. PICK n \in Nat : n = Cardinality(J) /\ n = IF s + 1 > top THEN 0 ELSE top - s
  <2>1. PICK t \in Int : t = top
    OBVIOUS
  <2>2. J = s + 1 .. t
    BY <1>5, <2>1
  <2> HIDE DEF J
  <2>3. PICK u \in Int : u = s + 1
    OBVIOUS
  <2>4. Cardinality(u .. t) = IF u > t THEN 0 ELSE t - u + 1
    BY FS_Interval
  <2>5. Cardinality(J) = IF s + 1 > t THEN 0 ELSE t - s
    BY <2>2, <2>3, <2>4
  <2>6. (IF s + 1 > t THEN 0 ELSE t - s) \in Nat
    OBVIOUS
  <2> QED
    BY <2>1, <2>5, <2>6
<1> DEFINE a == [k \in 1 .. n |-> Event(log[s + k])]
<1>7. Asked(get) = a
  BY <1>2, <1>6 DEF Asked
<1>8. \A k \in 1 .. n : s + k \in 1 .. l
  BY <1>6
<1>9. \A k \in 1 .. n : Event(log[s + k]) \in Packets
  BY <1>1, <1>4, <1>8, EventIs
<1>10. a \in Seq(Packets) /\ Len(a) = n
  <2>1. a \in [1 .. n -> Packets]
    BY <1>9
  <2> HIDE DEF a
  <2> QED
    BY <2>1
<1>11. ASSUME l = position
       PROVE  n = ToSend(position)
  <2>1. ToSend(position) = IF position <= s THEN 0
                           ELSE IF c = 0 \/ c > position - s THEN position - s ELSE c
    BY <1>1, <1>2, <1>3, ToSendIs
  <2> QED
    BY <1>6, <1>11, <2>1
<1>12. n # 0 => s + n <= l
  BY <1>6
<1> QED
  BY <1>2, <1>4, <1>7, <1>10, <1>11, <1>12

-----------------------------------------------------------------------------
(* Core 0, whatever the AP does. *)

Core0 == GetIbs \/ GetDsm \/ Transfer \/ SendFails

LEMMA ApKept ==
  ASSUME BufferInv, UNCHANGED ap,
         disturbed' = disturbed \/ disturbed' = (device = "dsm" /\ step # "job")
  PROVE  BufferInv'
<1>1. UNCHANGED <<device, position, entries, step, at, oldest, calls, log>>
  BY DEF ap
<1>2. device = "dsm" /\ step # "job" => disturbed'
  BY DEF BufferInv
<1> QED
  BY <1>1, <1>2 DEF BufferInv, Storing, Loading

LEMMA GetTypes ==
  ASSUME TypeInv, BufferInv, GetIbs \/ GetDsm
  PROVE  TypeInv' /\ BufferInv' /\ CopyInv'
<1>1. PICK r \in [start : 0 .. Wrap - 1, count : 0 .. MaxEntries + 1] : Get(r)
  <2>1. [start : Starts, count : Counts]
          \subseteq [start : 0 .. Wrap - 1, count : 0 .. MaxEntries + 1]
    OBVIOUS
  <2>2. [start |-> 0, count |-> 0] \in [start : 0 .. Wrap - 1, count : 0 .. MaxEntries + 1]
    OBVIOUS
  <2> QED
    BY <2>1, <2>2 DEF GetIbs, GetDsm
<1>2. disturbed' = (device = "dsm" /\ step # "job") /\ UNCHANGED ap
  BY <1>1 DEF Get
<1>3. disturbed' \in BOOLEAN
  BY <1>2, Zenon
<1>4. /\ get' \in [start : 0 .. Wrap - 1, count : 0 .. MaxEntries + 1]
      /\ start' = get'.start /\ start' \in 0 .. Wrap - 1
      /\ phase' = "stored" /\ answer' = "none"
      /\ delivered' = <<>> /\ promised' = <<>> /\ packet' = <<>>
      /\ UNCHANGED <<left, end>>
  BY <1>1 DEF Get
<1>5. TypeInv'
  BY <1>2, <1>3, <1>4 DEF TypeInv, TypeOK, ap
<1> QED
  BY <1>2, <1>4, <1>5, ApKept DEF CopyInv

\* The smaller of two numbers.
LEMMA SmallerIs ==
  ASSUME NEW a \in Int, NEW b \in Int
  PROVE  /\ Smaller(a, b) \in {a, b} /\ Smaller(a, b) <= a /\ Smaller(a, b) <= b
         /\ Smaller(a, b) \in Int
  BY DEF Smaller

LEMMA ReadTypes ==
  ASSUME TypeInv, CopyInv, ReadStored
  PROVE  TypeInv' /\ CopyInv'
<1>1. /\ phase = "stored" /\ start = get.start /\ answer = "none"
      /\ UNCHANGED <<ap, get, start, end, packet, delivered, disturbed>>
      /\ left' = ToSend(position) /\ promised' = Asked(get)
      /\ phase' \in {"idle", "check"}
      /\ answer' = answer \/ (phase' = "idle" /\ answer' = "complete")
  BY DEF ReadStored, CopyInv
<1>2. left' \in 0 .. MaxEntries /\ promised' \in Seq(Packets)
  BY <1>1, ToSendIs, AskedIs DEF TypeInv, TypeOK
<1>3. TypeInv'
  BY <1>1, <1>2 DEF TypeInv, TypeOK, ap
<1> QED
  BY <1>1, <1>3 DEF CopyInv

LEMMA CheckTypes ==
  ASSUME TypeInv, CopyInv, CopyCheck
  PROVE  TypeInv' /\ CopyInv'
<1>1. /\ phase = "check" /\ packet' = <<>> /\ end' = start /\ answer = "none"
      /\ phase' \in {"send", "bound"}
      /\ UNCHANGED <<ap, get, start, left, answer, delivered, promised, disturbed>>
  BY DEF CopyCheck, CopyInv
<1>2. TypeInv'
  BY <1>1 DEF TypeInv, TypeOK, ap
<1> QED
  BY <1>1, <1>2 DEF CopyInv

LEMMA BoundTypes ==
  ASSUME TypeInv, CopyInv, CopyBound
  PROVE  TypeInv' /\ CopyInv'
<1>1. /\ phase = "bound" /\ packet = <<>> /\ answer = "none"
      /\ end' = Smaller(start + Iteration, position)
      /\ phase' = IF end' > start THEN "copy_lo" ELSE "send"
      /\ UNCHANGED <<ap, get, start, left, packet, answer, delivered, promised, disturbed>>
  BY DEF CopyBound, CopyInv
<1>2. /\ position \in 0 .. MaxEntries /\ start \in 0 .. Wrap - 1 /\ left \in 0 .. MaxEntries
  BY DEF TypeInv, TypeOK
<1>3. Iteration \in Nat
  BY <1>2, SmallerIs DEF Iteration, Smaller
<1>4. end' \in 0 .. MaxEntries
  BY <1>1, <1>2, <1>3 DEF Smaller
<1>5. end' \in 0 .. Wrap - 1
  BY <1>4
<1>6. TypeInv'
  BY <1>1, <1>5 DEF TypeInv, TypeOK, ap
<1>7. phase' = "copy_lo" => start' + Len(packet') < end'
  <2>1. Len(packet') = 0
    BY <1>1
  <2> QED
    BY <1>1, <1>2, <2>1
<1> QED
  BY <1>1, <1>4, <1>6, <1>7 DEF CopyInv

LEMMA LowTypes ==
  ASSUME TypeInv, CopyInv, CopyLow
  PROVE  TypeInv' /\ CopyInv'
<1> DEFINE x == [lo |-> entries[start + Len(packet)].lo, hi |-> Unset]
<1>1. /\ phase = "copy_lo" /\ phase' = "copy_hi" /\ answer = "none"
      /\ packet' = Append(packet, x)
      /\ start + Len(packet) < end /\ end <= MaxEntries
      /\ UNCHANGED <<ap, get, start, left, end, answer, delivered, promised, disturbed>>
  BY DEF CopyLow, CopyInv
<1>2. PICK n \in Nat : n = Len(packet)
  BY DEF TypeInv, TypeOK
<1>3. start + n \in Indexes
  BY <1>1, <1>2 DEF TypeInv, TypeOK, Indexes
<1>4. x \in Packets
  BY <1>2, <1>3 DEF TypeInv, TypeOK, Packets, Word, Unset
<1> HIDE DEF x
<1>5. packet' \in Seq(Packets) /\ Len(packet') = n + 1 /\ packet' # <<>>
  BY <1>1, <1>2, <1>4 DEF TypeInv, TypeOK
<1>6. TypeInv'
  BY <1>1, <1>5 DEF TypeInv, TypeOK, ap
<1>7. start + (n + 1) <= end
  BY <1>1, <1>2, <1>3 DEF TypeInv, TypeOK
<1> QED
  BY <1>1, <1>5, <1>6, <1>7 DEF CopyInv

LEMMA HighTypes ==
  ASSUME TypeInv, CopyInv, CopyHigh
  PROVE  /\ TypeInv' /\ CopyInv'
         /\ Len(packet) \in Nat \ {0} /\ Len(packet') = Len(packet)
         /\ start + Len(packet) - 1 \in Indexes
         /\ \A k \in 1 .. Len(packet) - 1 : packet'[k] = packet[k]
         /\ packet'[Len(packet)].lo = packet[Len(packet)].lo
         /\ packet'[Len(packet)].hi = entries[start + Len(packet) - 1].hi
         /\ packet'[Len(packet)] \in Packets
<1>1. PICK n \in Nat : n = Len(packet)
  BY DEF TypeInv, TypeOK
<1>2. PICK w : w = entries[start + Len(packet) - 1].hi
  OBVIOUS
<1>3. /\ phase = "copy_hi" /\ answer = "none" /\ n # 0
      /\ packet' = [packet EXCEPT ![n].hi = w]
      /\ phase' = IF start + Len(packet') < end THEN "copy_lo" ELSE "send"
      /\ start + n <= end /\ end <= MaxEntries
      /\ UNCHANGED <<ap, get, start, left, end, answer, delivered, promised, disturbed>>
  BY <1>1, <1>2 DEF CopyHigh, CopyInv, TypeInv, TypeOK
<1>4. start + n - 1 \in Indexes
  <2>1. start \in Nat /\ end \in Nat
    BY DEF TypeInv, TypeOK
  <2>2. n # 0 /\ start + n <= end /\ end <= MaxEntries
    BY <1>3
  <2> QED
    BY <2>1, <2>2 DEF Indexes
<1>5. w \in Word
  BY <1>1, <1>2, <1>4 DEF TypeInv, TypeOK, Packets
<1>6. packet \in Seq([lo : Word, hi : Word])
  BY DEF TypeInv, TypeOK, Packets
<1>7. /\ packet' \in Seq([lo : Word, hi : Word]) /\ Len(packet') = n
      /\ \A k \in 1 .. n - 1 : packet'[k] = packet[k]
      /\ packet'[n].lo = packet[n].lo /\ packet'[n].hi = w
      /\ packet'[n] \in [lo : Word, hi : Word]
  <2>1. n \in 1 .. Len(packet)
    BY <1>1, <1>3
  <2>2. PICK p \in [lo : Word, hi : Word] : p = packet[n]
    BY <1>6, <2>1, ElementOfSeq
  <2>3. PICK e \in [lo : Word, hi : Word] : e = [p EXCEPT !.hi = w] /\ e.lo = p.lo /\ e.hi = w
    <3> DEFINE x == [p EXCEPT !.hi = w]
    <3>1. x \in [lo : Word, hi : Word] /\ x.lo = p.lo /\ x.hi = w
      BY <1>5
    <3> QED
      BY <3>1
  <2>4. packet' = [packet EXCEPT ![n] = e]
    BY <1>3, <2>2, <2>3
  <2>5. /\ packet' \in Seq([lo : Word, hi : Word]) /\ Len(packet') = Len(packet)
        /\ \A k \in 1 .. Len(packet) : packet'[k] = IF k = n THEN e ELSE packet[k]
    BY <1>6, <2>1, <2>4, ExceptSeq
  <2>6. packet'[n] = e
    BY <2>1, <2>5
  <2>7. ASSUME NEW k \in 1 .. n - 1
        PROVE  packet'[k] = packet[k]
    <3>1. k \in 1 .. Len(packet) /\ k # n
      BY <1>1
    <3> QED
      BY <2>5, <3>1
  <2> QED
    BY <1>1, <2>2, <2>3, <2>5, <2>6, <2>7
<1>8. TypeInv'
  BY <1>3, <1>7 DEF TypeInv, TypeOK, ap, Packets
<1>9. CopyInv'
  BY <1>1, <1>3, <1>7, <1>8 DEF CopyInv
<1> QED
  BY <1>1, <1>2, <1>3, <1>4, <1>7, <1>8, <1>9 DEF Packets

LEMMA SendTypes ==
  ASSUME TypeInv, CopyInv, Send
  PROVE  TypeInv' /\ CopyInv'
<1>1. /\ phase = "send" /\ answer = "none"
      /\ left' = IF Copied <= left THEN left - Copied ELSE 0
      /\ start' = (start + Copied) % Wrap
      /\ delivered' \in {delivered, delivered \o packet}
      /\ phase' \in {"idle", "check"}
      /\ answer' \in {answer, "oversized", "stump", "complete"}
      /\ UNCHANGED <<ap, get, end, packet, promised, disturbed>>
  BY DEF Send, CopyInv
<1>2. Copied \in 0 .. Wrap - 1 /\ start' \in 0 .. Wrap - 1
  BY <1>1 DEF Copied, TypeInv, TypeOK
<1>3. phase' # "idle" => answer' = "none"
  <2>1. PICK c \in 0 .. Wrap - 1 : c = Copied
    BY <1>2
  <2>2. Header + c < Wrap => Size = Header + c
    BY <2>1, NoWrap DEF Size
  <2>3. Size < Header => c > MaxEntries
    BY <2>2
  <2>4. Size < Header => left' = 0
    BY <1>1, <2>1, <2>3 DEF TypeInv, TypeOK
  <2> QED
    BY <1>1, <2>4 DEF Send
<1>4. left' \in 0 .. MaxEntries
  BY <1>1, <1>2 DEF TypeInv, TypeOK
<1>5. delivered' \in Seq(Packets)
  <2>1. packet \in Seq(Packets) /\ delivered \in Seq(Packets)
    BY DEF TypeInv, TypeOK
  <2> QED
    BY <1>1, <2>1, ConcatProperties
<1>6. TypeInv'
  BY <1>1, <1>2, <1>4, <1>5 DEF TypeInv, TypeOK, ap
<1> QED
  BY <1>1, <1>3, <1>6 DEF CopyInv

LEMMA Core0Step ==
  ASSUME TypeInv, BufferInv, CopyInv, Core0
  PROVE  TypeInv' /\ BufferInv' /\ CopyInv'
<1>1. CASE GetIbs \/ GetDsm
  BY <1>1, GetTypes
<1>2. CASE Transfer
  <2>1. UNCHANGED ap /\ disturbed' = disturbed
    BY <1>2 DEF Transfer, ReadStored, CopyCheck, CopyBound, CopyLow, CopyHigh, Send
  <2>2. BufferInv'
    BY <2>1, ApKept
  <2> QED
    BY <1>2, <2>2, ReadTypes, CheckTypes, BoundTypes, LowTypes, HighTypes, SendTypes
       DEF Transfer
<1>3. CASE SendFails
  <2>1. /\ phase' = "idle" /\ answer' = "gone"
        /\ UNCHANGED <<ap, get, start, left, end, packet, delivered, promised, disturbed>>
    BY <1>3 DEF SendFails
  <2>2. BufferInv'
    BY <2>1, ApKept
  <2>3. TypeInv'
    BY <2>1 DEF TypeInv, TypeOK, ap
  <2> QED
    BY <2>1, <2>2, <2>3 DEF CopyInv
<1> QED
  BY <1>1, <1>2, <1>3 DEF Core0

-----------------------------------------------------------------------------
(* The request, while the buffer is not reused. *)

\* What the handler finds in the buffer.
LEMMA Found ==
  ASSUME BufferInv, TypeInv, ~disturbed
  PROVE  /\ Len(log) = position
         /\ \A k \in 1 .. position : entries[k - 1] = Event(log[k])
<1>1. step = "job" \/ Storing
  BY DEF BufferInv, TypeInv, TypeOK
<1> QED
  BY <1>1 DEF BufferInv

\* An entry stored meanwhile comes behind those that were asked for.
LEMMA ApRequest ==
  ASSUME TypeInv, BufferInv, QuietRequestInv, Ap
  PROVE  QuietRequestInv'
<1> SUFFICES ASSUME ~disturbed'
             PROVE  RequestInv'
  BY DEF QuietRequestInv
<1>1. UNCHANGED core0
  BY DEF Ap, ClearResults, StoreEntry, StoreLow, StoreHigh, StoreAdvance, PrepareCapture,
         ZeroEntry, StoreCapture, LoadLow, LoadHigh, PublishCapture, Call
<1>2. UNCHANGED <<phase, get, start, left, end, packet, answer, delivered, promised>>
  BY <1>1 DEF core0
<1>3. (StoreEntry \/ StoreLow \/ StoreHigh \/ StoreAdvance) /\ ~disturbed
  BY DEF Ap, ClearResults, StoreEntry, StoreLow, StoreHigh, StoreAdvance, PrepareCapture,
         ZeroEntry, StoreCapture, LoadLow, LoadHigh, PublishCapture, Call
<1>4. RequestInv
  BY <1>3 DEF QuietRequestInv
<1>5. CASE StoreEntry \/ StoreLow \/ StoreHigh
  <2>1. position' = position /\ log' = log /\ disturbed' = disturbed
    BY <1>5 DEF StoreEntry, StoreLow, StoreHigh, Call
  <2> QED
    BY <1>2, <1>4, <2>1 DEF RequestInv, Copying, TransferExact, Iteration, Smaller
<1>6. CASE StoreAdvance
  <2>1. PICK p \in Nat : p = position /\ p = Len(log)
    BY <1>3, Found DEF TypeInv, TypeOK
  <2>2. calls \in Words /\ log \in Seq(Words)
    BY NumberFits DEF TypeInv, TypeOK
  <2>3. position' = p + 1 /\ log' = Append(log, calls) /\ disturbed' = disturbed
    BY <1>6, <2>1 DEF StoreAdvance
  <2>4. \A k \in 1 .. p : log'[k] = log[k]
    BY <2>1, <2>2, <2>3
  <2>5. CASE ~Copying
    BY <1>2, <1>4, <2>3, <2>5 DEF RequestInv, Copying, TransferExact
  <2>6. CASE Copying
    <3>1. /\ get.start \in Nat /\ Len(promised) \in Nat
      BY DEF TypeInv, TypeOK
    <3>2. PICK s \in Nat : s = get.start
      BY <3>1
    <3>3. PICK n \in Nat : n = Len(promised)
      BY <3>1
    <3>4. /\ s + n <= p
          /\ \A k \in 1 .. n : promised[k] = Event(log[s + k])
      BY <1>4, <2>1, <2>6, <3>2, <3>3 DEF RequestInv
    <3>5. \A k \in 1 .. n : s + k \in 1 .. p
      BY <3>4
    <3>6. \A k \in 1 .. n : promised[k] = Event(log'[s + k])
      BY <2>4, <3>4, <3>5
    <3>7. s + n <= p + 1
      BY <3>4
    <3>8. /\ get'.start + Len(promised') <= position'
          /\ \A k \in 1 .. Len(promised') : promised'[k] = Event(log'[get'.start + k])
      BY <1>2, <2>3, <3>2, <3>3, <3>6, <3>7
    <3> QED
      BY <1>2, <1>4, <2>3, <2>6, <3>8
         DEF RequestInv, Copying, TransferExact, Iteration, Smaller
  <2> QED
    BY <2>5, <2>6
<1> QED
  BY <1>3, <1>5, <1>6

LEMMA ReadRequest ==
  ASSUME TypeInv, BufferInv, CopyInv, QuietRequestInv, ReadStored
  PROVE  QuietRequestInv'
<1> SUFFICES ASSUME ~disturbed
             PROVE  RequestInv'
  BY DEF QuietRequestInv, ReadStored
<1>1. /\ start = get.start /\ answer = "none" /\ delivered = <<>>
      /\ UNCHANGED <<ap, get, start, end, packet, delivered, disturbed>>
      /\ left' = ToSend(position) /\ promised' = Asked(get)
      /\ IF left' = 0 THEN phase' = "idle" /\ answer' = "complete"
                      ELSE phase' = "check" /\ answer' = answer
  BY DEF ReadStored, CopyInv
<1>2. Len(log) = position
  BY Found
<1>3. /\ promised' \in Seq(Packets) /\ Len(promised') = left'
      /\ left' # 0 => get.start + left' <= position
      /\ \A k \in 1 .. left' : promised'[k] = Event(log[get.start + k])
  BY <1>1, <1>2, AskedIs
<1>4. CASE left' = 0
  <2>1. promised' = <<>>
    BY <1>3, <1>4, EmptySeq
  <2> QED
    BY <1>1, <1>4, <2>1 DEF RequestInv, Copying, TransferExact
<1>5. CASE left' # 0
  <2>1. Len(delivered') = 0 /\ left' \in Nat /\ start \in Nat
    BY <1>1, ToSendIs DEF TypeInv, TypeOK
  <2>2. start' = get'.start + Len(delivered') /\ left' + Len(delivered') = Len(promised')
    BY <1>1, <1>3, <2>1
  <2>3. log' = log /\ position' = position /\ get' = get /\ phase' = "check"
    BY <1>1, <1>5 DEF ap
  <2>4. /\ get'.start + Len(promised') <= position'
        /\ \A k \in 1 .. Len(promised') : promised'[k] = Event(log'[get'.start + k])
    BY <1>3, <1>5, <2>3
  <2>5. \A k \in 1 .. Len(delivered') : delivered'[k] = promised'[k]
    BY <2>1
  <2> QED
    BY <1>5, <2>2, <2>3, <2>4, <2>5 DEF RequestInv, Copying
<1> QED
  BY <1>4, <1>5

\* Within the loop.
LEMMA InLoop ==
  ASSUME TypeInv, BufferInv, RequestInv, Copying, ~disturbed
  PROVE  /\ start \in Nat /\ left \in Nat \ {0} /\ position \in Nat /\ end \in Nat
         /\ Len(packet) \in Nat /\ Len(delivered) \in Nat /\ Len(promised) \in Nat
         /\ start + left <= position /\ position <= MaxEntries
         /\ left + Len(delivered) = Len(promised)
         /\ Iteration \in 1 .. left /\ Iteration <= PerPacket
         /\ \A k \in 0 .. left - 1 : entries[start + k] = promised[Len(delivered) + k + 1]
<1>1. /\ start \in Nat /\ left \in Nat \ {0} /\ position \in Nat /\ end \in Nat
      /\ Len(packet) \in Nat /\ Len(delivered) \in Nat /\ Len(promised) \in Nat
      /\ position <= MaxEntries /\ get.start \in Nat
  <2>1. left # 0
    BY DEF RequestInv
  <2>2. /\ start \in Nat /\ left \in Nat /\ position \in Nat /\ end \in Nat
        /\ position <= MaxEntries /\ get.start \in Nat
    BY DEF TypeInv, TypeOK
  <2>3. Len(packet) \in Nat /\ Len(delivered) \in Nat /\ Len(promised) \in Nat
    BY DEF TypeInv, TypeOK
  <2> QED
    BY <2>1, <2>2, <2>3
<1>2. /\ start = get.start + Len(delivered) /\ left + Len(delivered) = Len(promised)
      /\ get.start + Len(promised) <= position
      /\ \A k \in 1 .. Len(promised) : promised[k] = Event(log[get.start + k])
  BY DEF RequestInv
<1>3. Iteration \in 1 .. left /\ Iteration <= PerPacket
  BY <1>1 DEF Iteration, Smaller
<1>4. PICK d \in Nat : d = Len(delivered)
  BY <1>1
<1>5. PICK g \in Nat : g = get.start
  BY <1>1
<1>6. start + left <= position
  BY <1>1, <1>2
<1>7. ASSUME NEW k \in 0 .. left - 1
      PROVE  entries[start + k] = promised[d + k + 1]
  <2>1. PICK j \in Nat : j = d + k + 1
    BY <1>4
  <2>2. j \in 1 .. Len(promised) /\ g + j \in 1 .. position /\ g + j - 1 = start + k
    <3>1. left + d = Len(promised) /\ start = g + d /\ g + Len(promised) <= position
      BY <1>2, <1>4, <1>5
    <3> QED
      BY <1>1, <2>1, <3>1
  <2>3. entries[g + j - 1] = Event(log[g + j])
    BY <2>2, Found
  <2>4. promised[j] = Event(log[g + j])
    BY <1>2, <1>5, <2>2
  <2> QED
    BY <2>1, <2>2, <2>3, <2>4
<1> QED
  BY <1>1, <1>2, <1>3, <1>4, <1>6, <1>7

LEMMA CheckRequest ==
  ASSUME TypeInv, BufferInv, CopyInv, QuietRequestInv, CopyCheck \/ CopyBound
  PROVE  QuietRequestInv'
<1> SUFFICES ASSUME ~disturbed
             PROVE  RequestInv'
  BY DEF QuietRequestInv, CopyCheck, CopyBound
<1>1. RequestInv /\ Copying
  BY DEF QuietRequestInv, Copying, CopyCheck, CopyBound
<1>2. /\ UNCHANGED <<get, start, left, answer, delivered, promised, disturbed, position, log>>
      /\ packet' = <<>>
  BY DEF CopyCheck, CopyBound, CopyInv, ap
<1>3. /\ start \in Nat /\ left \in Nat \ {0} /\ position \in Nat
      /\ start + left <= position /\ Iteration \in 1 .. left
  BY <1>1, InLoop
<1>4. phase' = IF CopyCheck THEN "bound" ELSE "copy_lo"
  <2>1. CASE CopyCheck
    BY <1>3, <2>1 DEF CopyCheck
  <2>2. CASE ~CopyCheck
    BY <1>3, <2>2, SmallerIs DEF CopyBound, Smaller
  <2> QED
    BY <2>1, <2>2
<1>5. phase' = "copy_lo" => end' = start + Iteration
  BY <1>3, <1>4 DEF CopyBound, Smaller
<1>6. Iteration' = Iteration
  BY <1>2 DEF Iteration, Smaller
<1>7. Len(packet') = 0
  BY <1>2
<1> QED
  BY <1>1, <1>2, <1>4, <1>5, <1>6, <1>7 DEF RequestInv, Copying

LEMMA LowRequest ==
  ASSUME TypeInv, BufferInv, CopyInv, QuietRequestInv, CopyLow
  PROVE  QuietRequestInv'
<1> SUFFICES ASSUME ~disturbed
             PROVE  RequestInv'
  BY DEF QuietRequestInv, CopyLow
<1>1. RequestInv /\ Copying
  BY DEF QuietRequestInv, Copying, CopyLow
<1>2. PICK n \in Nat : n = Len(packet)
  BY <1>1, InLoop
<1>3. PICK w : w = entries[start + n].lo
  OBVIOUS
<1>4. /\ UNCHANGED <<get, start, left, end, answer, delivered, promised, disturbed,
                     position, log>>
      /\ packet' = Append(packet, [lo |-> w, hi |-> Unset])
      /\ phase = "copy_lo" /\ phase' = "copy_hi" /\ start + n < end
  BY <1>2, <1>3 DEF CopyLow, CopyInv, ap
<1>5. PICK d \in Nat : d = Len(delivered)
  BY <1>1, InLoop
<1>6. /\ end = start + Iteration
      /\ \A k \in 1 .. n : packet[k] = promised[d + k]
  BY <1>1, <1>2, <1>4, <1>5 DEF RequestInv
<1>7. n \in 0 .. left - 1
  BY <1>1, <1>4, <1>6, InLoop
<1>8. w = promised[d + (n + 1)].lo
  <2>1. entries[start + n] = promised[d + n + 1]
    BY <1>1, <1>5, <1>7, InLoop
  <2>2. d + n + 1 = d + (n + 1)
    OBVIOUS
  <2> QED
    BY <1>3, <2>1, <2>2
<1>9. packet \in Seq(Packets)
  BY DEF TypeInv, TypeOK
<1>10. /\ Len(packet') = n + 1 /\ packet'[n + 1].lo = w
       /\ \A k \in 1 .. n : packet'[k] = packet[k]
  <2>1. PICK x : x = [lo |-> w, hi |-> Unset]
    OBVIOUS
  <2>2. packet' = Append(packet, x)
    BY <1>4, <2>1
  <2>3. /\ Len(packet') = n + 1 /\ packet'[n + 1] = x
        /\ \A k \in 1 .. n : packet'[k] = packet[k]
    BY <1>2, <1>9, <2>2
  <2>4. x.lo = w
    BY <2>1, Zenon
  <2> QED
    BY <2>3, <2>4
<1>11. ASSUME NEW k \in 1 .. n + 1
       PROVE  /\ packet'[k].lo = promised[d + k].lo
              /\ packet'[k] = promised[d + k] \/ k = n + 1
  <2>1. k \in 1 .. n \/ k = n + 1
    OBVIOUS
  <2> QED
    BY <1>6, <1>8, <1>10, <2>1
<1>12. Iteration' = Iteration
  BY <1>4 DEF Iteration, Smaller
<1> QED
  BY <1>1, <1>4, <1>5, <1>6, <1>10, <1>11, <1>12 DEF RequestInv, Copying

LEMMA HighRequest ==
  ASSUME TypeInv, BufferInv, CopyInv, QuietRequestInv, CopyHigh
  PROVE  QuietRequestInv'
<1> SUFFICES ASSUME ~disturbed
             PROVE  RequestInv'
  BY DEF QuietRequestInv, CopyHigh
<1>1. RequestInv /\ Copying
  BY DEF QuietRequestInv, Copying, CopyHigh
<1>2. PICK n \in Nat \ {0} : n = Len(packet)
  BY HighTypes
<1>3. PICK d \in Nat : d = Len(delivered)
  BY <1>1, InLoop
<1>4. /\ Len(packet') = n
      /\ \A k \in 1 .. n - 1 : packet'[k] = packet[k]
      /\ packet'[n].lo = packet[n].lo /\ packet'[n].hi = entries[start + n - 1].hi
      /\ packet'[n] \in Packets
  BY <1>2, HighTypes
<1>5. /\ UNCHANGED <<get, start, left, end, answer, delivered, promised, disturbed,
                     position, log>>
      /\ phase = "copy_hi" /\ start + n <= end
      /\ phase' = IF start + n < end THEN "copy_lo" ELSE "send"
  BY <1>2, <1>4 DEF CopyHigh, CopyInv, ap
<1>6. /\ end = start + Iteration
      /\ \A k \in 1 .. n :
           /\ packet[k].lo = promised[d + k].lo
           /\ packet[k] = promised[d + k] \/ k = n
  BY <1>1, <1>2, <1>3, <1>5 DEF RequestInv
<1>7. /\ start \in Nat /\ end \in Nat /\ left \in Nat /\ Iteration \in 1 .. left
      /\ left + d = Len(promised)
  BY <1>1, <1>3, InLoop
<1>8. n - 1 \in 0 .. left - 1 /\ d + n \in 1 .. Len(promised)
  BY <1>5, <1>6, <1>7
<1>9. entries[start + n - 1] = promised[d + n]
  <2>1. PICK k \in 0 .. left - 1 : k = n - 1
    BY <1>8
  <2>2. entries[start + k] = promised[d + k + 1]
    BY <1>1, <1>3, InLoop
  <2>3. start + k = start + n - 1 /\ d + k + 1 = d + n
    BY <1>7, <2>1
  <2> QED
    BY <2>2, <2>3
<1>10. packet'[n] = promised[d + n]
  <2>1. PICK p \in [lo : Word, hi : Word] : p = packet'[n]
    BY <1>4 DEF Packets
  <2>2. promised \in Seq([lo : Word, hi : Word])
    BY DEF TypeInv, TypeOK, Packets
  <2>3. PICK q \in [lo : Word, hi : Word] : q = promised[d + n]
    BY <1>8, <2>2, ElementOfSeq
  <2>4. n \in 1 .. n
    OBVIOUS
  <2>5. p.lo = q.lo /\ p.hi = q.hi
    BY <1>4, <1>6, <1>9, <2>1, <2>3, <2>4
  <2>6. p = q
    BY <2>5
  <2> QED
    BY <2>1, <2>3, <2>6
<1>11. ASSUME NEW k \in 1 .. n
       PROVE  packet'[k] = promised[d + k]
  <2>1. k \in 1 .. n - 1 \/ k = n
    OBVIOUS
  <2>2. CASE k = n
    BY <1>10, <2>2
  <2>3. CASE k \in 1 .. n - 1
    <3>1. k # n /\ k \in 1 .. n
      BY <2>3
    <3> QED
      BY <1>4, <1>6, <2>3, <3>1
  <2> QED
    BY <2>1, <2>2, <2>3
<1>12. Iteration' = Iteration
  BY <1>5 DEF Iteration, Smaller
<1>13. phase' = "send" => start + n = end
  BY <1>5, <1>7
<1> QED
  BY <1>1, <1>3, <1>4, <1>5, <1>6, <1>11, <1>12, <1>13 DEF RequestInv, Copying

\* A full packet: as many events as were left, or as fit.
LEMMA FullPacket ==
  ASSUME TypeInv, BufferInv, RequestInv, ~disturbed, phase = "send"
  PROVE  /\ Copied = Len(packet) /\ Copied \in 1 .. left
         /\ (start + Copied) % Wrap = start + Copied
         /\ Size = Header + Copied /\ Size <= Capacity
<1>1. Copying
  BY DEF Copying
<1>2. /\ start \in Nat /\ left \in Nat /\ position \in Nat /\ Len(packet) \in Nat
      /\ start + left <= position /\ position <= MaxEntries
      /\ Iteration \in 1 .. left /\ Iteration <= PerPacket
  BY <1>1, InLoop
<1>3. end = start + Iteration /\ start + Len(packet) = end
  BY DEF RequestInv
<1>4. PICK n \in Nat : n = Len(packet) /\ n = Iteration /\ end - start = n
  BY <1>2, <1>3
<1>5. /\ n \in 0 .. Wrap - 1 /\ start + n \in 0 .. Wrap - 1 /\ Header + n \in 0 .. Wrap - 1
      /\ Wrap \in Nat \ {0}
  BY <1>2, <1>4
<1>6. n % Wrap = n /\ (start + n) % Wrap = start + n /\ (Header + n) % Wrap = Header + n
  BY <1>5, NoWrap
<1>7. Copied = n
  BY <1>4, <1>6 DEF Copied
<1> QED
  BY <1>2, <1>4, <1>6, <1>7 DEF Size

LEMMA SendRequest ==
  ASSUME TypeInv, BufferInv, CopyInv, QuietRequestInv, Send
  PROVE  QuietRequestInv'
<1> SUFFICES ASSUME ~disturbed
             PROVE  RequestInv'
  BY DEF QuietRequestInv, Send
<1>1. RequestInv /\ Copying /\ phase = "send"
  BY DEF QuietRequestInv, Copying, Send
<1>2. PICK n \in Nat : n = Copied /\ n = Len(packet) /\ n \in 1 .. left
  BY <1>1, FullPacket DEF TypeInv, TypeOK
<1>3. Size = Header + n /\ Size <= Capacity /\ (start + n) % Wrap = start + n
  BY <1>1, <1>2, FullPacket
<1>4. PICK d \in Nat : d = Len(delivered)
  BY <1>1, InLoop
<1>5. /\ start \in Nat /\ left \in Nat /\ left + d = Len(promised)
      /\ start = get.start + d /\ get.start \in Nat
  BY <1>1, <1>4, InLoop DEF RequestInv, TypeInv, TypeOK
<1>6. /\ UNCHANGED <<get, end, packet, promised, disturbed, position, log>>
      /\ left' = left - n /\ start' = start + n
      /\ delivered' = delivered \o packet
      /\ phase' = IF left' = 0 THEN "idle" ELSE "check"
      /\ answer' = IF left' = 0 THEN "complete" ELSE "none"
  <2>1. /\ UNCHANGED <<ap, get, end, packet, promised, disturbed>>
        /\ left' = left - n /\ start' = start + n
    BY <1>2, <1>3 DEF Send
  <2>2. /\ delivered' = delivered \o packet
        /\ phase' = IF left' = 0 THEN "idle" ELSE "check"
        /\ answer' = CASE Size < Header -> "stump"
                       [] Size >= Header /\ left' = 0 -> "complete"
                       [] OTHER -> answer
    BY <1>3 DEF Send
  <2>3. Size >= Header /\ ~ (Size < Header) /\ answer = "none"
    BY <1>1, <1>3 DEF CopyInv
  <2> QED
    BY <2>1, <2>2, <2>3 DEF ap
<1>7. /\ Len(delivered') = d + n /\ delivered' \in Seq(Packets)
      /\ \A k \in 1 .. d + n : delivered'[k] = promised[k]
  <2>1. /\ packet \in Seq(Packets) /\ delivered \in Seq(Packets)
    BY DEF TypeInv, TypeOK
  <2>2. /\ delivered' \in Seq(Packets) /\ Len(delivered') = d + n
        /\ \A k \in 1 .. d + n : delivered'[k] = IF k <= d THEN delivered[k] ELSE packet[k - d]
    BY <1>2, <1>4, <1>6, <2>1, ConcatProperties
  <2>3. \A k \in 1 .. d : delivered[k] = promised[k]
    BY <1>1, <1>4 DEF RequestInv
  <2>4. \A k \in 1 .. n : packet[k] = promised[d + k]
    BY <1>1, <1>2, <1>4 DEF RequestInv
  <2>5. ASSUME NEW k \in 1 .. d + n
        PROVE  delivered'[k] = promised[k]
    <3>1. CASE k <= d
      BY <2>2, <2>3, <3>1
    <3>2. CASE k > d
      <4>1. PICK j \in 1 .. n : j = k - d
        BY <3>2
      <4>2. d + j = k
        BY <4>1
      <4> QED
        BY <2>2, <2>4, <3>2, <4>1, <4>2
    <3> QED
      BY <3>1, <3>2
  <2> QED
    BY <2>2, <2>5
<1>8. promised \in Seq(Packets)
  BY DEF TypeInv, TypeOK
<1>9. CASE left' = 0
  <2>1. Len(delivered') = Len(promised)
    BY <1>5, <1>6, <1>7, <1>9
  <2>2. delivered' = promised
    BY <1>7, <1>8, <2>1, SeqEqual
  <2> QED
    BY <1>6, <1>9, <2>2 DEF RequestInv, Copying, TransferExact
<1>10. CASE left' # 0
  <2>1. /\ start' = get'.start + Len(delivered')
        /\ left' + Len(delivered') = Len(promised')
    <3>1. PICK g \in Nat : g = get.start
      BY <1>5
    <3>2. PICK p : p = Len(promised)
      OBVIOUS
    <3>3. get'.start = g /\ Len(promised') = p /\ start' = start + n /\ left' = left - n
      BY <1>6, <3>1, <3>2
    <3>4. start = g + d /\ left + d = p /\ Len(delivered') = d + n
      BY <1>5, <1>7, <3>1, <3>2
    <3> QED
      BY <1>5, <3>3, <3>4
  <2>2. /\ get.start + Len(promised) <= position
        /\ \A k \in 1 .. Len(promised) : promised[k] = Event(log[get.start + k])
    BY <1>1 DEF RequestInv
  <2> QED
    BY <1>6, <1>7, <1>10, <2>1, <2>2 DEF RequestInv, Copying
<1> QED
  BY <1>9, <1>10

LEMMA Core0Request ==
  ASSUME TypeInv, BufferInv, CopyInv, QuietRequestInv, Core0
  PROVE  QuietRequestInv'
<1>1. CASE GetIbs \/ GetDsm
  <2>1. phase' = "stored" /\ answer' = "none"
    BY <1>1 DEF GetIbs, GetDsm, Get
  <2> QED
    BY <2>1 DEF QuietRequestInv, RequestInv, Copying, TransferExact
<1>2. CASE SendFails
  <2>1. phase' = "idle" /\ answer' = "gone"
    BY <1>2 DEF SendFails
  <2> QED
    BY <2>1 DEF QuietRequestInv, RequestInv, Copying, TransferExact
<1> QED
  BY <1>1, <1>2, ReadRequest, CheckRequest, LowRequest, HighRequest, SendRequest
     DEF Core0, Transfer

-----------------------------------------------------------------------------
(* The theorems. *)

LEMMA Initially == Init => IInv
<1> SUFFICES ASSUME Init
             PROVE  IInv
  OBVIOUS
<1>1. 0 \in Indexes /\ 0 \in Words
  BY NumberFits DEF Indexes, Words
<1>2. entries \in [Indexes -> Packets]
  BY <1>1, EventIs DEF Init
<1>3. /\ log = <<>> /\ packet = <<>> /\ delivered = <<>> /\ promised = <<>>
      /\ position = 0 /\ step = "job" /\ phase = "idle" /\ answer = "none"
  BY DEF Init
<1>4. disturbed \in BOOLEAN
  <2>1. disturbed = FALSE
    BY DEF Init
  <2> QED
    BY <2>1, Zenon
<1>5. TypeInv
  BY <1>1, <1>2, <1>3, <1>4 DEF Init, TypeInv, TypeOK
<1>6. BufferInv
  BY <1>3 DEF BufferInv, Storing, Loading
<1>7. CopyInv /\ RequestInv
  BY <1>3 DEF CopyInv, RequestInv, Copying, TransferExact
<1> QED
  BY <1>5, <1>6, <1>7 DEF IInv, QuietRequestInv

LEMMA Inductive ==
  ASSUME IInv, [Next]_vars
  PROVE  IInv'
<1> USE DEF IInv
<1>1. CASE Ap
  <2>1. TypeInv' /\ BufferInv' /\ QuietRequestInv'
    BY <1>1, ApStep, ApRequest
  <2>2. UNCHANGED core0
    BY <1>1 DEF Ap, ClearResults, StoreEntry, StoreLow, StoreHigh, StoreAdvance,
                PrepareCapture, ZeroEntry, StoreCapture, LoadLow, LoadHigh,
                PublishCapture, Call
  <2>3. CopyInv'
    BY <2>2 DEF CopyInv, core0
  <2> QED
    BY <2>1, <2>3
<1>2. CASE Core0
  BY <1>2, Core0Step, Core0Request
<1>3. CASE UNCHANGED vars
  <2>1. UNCHANGED <<device, position, entries, step, at, oldest, calls, log, disturbed>>
    BY <1>3 DEF vars, ap
  <2>2. UNCHANGED <<phase, get, start, left, end, packet, answer, delivered, promised>>
    BY <1>3 DEF vars, core0
  <2>3. TypeInv'
    BY <2>1, <2>2 DEF TypeInv, TypeOK
  <2>4. BufferInv' /\ CopyInv'
    BY <2>1, <2>2 DEF BufferInv, Storing, Loading, CopyInv
  <2>5. QuietRequestInv'
    BY <2>1, <2>2
       DEF QuietRequestInv, RequestInv, Copying, TransferExact, Iteration, Smaller
  <2> QED
    BY <2>3, <2>4, <2>5
<1> QED
  BY <1>1, <1>2, <1>3 DEF Next, Core0

LEMMA Invariant == Spec => []IInv
<1>1. Init => IInv
  BY Initially
<1>2. IInv /\ [Next]_vars => IInv'
  BY Inductive
<1> QED
  BY <1>1, <1>2, PTL DEF Spec

\* Every variable keeps its type: the AP's stores and core 0's copies
\* (store_ibs_entry, store_dsm_capture, copy_ibs_entries, copy_dsm_entries).
THEOREM CaptureTypes == Spec => []TypeOK
<1>1. IInv => TypeOK
  BY DEF IInv, TypeInv
<1> QED
  BY <1>1, Invariant, PTL

\* What the AP writes and core 0 copies is an entry of event_buffer, also when
\* the job clears the buffer or captures anew under core 0's loop.
InsideBuffer ==
  /\ Storing => position \in Indexes
  /\ step \in {"zero", "load_lo", "load_hi"} => at \in Indexes
  /\ phase = "copy_lo" => start + Len(packet) \in Indexes
  /\ phase = "copy_hi" => start + Len(packet) - 1 \in Indexes

\* No step of store_ibs_entry, prepare_dsm_capture, store_dsm_capture,
\* copy_ibs_entries or copy_dsm_entries leaves event_buffer.
THEOREM BufferNotLeft == Spec => []InsideBuffer
<1>1. ASSUME IInv
      PROVE  InsideBuffer
  <2>1. /\ position \in 0 .. MaxEntries /\ at \in 0 .. MaxEntries /\ start \in Nat
        /\ end \in Nat /\ Len(packet) \in Nat
    <3>1. packet \in Seq(Packets)
      BY <1>1 DEF IInv, TypeInv, TypeOK
    <3>2. Len(packet) \in Nat
      BY <3>1
    <3> QED
      BY <1>1, <3>2 DEF IInv, TypeInv, TypeOK
  <2>2. Storing => position \in Indexes
    BY <1>1, <2>1 DEF IInv, BufferInv, Indexes
  <2>3. step \in {"zero", "load_lo", "load_hi"} => at \in Indexes
    BY <1>1, <2>1 DEF IInv, BufferInv, Indexes
  <2>4. phase = "copy_lo" => start + Len(packet) \in Indexes
    BY <1>1, <2>1 DEF IInv, CopyInv, Indexes
  <2>5. phase = "copy_hi" => start + Len(packet) - 1 \in Indexes
    <3> SUFFICES ASSUME phase = "copy_hi"
                 PROVE  start + Len(packet) - 1 \in Indexes
      OBVIOUS
    <3>1. packet # <<>> /\ start + Len(packet) <= end /\ end <= MaxEntries
      BY <1>1 DEF IInv, CopyInv
    <3>2. Len(packet) # 0
      BY <1>1, <3>1, EmptySeq DEF IInv, TypeInv, TypeOK
    <3> QED
      BY <2>1, <3>1, <3>2 DEF Indexes
  <2> QED
    BY <2>2, <2>3, <2>4, <2>5 DEF InsideBuffer
<1> QED
  BY <1>1, Invariant, PTL

\* GETIBSBUFFER and GETDSMBUFFER deliver the events asked for, each once and in
\* the order recorded, while the job does not reuse the buffer; the loop of the
\* handlers needs no lock for that.
THEOREM TransfersExact == Spec => []TransferExact
<1>1. ASSUME IInv
      PROVE  TransferExact
  <2>1. CASE Copying
    BY <1>1, <2>1 DEF IInv, CopyInv, Copying, TransferExact
  <2>2. CASE ~Copying
    BY <1>1, <2>2 DEF IInv, QuietRequestInv, RequestInv, TransferExact
  <2> QED
    BY <2>1, <2>2
<1> QED
  BY <1>1, Invariant, PTL

\* handle_get_ibs_buffer and handle_get_dsm_buffer never copy more events than
\* they have left to send, as their comments expect, unless the job reuses the
\* buffer: the branch that guards events_to_send against an underflow is not taken.
THEOREM NothingUnderflows == Spec => []NoUnderflow
<1>1. ASSUME IInv
      PROVE  NoUnderflow
  <2> SUFFICES ASSUME phase = "send", ~disturbed
               PROVE  Copied <= left
    BY DEF NoUnderflow
  <2>1. RequestInv
    BY <1>1 DEF IInv, QuietRequestInv
  <2>2. Copied \in 1 .. left
    BY <1>1, <2>1, FullPacket DEF IInv
  <2>3. left \in Nat
    BY <1>1 DEF IInv, TypeInv, TypeOK
  <2> QED
    BY <2>2, <2>3
<1> QED
  BY <1>1, Invariant, PTL
=============================================================================
