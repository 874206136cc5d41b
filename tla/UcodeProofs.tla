---------------------------- MODULE UcodeProofs ----------------------------
(***************************************************************************)
(* Theorems about UcodeJobs, for every database, every processor and any   *)
(* number of cores, slots and requests.                                    *)
(***************************************************************************)
EXTENDS UcodeJobs, FiniteSetTheorems, SequenceTheorems, TLAPS

(***************************************************************************)
(* The search of the database.  The invariant describes the loop of        *)
(* get_update_for_cpuid: no entry before i lists the processor, and        *)
(* fallback is the last entry before i that lists FALLBACK_CPUID.          *)
(***************************************************************************)
LastFallback(k, i) ==
  /\ k \in 0 .. i - 1
  /\ k # 0 => k \in Entries /\ cpuid_matches(k, FALLBACK_CPUID)
  /\ \A n \in Entries : k < n /\ n < i => ~cpuid_matches(n, FALLBACK_CPUID)

SearchInv ==
  /\ search \in Search
  /\ ~search.done =>
       /\ \A n \in Entries : n < search.i => ~cpuid_matches(n, my_cpuid)
       /\ LastFallback(search.fallback, search.i)
  /\ KnownGoodFound

\* The length of the database is a number.
LEMMA DbLength == Len(DbEntries) \in Nat
BY EntryList

\* The loop has looked at nothing when it begins.
LEMMA SearchBegins == search = NoSearch => SearchInv
BY DbLength DEF NoSearch, SearchInv, Search, LastFallback, KnownGoodFound, Entries

\* An entry either ends the search or becomes the first part of the loop's
\* past.
LEMMA EntryKeeps == SearchInv /\ SearchEntry => SearchInv'
<1> SUFFICES ASSUME SearchInv, SearchEntry PROVE SearchInv'
  OBVIOUS
<1> DEFINE i == search.i
           kept == IF cpuid_matches(i, FALLBACK_CPUID) THEN i ELSE search.fallback
<1> USE DbLength
<1>1. /\ search \in Search /\ ~search.done /\ i \in Entries
      /\ my_cpuid' = my_cpuid
  BY DEF SearchInv, SearchEntry
<1>2. kept \in 0 .. Len(DbEntries) /\ LastFallback(kept, i + 1)
  BY <1>1 DEF SearchInv, LastFallback, Search, Entries
<1> HIDE DEF kept
<1>3. CASE cpuid_matches(i, my_cpuid)
  <2>1. search' = [done |-> TRUE, i |-> i, fallback |-> kept, entry |-> i]
    BY <1>3 DEF SearchEntry, kept
  <2>2. search' \in Search /\ search'.done /\ search'.entry = i
    BY <2>1, <1>1, <1>2 DEF Search, Entries
  <2>3. /\ i \in Listing(my_cpuid)
        /\ \A n \in Listing(my_cpuid) : i <= n
    BY <1>1, <1>3 DEF Listing, SearchInv, Search, Entries
  <2>4. KnownGoodFound'
    BY <2>2, <2>3, <1>1 DEF KnownGoodFound, Listing, Entries, cpuid_matches
  <2> QED BY <2>2, <2>4 DEF SearchInv
<1>4. CASE ~cpuid_matches(i, my_cpuid)
  <2>1. search' = [done |-> FALSE, i |-> i + 1, fallback |-> kept, entry |-> 0]
    BY <1>4 DEF SearchEntry, kept
  <2>2. /\ search' \in Search /\ ~search'.done
        /\ search'.i = i + 1 /\ search'.fallback = kept
    BY <2>1, <1>1, <1>2 DEF Search, Entries
  <2>3. \A n \in Entries : n < i + 1 => ~cpuid_matches(n, my_cpuid)
    BY <1>1, <1>4 DEF SearchInv, Search, Entries
  <2> QED
    BY <2>2, <2>3, <1>1, <1>2
    DEF SearchInv, KnownGoodFound, LastFallback, Entries, cpuid_matches
<1> QED BY <1>3, <1>4

\* Behind the last entry nothing lists the processor, and the fallback kept is
\* the last of all.
LEMMA EndKeeps == SearchInv /\ SearchFails => SearchInv'
<1> SUFFICES ASSUME SearchInv, SearchFails PROVE SearchInv'
  OBVIOUS
<1> USE DbLength
<1>1. /\ search \in Search /\ ~search.done /\ search.i = Len(DbEntries) + 1
      /\ my_cpuid' = my_cpuid
  BY DEF SearchInv, SearchFails, Search, Entries
<1>2. search' = [search EXCEPT !.done = TRUE, !.entry = search.fallback]
  BY DEF SearchFails
<1>3. /\ search' \in Search /\ search'.done
      /\ search'.entry = search.fallback
  BY <1>1, <1>2 DEF Search
<1>4. Listing(my_cpuid) = {}
  BY <1>1 DEF SearchInv, Listing, Entries
<1>5. CASE search.fallback = 0
  <2>1. Listing(FALLBACK_CPUID) = {}
    BY <1>1, <1>5 DEF SearchInv, LastFallback, Listing, Entries
  <2> QED
    BY <1>3, <1>4, <1>5, <2>1, <1>1
    DEF SearchInv, KnownGoodFound, Listing, Entries, cpuid_matches
<1>6. CASE search.fallback # 0
  <2>1. /\ search.fallback \in Listing(FALLBACK_CPUID)
        /\ \A n \in Listing(FALLBACK_CPUID) : n <= search.fallback
    BY <1>1, <1>6 DEF SearchInv, LastFallback, Listing, Entries, Search
  <2> QED
    BY <1>3, <1>4, <2>1, <1>1
    DEF SearchInv, KnownGoodFound, Listing, Entries, cpuid_matches
<1> QED BY <1>5, <1>6

-----------------------------------------------------------------------------
(***************************************************************************)
(* Core 0 and the slots.                                                   *)
(***************************************************************************)
Requested == {"short", "send_ucode", "flip_bits", "send_code", "apply", "test", "execute"}
Contained == [ucode : {NULL} \cup SUBSET Bits, length : 0 .. UpdateBytes]
SlotTypes ==
  /\ my_cpuid \in Cpuids \cup {0}
  /\ ucodes \in [Slots -> Contained]
  /\ machine_codes \in [CodeSlots -> [machine_code : {NULL} \cup Images, length : {0, 1}]]
  /\ boot \in {"init", "idle", "flip", "wait", "stray"} \cup Requested

\* What core 0 is doing is what it was asked for, and the slots are what they
\* were until it writes them.
Serves ==
  /\ boot \in Requested => req \in Request /\ req.op = boot /\ before = ucodes
  /\ boot = "flip" => req \in Request /\ req.op = "flip_bits"
  /\ boot = "wait" => req \in Request /\ req.op \in {"apply", "test", "execute"}

\* FLIPBITS after the first n positions.
Times(n, b) == Cardinality({i \in 1 .. n : req.flips[i] = b})
Flipped(n) ==
  LET from == before[req.slot] IN
  /\ flips = SubSeq(req.flips, n + 1, Len(req.flips))
  /\ \A b \in BitsBelow(from.length) :
       (b \in ucodes[1].ucode) = ((b \in from.ucode) # (Times(n, b) % 2 = 1))
  /\ before[1].ucode # NULL =>
       ucodes[1].ucode \ BitsBelow(from.length) = before[1].ucode \ BitsBelow(from.length)
  /\ ucodes[1].length = from.length
  /\ \A s \in Slots \ {1} : ucodes[s] = before[s]
FlipInv ==
  boot = "flip" =>
    /\ req.slot \in Slots /\ ucodes[1].ucode \in SUBSET Bits
    /\ \E n \in 0 .. Len(req.flips) : Flipped(n)

SlotInv == SearchInv /\ SlotTypes /\ Serves /\ FlipInv

LEMMA RequestIs ==
  ASSUME NEW r \in Request
  PROVE  /\ r.op \in Requested
         /\ r.op \in {"send_ucode", "flip_bits", "apply", "test"} => r.slot \in 0 .. UCODE_SLOTS
         /\ r.op = "send_ucode" => r.ucode \in Updates /\ r.length \in Nat
         /\ r.op = "flip_bits" => r.flips \in Seq(Nat)
         /\ r.op = "send_code" => /\ r.slot \in 0 .. MACHINE_CODE_SLOTS
                                  /\ r.code \in Images /\ r.length \in {0, 1, 2}
         /\ r.op \in {"test", "execute"} => r.code \in 0 .. MACHINE_CODE_SLOTS
         /\ r.op \in {"apply", "test"} => r.restore \in BOOLEAN
         /\ r.op = "apply" => r.core = 0
         /\ r.op \in {"apply", "test", "execute"} => r.core \in Cores
BY Contents, CoreZero, UpdateSize DEF Request, Requested

\* Slots 0 and 1 exist.
LEMMA TwoSlots == 0 \in Slots /\ 1 \in Slots /\ 0 \in CodeSlots
BY SlotCounts DEF Slots, CodeSlots

\* Writing a slot leaves sets of bits in it.
LEMMA WrittenType ==
  ASSUME NEW memory \in SUBSET Bits, NEW update, NEW bytes
  PROVE  Written(memory, update, bytes) \in SUBSET Bits
BY DEF Written, BitsBelow

LEMMA SlotWritten ==
  ASSUME ucodes \in [Slots -> Contained], NEW s \in Slots, NEW memory \in SUBSET Bits,
         NEW update, NEW bytes \in 0 .. UpdateBytes,
         ucodes' = [ucodes EXCEPT ![s] =
                      [ucode |-> Written(memory, update, bytes), length |-> bytes]]
  PROVE  /\ ucodes' \in [Slots -> Contained]
         /\ ucodes'[s] = [ucode |-> Written(memory, update, bytes), length |-> bytes]
         /\ \A t \in Slots \ {s} : ucodes'[t] = ucodes[t]
<1>1. PICK u \in SUBSET Bits : u = Written(memory, update, bytes)
  BY WrittenType
<1>2. [ucode |-> u, length |-> bytes] \in Contained
  BY DEF Contained
<1> QED
  BY <1>1, <1>2, Zenon

\* The memory a slot has or gets.
LEMMA MemoryType ==
  ASSUME ucodes \in [Slots -> Contained], NEW s \in Slots
  PROVE  Memory(s) \subseteq SUBSET Bits
BY Contents DEF Memory, Contained

-----------------------------------------------------------------------------
(* The steps of core 0. *)

LEMMA SlotsBegin == Init => SlotInv
<1> SUFFICES ASSUME Init PROVE SlotInv
  OBVIOUS
<1>1. SearchInv
  BY SearchBegins DEF Init, SearchInit
<1>2. 0 \in 0 .. UpdateBytes
  BY UpdateSize
<1>3. SlotTypes
  BY <1>2 DEF Init, SearchInit, SlotTypes, NoSlots, Contained
<1> QED
  BY <1>1, <1>3 DEF SlotInv, Init, Serves, FlipInv, Requested

\* A request that has been answered leaves nothing to be said.
LEMMA ReplyServes == Reply => Serves' /\ FlipInv' /\ boot' = "idle"
BY DEF Reply, Serves, FlipInv, Requested

LEMMA ReceiveKeeps == SlotInv /\ Receive => SlotInv'
<1> SUFFICES ASSUME SlotInv, Receive PROVE SlotInv'
  OBVIOUS
<1>1. PICK r \in Request : req' = r /\ boot' = r.op
  BY DEF Receive
<1>2. r.op \in Requested
  BY RequestIs
<1>3. /\ UNCHANGED <<my_cpuid, search, ucodes, machine_codes>>
      /\ before' = ucodes
  BY DEF Receive, CoresKeep, slots, database
<1>4. SearchInv'
  BY <1>3 DEF SlotInv, SearchInv, KnownGoodFound, LastFallback, Listing, Search, Entries, cpuid_matches
<1>5. SlotTypes'
  BY <1>1, <1>2, <1>3 DEF SlotInv, SlotTypes
<1>6. Serves' /\ FlipInv'
  BY <1>1, <1>2, <1>3 DEF Serves, FlipInv, Requested
<1> QED
  BY <1>4, <1>5, <1>6 DEF SlotInv

\* Outside the search nothing disturbs what is known of it.
LEMMA SearchLeft == SearchInv /\ UNCHANGED database => SearchInv'
BY DEF database, SearchInv, KnownGoodFound, LastFallback, Listing, Search, Entries, cpuid_matches

LEMMA SearchAgain ==
  ASSUME SearchReturns
  PROVE  SearchInv'
<1>1. search' = NoSearch
  BY DEF SearchReturns
<1> QED
  BY <1>1, DbLength DEF NoSearch, SearchInv, Search, LastFallback, KnownGoodFound, Entries

\* Slot 0 gets the entry the search has found.
LEMMA EnsureSlot0Keeps == SlotInv /\ EnsureSlot0 => SlotInv'
<1> SUFFICES ASSUME SlotInv, EnsureSlot0 PROVE SlotInv'
  OBVIOUS
<1>1. SearchReturns /\ boot' = "idle" /\ machine_codes' = machine_codes
  BY DEF EnsureSlot0
<1>2. ucodes \in [Slots -> Contained] /\ search \in Search
  BY DEF SlotInv, SlotTypes, SearchInv
<1>3. ucodes' \in [Slots -> Contained]
  <2>1. CASE search.entry = 0
    <3>1. PICK memory \in Garbage \cup {NULL} :
            ucodes' = [ucodes EXCEPT ![0] = [ucode |-> memory, length |-> UpdateBytes]]
      BY <2>1 DEF EnsureSlot0
    <3>2. memory \in {NULL} \cup SUBSET Bits
      BY Contents
    <3>3. [ucode |-> memory, length |-> UpdateBytes] \in Contained
      BY <3>2, UpdateSize DEF Contained
    <3> QED
      BY <1>2, <3>1, <3>3, Zenon
  <2>2. CASE search.entry # 0
    <3>1. search.entry \in Entries
      BY <1>2, <2>2 DEF Search, Entries
    <3>2. PICK n \in 0 .. UpdateBytes : n = DbUpdates[search.entry].length
      BY <3>1, Contents
    <3>3. PICK good : good = DbUpdates[search.entry].ucode
      OBVIOUS
    <3>4. PICK memory \in Garbage :
            ucodes' = [ucodes EXCEPT ![0] = [ucode |-> Written(memory, good, n), length |-> n]]
      BY <2>2, <3>2, <3>3 DEF EnsureSlot0
    <3>5. memory \in SUBSET Bits
      BY Contents
    <3> QED
      BY <1>2, <3>4, <3>5, SlotWritten, TwoSlots
  <2> QED
    BY <2>1, <2>2
<1>4. my_cpuid' = 0
  BY <1>1 DEF SearchReturns
<1>5. SlotTypes'
  BY <1>1, <1>3, <1>4 DEF SlotInv, SlotTypes
<1>6. Serves' /\ FlipInv'
  BY <1>1 DEF Serves, FlipInv, Requested
<1> QED
  BY <1>1, <1>5, <1>6, SearchAgain DEF SlotInv

\* The search of the database leaves the slots alone.
LEMMA SearchKeeps == SlotInv /\ Search0 => SlotInv'
<1> SUFFICES ASSUME SlotInv, Search0 PROVE SlotInv'
  OBVIOUS
<1>1. SearchInv'
  BY EntryKeeps, EndKeeps DEF Search0, SearchNext, SlotInv
<1>2. UNCHANGED <<my_cpuid, slots, serving>> /\ boot = "init"
  BY DEF Search0, SearchNext, SearchEntry, SearchFails
<1>3. SlotTypes' /\ Serves' /\ FlipInv'
  BY <1>2 DEF SlotInv, SlotTypes, Serves, FlipInv, slots, serving, Requested
<1> QED
  BY <1>1, <1>3 DEF SlotInv

\* A refusal, and the end of any request that has not written.
LEMMA RefuseKeeps ==
  ASSUME SlotInv, Reply, UNCHANGED <<database, slots>>
  PROVE  SlotInv'
<1>1. SearchInv'
  BY SearchLeft DEF SlotInv
<1>2. SlotTypes'
  BY ReplyServes DEF SlotInv, SlotTypes, database, slots
<1> QED
  BY <1>1, <1>2, ReplyServes DEF SlotInv

\* SENDUCODE and SENDMACHINECODE.
LEMMA SendUcodeKeeps == SlotInv /\ SendUcode => SlotInv'
<1> SUFFICES ASSUME SlotInv, SendUcode PROVE SlotInv'
  OBVIOUS
<1>1. /\ boot = "send_ucode" /\ req.slot \in Slots /\ Reply /\ UNCHANGED database
      /\ machine_codes' = machine_codes
  BY DEF SendUcode, CoresKeep
<1>2. ucodes \in [Slots -> Contained] /\ req \in Request /\ req.op = "send_ucode"
  BY <1>1 DEF SlotInv, SlotTypes, Serves, Requested
<1>3. PICK n \in 0 .. UpdateBytes : n = req.length
  BY <1>2, RequestIs DEF SendUcode
<1>4. PICK memory \in Memory(req.slot) :
        ucodes' = [ucodes EXCEPT ![req.slot] =
                     [ucode |-> Written(memory, req.ucode, n), length |-> n]]
  BY <1>3 DEF SendUcode
<1>5. memory \in SUBSET Bits
  BY <1>1, <1>2, MemoryType
<1>6. ucodes' \in [Slots -> Contained]
  BY <1>1, <1>2, <1>4, <1>5, SlotWritten
<1>7. SlotTypes'
  BY <1>1, <1>6, ReplyServes DEF SlotInv, SlotTypes, database
<1> QED
  BY <1>1, <1>7, ReplyServes, SearchLeft DEF SlotInv

LEMMA SendCodeKeeps == SlotInv /\ SendCode => SlotInv'
<1> SUFFICES ASSUME SlotInv, SendCode PROVE SlotInv'
  OBVIOUS
<1>1. /\ boot = "send_code" /\ req.slot \in CodeSlots /\ Reply /\ UNCHANGED database
      /\ ucodes' = ucodes
  BY DEF SendCode, CoresKeep
<1>2. req \in Request /\ req.op = "send_code"
  BY <1>1 DEF SlotInv, Serves, Requested
<1>3. PICK memory \in IF machine_codes[req.slot].machine_code = NULL
                      THEN Images ELSE {machine_codes[req.slot].machine_code} :
        machine_codes' = [machine_codes EXCEPT ![req.slot] =
          [machine_code |-> IF req.length = 0 THEN memory ELSE req.code,
           length |-> req.length]]
  BY DEF SendCode
<1>4. memory \in Images
  BY <1>1, <1>3 DEF SlotInv, SlotTypes
<1>5. PICK i \in Images : i = IF req.length = 0 THEN memory ELSE req.code
  BY <1>2, <1>4, RequestIs
<1>6. req.length \in {0, 1}
  BY <1>2, RequestIs DEF SendCode
<1>7. machine_codes' \in [CodeSlots -> [machine_code : {NULL} \cup Images, length : {0, 1}]]
  BY <1>3, <1>5, <1>6 DEF SlotInv, SlotTypes
<1>8. SlotTypes'
  BY <1>1, <1>7, ReplyServes DEF SlotInv, SlotTypes, database
<1> QED
  BY <1>1, <1>8, ReplyServes, SearchLeft DEF SlotInv
-----------------------------------------------------------------------------
(* FLIPBITS. *)

\* A byte of the update has all its bits.
LEMMA BitOfUpdate ==
  ASSUME NEW b \in Nat, NEW n \in 0 .. UpdateBytes, ByteOf(b) < n
  PROVE  b \in Bits
<1>1. PICK w \in Nat \ {0}, m \in Nat \ {0} : w = ByteBits /\ m = UpdateBytes
  BY UpdateSize
<1>2. PICK q \in Int : q = b \div w
  BY <1>1
<1>3. b < w * (q + 1)
  BY <1>1, <1>2
<1>4. q + 1 <= m
  BY <1>1, <1>2 DEF ByteOf
<1>5. w * (q + 1) <= w * m
  BY <1>1, <1>2, <1>4
<1>6. PICK x \in Int, y \in Int : x = w * (q + 1) /\ y = m * w
  BY <1>1, <1>2
<1>7. b < y
  BY <1>1, <1>3, <1>5, <1>6
<1>8. 0 .. y - 1 = Bits
  BY <1>1, <1>6 DEF Bits
<1> QED
  BY <1>7, <1>8

\* How often a position occurs in a list that grows.
LEMMA TimesGrow ==
  ASSUME NEW n \in Nat, NEW b
  PROVE  /\ Times(0, b) = 0
         /\ Times(n, b) \in Nat
         /\ Times(n + 1, b) = Times(n, b) + (IF req.flips[n + 1] = b THEN 1 ELSE 0)
<1> DEFINE At1(m) == {i \in 1 .. m : req.flips[i] = b}
<1>1. At1(0) = {}
  OBVIOUS
<1>2. IsFiniteSet(At1(n))
  <2>1. IsFiniteSet(1 .. n)
    BY FS_Interval
  <2> QED
    BY <2>1, FS_Subset
<1>5. Times(0, b) = 0
  BY <1>1, FS_EmptySet, Zenon DEF Times
<1>6. Times(n, b) \in Nat /\ Times(n, b) = Cardinality(At1(n))
  BY <1>2, FS_CardinalityType DEF Times
<1>7. Times(n + 1, b) = Cardinality(At1(n + 1))
  BY Zenon DEF Times
<1>3. CASE req.flips[n + 1] = b
  <2>1. At1(n + 1) = At1(n) \cup {n + 1} /\ n + 1 \notin At1(n)
    BY <1>3
  <2>2. Cardinality(At1(n + 1)) = Cardinality(At1(n)) + 1
    BY <1>2, <2>1, FS_AddElement
  <2> QED
    BY <1>3, <1>5, <1>6, <1>7, <2>2
<1>4. CASE req.flips[n + 1] # b
  <2>1. At1(n + 1) = At1(n)
    BY <1>4
  <2> HIDE DEF At1
  <2> QED
    BY <1>4, <1>5, <1>6, <1>7, <2>1
<1> QED
  BY <1>3, <1>4

\* Slot 1 holds a copy, nothing is flipped yet.
LEMMA CopyKeeps == SlotInv /\ CopyToSlot1 => SlotInv'
<1> SUFFICES ASSUME SlotInv, CopyToSlot1 PROVE SlotInv'
  OBVIOUS
<1>1. /\ boot = "flip_bits" /\ req.slot \in Slots /\ ucodes[req.slot].ucode # NULL
      /\ boot' = "flip" /\ flips' = req.flips
      /\ UNCHANGED <<database, machine_codes, req, before>>
  BY DEF CopyToSlot1, CoresKeep
<1>2. /\ ucodes \in [Slots -> Contained] /\ req \in Request /\ req.op = "flip_bits"
      /\ before = ucodes
  BY <1>1 DEF SlotInv, SlotTypes, Serves, Requested
<1>3. PICK from : from = ucodes[req.slot]
  OBVIOUS
<1>4. from.ucode \in SUBSET Bits /\ from.length \in 0 .. UpdateBytes
  BY <1>1, <1>2, <1>3 DEF Contained
<1>5. PICK memory \in Memory(1) :
        ucodes' = [ucodes EXCEPT ![1] =
                     [ucode |-> Written(memory, from.ucode, from.length),
                      length |-> from.length]]
  BY <1>3 DEF CopyToSlot1
<1>6. memory \in SUBSET Bits
  BY <1>2, TwoSlots, MemoryType
<1>7. /\ ucodes' \in [Slots -> Contained]
      /\ ucodes'[1] = [ucode |-> Written(memory, from.ucode, from.length),
                       length |-> from.length]
      /\ \A t \in Slots \ {1} : ucodes'[t] = ucodes[t]
  BY <1>2, <1>4, <1>5, <1>6, SlotWritten, TwoSlots
<1>8. SlotTypes'
  BY <1>1, <1>7 DEF SlotInv, SlotTypes, database
<1>9. Serves'
  BY <1>1, <1>2 DEF Serves, Requested
<1>10. ucodes'[1].ucode \in SUBSET Bits
  BY <1>6, <1>7, WrittenType
<1>11. 0 \in 0 .. Len(req.flips) /\ req.flips = SubSeq(req.flips, 1, Len(req.flips))
  <2>1. PICK f \in Seq(Nat) : f = req.flips
    BY <1>2, RequestIs
  <2>2. PICK g : g = SubSeq(f, 1, Len(f))
    OBVIOUS
  <2>3. g = f
    BY <2>2
  <2> QED
    BY <2>1, <2>2, <2>3
<1>12. Flipped(0)'
  <2>1. before'[req'.slot] = from /\ before'[1] = ucodes[1] /\ 1 \in Slots
    BY <1>1, <1>2, <1>3, TwoSlots
  <2>2. \A b : Times(0, b)' = 0
    <3>1. \A b : {i \in 1 .. 0 : req'.flips[i] = b} = {}
      OBVIOUS
    <3> QED
      BY <3>1, FS_EmptySet, Zenon DEF Times
  <2>3. flips' = SubSeq(req'.flips, 0 + 1, Len(req'.flips))
    BY <1>1, <1>11
  <2>4. ASSUME NEW b \in BitsBelow(from.length)
        PROVE  (b \in ucodes'[1].ucode) = ((b \in from.ucode) # (Times(0, b)' % 2 = 1))
    <3>1. (b \in ucodes'[1].ucode) <=> (b \in from.ucode)
      BY <1>4, <1>7, <2>4 DEF Written
    <3>2. ~(Times(0, b)' % 2 = 1)
      BY <2>2
    <3> QED
      BY <3>1, <3>2
  <2>5. ASSUME before'[1].ucode # NULL
        PROVE  ucodes'[1].ucode \ BitsBelow(from.length) = before'[1].ucode \ BitsBelow(from.length)
    <3>1. memory = ucodes[1].ucode
      BY <1>5, <2>1, <2>5 DEF Memory
    <3>2. ucodes'[1].ucode = Written(memory, from.ucode, from.length)
      BY <1>7
    <3> QED
      BY <2>1, <3>1, <3>2 DEF Written
  <2>6. \A s \in Slots \ {1} : ucodes'[s] = before'[s]
    BY <1>1, <1>2, <1>7
  <2> QED
    BY <1>7, <2>1, <2>3, <2>4, <2>5, <2>6 DEF Flipped, BitsBelow, Bits, ByteOf
<1>13. FlipInv'
  BY <1>1, <1>10, <1>11, <1>12 DEF FlipInv
<1> QED
  BY <1>1, <1>8, <1>9, <1>13, SearchLeft DEF SlotInv

\* A position behind the update changes nothing, any other changes its bit.
LEMMA FlipKeeps == SlotInv /\ FlipBit => SlotInv'
<1> SUFFICES ASSUME SlotInv, FlipBit PROVE SlotInv'
  OBVIOUS
<1>1. /\ boot = "flip" /\ flips # <<>> /\ boot' = "flip" /\ flips' = Tail(flips)
      /\ UNCHANGED <<database, machine_codes, req, before>>
  BY DEF FlipBit, CoresKeep
<1>2. /\ ucodes \in [Slots -> Contained] /\ req \in Request /\ req.op = "flip_bits"
      /\ req.slot \in Slots /\ ucodes[1].ucode \in SUBSET Bits
  BY <1>1 DEF SlotInv, SlotTypes, Serves, FlipInv, Requested
<1>3. PICK n \in 0 .. Len(req.flips) : Flipped(n)
  BY <1>1 DEF SlotInv, FlipInv
<1>4. PICK f \in Seq(Nat) : f = req.flips
  BY <1>2, RequestIs
<1>5. PICK from : from = before[req.slot]
  OBVIOUS
<1>6. /\ flips = SubSeq(f, n + 1, Len(f))
      /\ \A b \in BitsBelow(from.length) :
           (b \in ucodes[1].ucode) = ((b \in from.ucode) # (Times(n, b) % 2 = 1))
      /\ before[1].ucode # NULL =>
           ucodes[1].ucode \ BitsBelow(from.length) = before[1].ucode \ BitsBelow(from.length)
      /\ ucodes[1].length = from.length
      /\ \A s \in Slots \ {1} : ucodes[s] = before[s]
  BY <1>3, <1>4, <1>5 DEF Flipped
<1>7. n + 1 \in 0 .. Len(f) /\ Head(flips) = f[n + 1]
      /\ Tail(flips) = SubSeq(f, n + 1 + 1, Len(f))
  <2>1. PICK l \in Nat : l = Len(f)
    OBVIOUS
  <2>2. n < l
    BY <1>1, <1>3, <1>4, <1>6, <2>1
  <2>3. PICK g : g = SubSeq(f, n + 1, l)
    OBVIOUS
  <2>4. PICK h : h = SubSeq(f, n + 1 + 1, l)
    OBVIOUS
  <2>5. g \in Seq(Nat) /\ Len(g) = l - n /\ \A i \in 1 .. l - n : g[i] = f[n + i]
    BY <1>3, <1>4, <2>1, <2>2, <2>3, SMTT(60)
  <2>6. h \in Seq(Nat) /\ Len(h) = l - n - 1 /\ \A i \in 1 .. l - n - 1 : h[i] = f[n + 1 + i]
    BY <1>3, <1>4, <2>1, <2>2, <2>4
  <2>7. PICK t : t = Tail(g)
    OBVIOUS
  <2>8. t \in Seq(Nat) /\ Len(t) = l - n - 1 /\ \A i \in 1 .. l - n - 1 : t[i] = g[i + 1]
    BY <2>2, <2>5, <2>7
  <2>9. ASSUME NEW i \in 1 .. l - n - 1 PROVE t[i] = h[i]
    <3>1. i + 1 \in 1 .. l - n
      BY <2>2, <2>9
    <3>2. g[i + 1] = f[n + (i + 1)]
      BY <2>5, <3>1
    <3> QED
      BY <2>6, <2>8, <3>2
  <2>10. t = h
    BY <2>6, <2>8, <2>9, SeqEqual
  <2>11. flips = g
    BY <1>6, <2>1, <2>3
  <2>12. Head(g) = g[1] /\ 1 \in 1 .. l - n
    BY <2>2, <2>5, <1>3, <1>4, <2>1
  <2>13. g[1] = f[n + 1]
    BY <2>5, <2>12
  <2>14. n + 1 \in 0 .. l
    BY <1>3, <1>4, <2>1, <2>2
  <2> QED
    BY <2>1, <2>4, <2>7, <2>10, <2>11, <2>12, <2>13, <2>14
<1>8. PICK b \in Nat : b = f[n + 1]
  BY <1>4, <1>7
<1>9. from.length \in 0 .. UpdateBytes /\ ucodes[req.slot].length = from.length
  BY <1>2, <1>5, <1>6, TwoSlots DEF Contained
<1>10. ucodes' = IF ByteOf(b) >= from.length THEN ucodes
                 ELSE [ucodes EXCEPT ![1].ucode = Toggled(@, b)]
  BY <1>7, <1>8, <1>9, Zenon DEF FlipBit
<1>11. /\ ucodes' \in [Slots -> Contained] /\ ucodes'[1].ucode \in SUBSET Bits
       /\ ucodes'[1].length = from.length
       /\ \A s \in Slots \ {1} : ucodes'[s] = ucodes[s]
       /\ \A x \in Bits : (x \in ucodes'[1].ucode) =
            ((x \in ucodes[1].ucode) # (x = b /\ ByteOf(b) < from.length))
  <2>0. ByteOf(b) \in Int /\ from.length \in Int
    BY <1>8, <1>9, UpdateSize DEF ByteOf
  <2>1. CASE ByteOf(b) >= from.length
    <3>1. ucodes' = ucodes /\ ~(ByteOf(b) < from.length)
      BY <1>10, <2>0, <2>1
    <3> QED
      BY <1>2, <1>6, <3>1
  <2>2. CASE ~(ByteOf(b) >= from.length)
    <3>1. ByteOf(b) < from.length /\ b \in Bits
      BY <1>8, <1>9, <2>0, <2>2, BitOfUpdate
    <3>2. PICK u : u = Toggled(ucodes[1].ucode, b)
      OBVIOUS
    <3>3. u \in SUBSET Bits
      BY <1>2, <3>1, <3>2 DEF Toggled
    <3>4. \A x : x \in u <=> ~((x \in ucodes[1].ucode) <=> (x = b))
      BY <3>2 DEF Toggled
    <3>5. ucodes' = [ucodes EXCEPT ![1] = [ucode |-> u, length |-> from.length]]
      <4>1. ucodes' = [ucodes EXCEPT ![1] = [ucodes[1] EXCEPT !.ucode = u]]
        BY <1>10, <2>2, <3>2, Zenon
      <4>2. [ucodes[1] EXCEPT !.ucode = u] = [ucode |-> u, length |-> from.length]
        BY <1>2, <1>6, TwoSlots DEF Contained
      <4> QED
        BY <4>1, <4>2, Zenon
    <3>6. [ucode |-> u, length |-> from.length] \in Contained
      BY <1>9, <3>3 DEF Contained
    <3>7. /\ ucodes' \in [Slots -> Contained]
          /\ ucodes'[1] = [ucode |-> u, length |-> from.length]
          /\ \A s \in Slots \ {1} : ucodes'[s] = ucodes[s]
      BY <1>2, <3>5, <3>6, TwoSlots, Zenon
    <3> QED
      BY <3>1, <3>3, <3>4, <3>7
  <2> QED
    BY <2>1, <2>2
<1>12. Flipped(n + 1)'
  <2>1. before' = before /\ before'[req'.slot] = from /\ req' = req
    BY <1>1, <1>5
  <2>2. flips' = SubSeq(req'.flips, (n + 1) + 1, Len(req'.flips))
    BY <1>1, <1>4, <1>7
  <2>3. ASSUME NEW x \in BitsBelow(from.length)
        PROVE  (x \in ucodes'[1].ucode) = ((x \in from.ucode) # (Times(n + 1, x) % 2 = 1))
    <3>1. x \in Bits /\ ByteOf(x) < from.length
      BY <2>3 DEF BitsBelow
    <3>2. (x \in ucodes'[1].ucode) = ((x \in ucodes[1].ucode) # (x = b))
      BY <1>11, <3>1
    <3>3. Times(n, x) \in Nat /\ Times(n + 1, x) = Times(n, x) + (IF b = x THEN 1 ELSE 0)
      <4>1. n \in Nat
        BY <1>3, <1>4
      <4>2. req.flips[n + 1] = b
        BY <1>4, <1>8
      <4> QED
        BY <4>1, <4>2, TimesGrow
    <3>4. (Times(n + 1, x) % 2 = 1) = ((Times(n, x) % 2 = 1) # (b = x))
      <4>1. CASE b = x
        <5>1. Times(n + 1, x) = Times(n, x) + 1
          BY <3>3, <4>1
        <5>2. PICK t \in Nat : t = Times(n, x)
          BY <3>3
        <5>3. ((t + 1) % 2 = 1) <=> ~(t % 2 = 1)
          OBVIOUS
        <5> QED
          BY <4>1, <5>1, <5>2, <5>3
      <4>2. CASE b # x
        <5>1. Times(n + 1, x) = Times(n, x)
          BY <3>3, <4>2
        <5> QED
          BY <4>2, <5>1
      <4> QED
        BY <4>1, <4>2
    <3>5. (x \in ucodes[1].ucode) = ((x \in from.ucode) # (Times(n, x) % 2 = 1))
      BY <1>6, <2>3
    <3> QED
      BY <3>2, <3>4, <3>5
  <2>4. \A x : Times(n + 1, x)' = Times(n + 1, x)
    BY <2>1 DEF Times
  <2>5. ASSUME before[1].ucode # NULL
        PROVE  ucodes'[1].ucode \ BitsBelow(from.length) = before[1].ucode \ BitsBelow(from.length)
    <3>1. \A x \in Bits : x \notin BitsBelow(from.length) =>
             ((x \in ucodes'[1].ucode) <=> (x \in ucodes[1].ucode))
      <4>1. \A x \in Bits : x \notin BitsBelow(from.length) => ~(x = b /\ ByteOf(b) < from.length)
        BY DEF BitsBelow
      <4> QED
        BY <1>11, <4>1
    <3>2. ucodes'[1].ucode \ BitsBelow(from.length) = ucodes[1].ucode \ BitsBelow(from.length)
      BY <1>2, <1>11, <3>1
    <3> QED
      BY <1>6, <2>5, <3>2
  <2>6. \A s \in Slots \ {1} : ucodes'[s] = before[s]
    BY <1>6, <1>11
  <2>7. \A m : BitsBelow(m)' = BitsBelow(m)
    BY DEF BitsBelow, Bits, ByteOf
  <2>8. \A x \in BitsBelow(from.length) :
          (x \in ucodes'[1].ucode) = ((x \in from.ucode) # (Times(n + 1, x)' % 2 = 1))
    BY <2>3, <2>4
  <2>9. Slots' = Slots
    BY DEF Slots
  <2> QED
    BY <1>11, <2>1, <2>2, <2>5, <2>6, <2>7, <2>8, <2>9 DEF Flipped
<1>13. SlotTypes'
  BY <1>1, <1>11 DEF SlotInv, SlotTypes, database
<1>14. Serves' /\ FlipInv'
  BY <1>1, <1>2, <1>4, <1>7, <1>11, <1>12 DEF Serves, FlipInv, Requested
<1> QED
  BY <1>1, <1>13, <1>14, SearchLeft DEF SlotInv

\* Where core 0 leaves what is defined.
Strays == EnsureSlot0Stray \/ SendUcodeStray \/ SendCodeStray \/ FlipBitsStray \/ ApplyStray

LEMMA StrayKeeps ==
  ASSUME SlotInv, boot' = "stray", UNCHANGED <<database, slots>>
  PROVE  SlotInv'
<1>1. SlotTypes'
  BY DEF SlotInv, SlotTypes, database, slots
<1>2. Serves' /\ FlipInv'
  BY DEF Serves, FlipInv, Requested
<1> QED
  BY <1>1, <1>2, SearchLeft DEF SlotInv

LEMMA QueueKeeps == SlotInv /\ QueueJob => SlotInv'
<1> SUFFICES ASSUME SlotInv, QueueJob PROVE SlotInv'
  OBVIOUS
<1>1. boot' = "wait" /\ UNCHANGED <<database, slots, req>> /\ boot \in {"apply", "test", "execute"}
  BY DEF QueueJob, Queue, IsJob
<1>2. req \in Request /\ req.op = boot
  BY <1>1 DEF SlotInv, Serves, Requested
<1>3. SlotTypes'
  BY <1>1 DEF SlotInv, SlotTypes, database, slots
<1>4. Serves' /\ FlipInv'
  BY <1>1, <1>2 DEF Serves, FlipInv, Requested
<1> QED
  BY <1>1, <1>3, <1>4, SearchLeft DEF SlotInv

LEMMA SlotsLeft ==
  ASSUME SlotInv, UNCHANGED <<slots, serving, database>>
  PROVE  SlotInv'
<1>1. SlotTypes' /\ Serves'
  BY DEF SlotInv, SlotTypes, Serves, database, slots, serving
<1>2. FlipInv'
  <2>1. UNCHANGED <<ucodes, boot, req, flips, before>>
    BY DEF slots, serving
  <2>2. \A n : Flipped(n)' = Flipped(n)
    BY <2>1 DEF Flipped, Times, BitsBelow, Bits, ByteOf, Slots
  <2>3. FlipInv
    BY DEF SlotInv
  <2> QED
    BY <2>1, <2>2, <2>3 DEF FlipInv, Slots, Bits
<1> QED
  BY <1>1, <1>2, SearchLeft DEF SlotInv

\* What a core does with its job touches neither the slots nor core 0's work
\* on a request.
LEMMA CoreStepsKeep ==
  ASSUME NEW c \in Cores, CoreMoves(c) \/ CodeStep(c)
  PROVE  UNCHANGED <<slots, serving, database>>
<1>1. CASE StartJob(c) \/ Apply(c) \/ StoreResult(c) \/ CallMachineCode(c)
  BY <1>1 DEF StartJob, Apply, StoreResult, CallMachineCode, BootKeeps
<1>2. CASE Restore(c) \/ AfterRestore(c) \/ FinishJob(c)
  BY <1>2 DEF Restore, AfterRestore, FinishJob, BootKeeps
<1>3. CASE HandlerRuns(c) \/ HandlerReturns(c) \/ RecoverCore(c)
  BY <1>3 DEF HandlerRuns, HandlerReturns, RecoverCore, BootKeeps
<1>4. CASE CodeStep(c)
  BY <1>4 DEF CodeStep, CodeReturns, CodeRaises, CodeApplies, CodeGoesOn, BootKeeps
<1> QED
  BY <1>1, <1>2, <1>3, <1>4 DEF CoreMoves

LEMMA SlotsStep == SlotInv /\ [Next]_vars => SlotInv'
<1> SUFFICES ASSUME SlotInv, [Next]_vars PROVE SlotInv'
  OBVIOUS
<1>1. CASE Receive
  BY <1>1, ReceiveKeeps
<1>2. CASE BootMoves
  <2>1. CASE Search0 \/ EnsureSlot0
    BY <2>1, SearchKeeps, EnsureSlot0Keeps
  <2>2. CASE \/ RefuseShort \/ SendUcodeFails \/ SendCodeFails \/ FlipBitsFails
             \/ FlipBitsDone \/ RefuseJob
    <3>1. Reply /\ UNCHANGED <<database, slots>>
      BY <2>2 DEF RefuseShort, SendUcodeFails, SendCodeFails, FlipBitsFails, FlipBitsDone,
                  RefuseJob, Refuse, CoresKeep
    <3> QED
      BY <3>1, RefuseKeeps
  <2>3. CASE SendUcode \/ SendCode
    BY <2>3, SendUcodeKeeps, SendCodeKeeps
  <2>4. CASE CopyToSlot1 \/ FlipBit
    BY <2>4, CopyKeeps, FlipKeeps
  <2>5. CASE Strays
    <3>1. boot' = "stray" /\ UNCHANGED <<database, slots>>
      BY <2>5 DEF Strays, EnsureSlot0Stray, SendUcodeStray, SendCodeStray, FlipBitsStray,
                  ApplyStray, Stray, CoresKeep
    <3> QED
      BY <3>1, StrayKeeps
  <2>6. CASE QueueJob
    BY <2>6, QueueKeeps
  <2>7. CASE JobEnds \/ WaitTimesOut
    <3>1. Reply /\ UNCHANGED <<database, slots>>
      BY <2>7 DEF JobEnds, WaitTimesOut, CoresKeep
    <3> QED
      BY <3>1, RefuseKeeps
  <2> QED
    BY <1>2, <2>1, <2>2, <2>3, <2>4, <2>5, <2>6, <2>7 DEF BootMoves, Strays
<1>3. ASSUME NEW c \in Cores, CoreMoves(c) \/ CodeStep(c) PROVE SlotInv'
  BY <1>3, CoreStepsKeep, SlotsLeft
<1>4. CASE UNCHANGED vars
  BY <1>4, SlotsLeft DEF vars
<1> QED
  BY <1>1, <1>2, <1>3, <1>4 DEF Next

\* FLIPBITS flips exactly the bits listed an odd number of times, whatever
\* slot it is given, whatever slot 1 held, however long the list.
THEOREM FlipsExactly == Spec => []FlipExact
<1>1. SlotInv => FlipExact
  <2> SUFFICES ASSUME SlotInv, boot = "flip", flips = <<>> PROVE FlipExact
    BY DEF FlipExact
  <2>1. req \in Request /\ req.op = "flip_bits"
    BY DEF SlotInv, Serves
  <2>2. PICK f \in Seq(Nat) : f = req.flips
    BY <2>1, RequestIs
  <2>3. PICK n \in 0 .. Len(f) : Flipped(n)
    BY <2>2 DEF SlotInv, FlipInv
  <2>4. n = Len(f)
    <3>1. PICK g : g = SubSeq(f, n + 1, Len(f))
      OBVIOUS
    <3>2. g = <<>> /\ Len(g) = IF n + 1 <= Len(f) THEN Len(f) - n ELSE 0
      BY <2>2, <2>3, <3>1, SMTT(60) DEF Flipped
    <3> QED
      BY <2>3, <3>2
  <2>5. \A b : Cardinality({i \in 1 .. Len(req.flips) : req.flips[i] = b}) = Times(n, b)
    BY <2>2, <2>4 DEF Times
  <2> QED
    BY <2>3, <2>5 DEF FlipExact, Flipped
<1> QED
  BY <1>1, SlotsBegin, SlotsStep, PTL DEF Spec

-----------------------------------------------------------------------------
\* Slot 0 is filled from the right entry: the first that lists the processor,
\* else the last for any processor, else none, whatever is in the database.
THEOREM KnownGood == Spec => []KnownGoodFound
<1>1. SlotInv => KnownGoodFound
  BY DEF SlotInv, SearchInv
<1> QED
  BY <1>1, SlotsBegin, SlotsStep, PTL DEF Spec

-----------------------------------------------------------------------------
(***************************************************************************)
(* A core and its job.  The predicates below are about one core: p are its *)
(* registers, k is its context, j its job and r the last exception.        *)
(***************************************************************************)
Registers == [rip : Nat, stack : Seq(Nat), rax : {"address", "dead", "ticks", "other"},
              r9 : {"address", "dead", "ticks", "other"}]
Report == [occured : BOOLEAN, number : Nat, rip : Nat]
Contexts == [func : {"none", "apply", "test", "execute"}, restore : BOOLEAN,
             ucode : Slots, code : CodeSlots,
             ret_gpf_value : {"zero", "address", "dead"}, fault_info : Report]
Use == [ucode : {NULL} \cup SUBSET Bits, code : {NULL} \cup Images]
Jobs == [state : {"none", "queued", "running", "done", "aborted"}, asked : Use, used : Use]
Exceptions == [vector : Int, rip : Nat, depth : Nat]

CoreTypes ==
  /\ cpu \in [Cores -> Registers] /\ loaded \in [Cores -> {NULL} \cup Accepted]
  /\ context \in [Cores -> Contexts] /\ job \in [Cores -> Jobs]
  /\ raised \in [Cores -> Exceptions]

Taken(j) == j.used.ucode \in Accepted
TestRight(k, j) ==
  k.func = "test" => /\ (j.used.code # NULL) = Taken(j)
                     /\ (k.ret_gpf_value = "dead") = ~Taken(j)

\* What the job has used where it is in its stub, and what rax says of it.
JobStack == <<Saved, Caller>>
InStub(p, k, j) ==
  /\ p.rip \in {ApplyUpdate, Applied, CallCode, RestoreUpdate, Restored, StubReturn}
  /\ p.stack = JobStack
  /\ p.rip \in {ApplyUpdate, Applied} => k.func \in {"apply", "test"} /\ j.used.code = NULL
  /\ p.rip = ApplyUpdate => j.used = Unused
  /\ p.rip = Applied => p.rax = IF Taken(j) THEN "address" ELSE "dead"
  /\ p.rip = CallCode =>
       /\ k.func \in {"test", "execute"} /\ j.used.code = NULL
       /\ k.func = "test" => Taken(j) /\ k.ret_gpf_value = "address"
  /\ p.rip \in {RestoreUpdate, Restored, StubReturn} => TestRight(k, j)

\* The stacks on which an instruction at f may fault.
StacksAt(f) ==
  IF f = Code THEN {<<back>> \o JobStack : back \in {RestoreUpdate, StubReturn}}
  ELSE {JobStack}

\* An exception the job has raised.
FromJob(k, j, r) ==
  \/ r.rip = ApplyUpdate /\ r.vector = 13
       /\ k.func \in {"apply", "test"} /\ j.used.code = NULL /\ ~Taken(j)
  \/ r.rip = RestoreUpdate /\ r.vector = 13 /\ TestRight(k, j)
  \/ r.rip = Code /\ r.vector \in Nat /\ TestRight(k, j)

\* The vector delivered, and the words pushed with it.
Delivered(v) == IF WithinLimit(v) THEN v ELSE 13
On(word, s) == <<word>> \o s
OnFrame(rip, depth, s) ==
  On(rip, On(CODE_SEGMENT, On(RFLAGS, On(depth, On(StackSegment, s)))))
WithError(h, s) == IF PushesErrorCode(h) THEN On(ErrorCode, s) ELSE s

\* Where the frame of handler h leads in the end.
Leads(h, f) == IF h = 13 THEN f + 2 ELSE Recovery
\* What handlers 8 and 9 leave in the place of the error code.
Patched(n) == IF n = 8 THEN DummyLoop ELSE Recovery

\* From the delivery of the exception to the iretq that leaves the handlers;
\* s is the stack at the instruction that faulted.
\* A double fault (8) goes through handlers 8 and 9, whose iretq faults, and
\* each time through handler 13 to the handler behind.
Handling(p, i, r, s) ==
  LET first == Delivered(r.vector)
      last == IF first = 8 THEN 10 ELSE first
      frame == OnFrame(r.rip, r.depth, s)
  IN /\ Len(s) = r.depth
     /\ \/ p.rip = Entry(first) /\ p.stack = WithError(first, frame)
        \/ /\ p.rip = IretAt(last)
           /\ p.stack = OnFrame(Leads(last, r.rip), r.depth, s)
           /\ i = [occured |-> TRUE, number |-> fault_number(last), rip |-> r.rip]
           /\ p.rax = IF last = 13 THEN "dead" ELSE "other"
        \/ /\ first = 8
           /\ \E n \in {8, 9} :
                LET rest == On(Patched(n), frame) IN
                \/ p.rip = IretAt(n) /\ p.stack = rest
                \/ /\ p.rip = Entry(13)
                   /\ p.stack = On(ErrorCode, OnFrame(IretAt(n), r.depth + 6, rest))
                \/ /\ p.rip = IretAt(13)
                   /\ p.stack = OnFrame(Entry(n + 1), r.depth + 6, rest)
                \/ p.rip = Entry(n + 1) /\ p.stack = rest

InFault(p, k, j, r) ==
  /\ FromJob(k, j, r)
  /\ \E s \in StacksAt(r.rip) : Handling(p, k.fault_info, r, s)

Runs(c, p, k, j, r) ==
  \/ InStub(p, k, j)
  \/ p.rip \in {Code, Code + 2} /\ p.stack \in StacksAt(Code) /\ TestRight(k, j)
  \/ c = 0 /\ p.rip = DummyLoop
  \/ c # 0 /\ p.rip = Recovery
  \/ c # 0 /\ InFault(p, k, j, r)

CoreFine(c, p, k, j, r) ==
  /\ j.state # "running" => p.rip = MainLoop /\ p.stack = <<>>
  /\ j.state = "queued" => j.used = Unused /\ k.func \in {"apply", "test", "execute"}
  /\ j.state = "done" => TestRight(k, j)
  /\ j.state = "running" => Runs(c, p, k, j, r)

CoresFine == \A c \in Cores : CoreFine(c, cpu[c], context[c], job[c], raised[c])

\* Machine code that was there when a job was queued stays there.
CodeThere ==
  \A c \in Cores : context[c].func \in {"test", "execute"} =>
                     machine_codes[context[c].code].machine_code # NULL

\* A job uses what it was asked to use.
Uses(p, j) ==
  /\ j.used.code \in {NULL, j.asked.code}
  /\ j.state = "queued" \/ p.rip = ApplyUpdate \/ j.used.ucode = j.asked.ucode

\* While core 0 waits nobody writes the slots, and what was asked for is there.
UseInv ==
  boot = "wait" =>
    LET c == req.core k == context[c] IN
    /\ job[c].state # "none" /\ k.func # "none"
    /\ job[c].asked
         = [ucode |-> IF k.func = "execute" THEN NULL ELSE ucodes[k.ucode].ucode,
            code |-> IF k.func = "apply" THEN NULL ELSE machine_codes[k.code].machine_code]
    /\ Uses(cpu[c], job[c])

CoreInv == CoreTypes /\ CoresFine /\ CodeThere /\ UseInv

-----------------------------------------------------------------------------
(* Stacks. *)

\* One word more on a stack.
LEMMA OnIs ==
  ASSUME NEW x \in Nat, NEW t \in Seq(Nat), NEW n \in Nat, n = Len(t), NEW s, s = On(x, t)
  PROVE  /\ s \in Seq(Nat) /\ Len(s) = n + 1 /\ s[1] = x
         /\ \A i \in 1 .. n : s[i + 1] = t[i]
<1>1. PICK p : p = <<x>>
  OBVIOUS
<1>2. p \in Seq(Nat) /\ Len(p) = 1 /\ p[1] = x
  BY <1>1
<1>3. s = p \o t
  BY <1>1 DEF On
<1>4. /\ s \in Seq(Nat) /\ Len(s) = 1 + n
      /\ \A i \in 1 .. 1 + n : s[i] = IF i <= 1 THEN p[i] ELSE t[i - 1]
  <2>1. /\ p \o t \in Seq(Nat) /\ Len(p \o t) = Len(p) + Len(t)
        /\ \A i \in 1 .. Len(p) + Len(t) :
             (p \o t)[i] = IF i <= Len(p) THEN p[i] ELSE t[i - Len(p)]
    BY <1>2, ConcatProperties, Zenon
  <2> QED
    BY <1>2, <1>3, <2>1
<1>5. s[1] = x
  BY <1>2, <1>4
<1>6. ASSUME NEW i \in 1 .. n
      PROVE  s[i + 1] = t[i]
  <2>1. PICK j \in 2 .. 1 + n : j = i + 1 /\ j - 1 = i
    OBVIOUS
  <2>2. s[j] = t[j - 1]
    BY <1>4, <2>1
  <2> QED
    BY <2>1, <2>2
<1> QED
  BY <1>4, <1>5, <1>6

LEMMA OnType ==
  ASSUME NEW x \in Nat, NEW t \in Seq(Nat)
  PROVE  On(x, t) \in Seq(Nat)
<1>1. Len(t) \in Nat
  OBVIOUS
<1> QED
  BY <1>1, OnIs

\* The stack below its first word.
LEMMA BehindIs ==
  ASSUME NEW x \in Nat, NEW t \in Seq(Nat)
  PROVE  Behind(On(x, t), 1) = t
<1>1. PICK n \in Nat : n = Len(t)
  OBVIOUS
<1>2. PICK s \in Seq(Nat) : s = On(x, t)
  BY OnType
<1>3. Len(s) = n + 1 /\ \A i \in 1 .. n : s[i + 1] = t[i]
  BY <1>1, <1>2, OnIs, SMTT(60)
<1>4. PICK b : b = SubSeq(s, 2, n + 1)
  OBVIOUS
<1>5. Behind(s, 1) = b
  BY <1>3, <1>4 DEF Behind
<1>6. b \in Seq(Nat) /\ Len(b) = n /\ \A i \in 1 .. n : b[i] = s[i + 1]
  BY <1>3, <1>4
<1>7. b = t
  BY <1>1, <1>3, <1>6, SeqEqual
<1> QED
  BY <1>2, <1>5, <1>7

\* The stack below its first two words.
LEMMA BehindTwo ==
  ASSUME NEW x \in Nat, NEW y \in Nat, NEW t \in Seq(Nat)
  PROVE  Behind(On(x, On(y, t)), 2) = t
<1>1. PICK n \in Nat : n = Len(t)
  OBVIOUS
<1>2. PICK u \in Seq(Nat) : u = On(y, t)
  BY OnType
<1>3. Len(u) = n + 1 /\ \A i \in 1 .. n : u[i + 1] = t[i]
  BY <1>1, <1>2, OnIs, SMTT(30)
<1>4. PICK s \in Seq(Nat) : s = On(x, u)
  BY OnType
<1>5. Len(s) = n + 2 /\ \A i \in 1 .. n + 1 : s[i + 1] = u[i]
  BY <1>3, <1>4, OnIs
<1>6. PICK b : b = SubSeq(s, 3, n + 2)
  OBVIOUS
<1>7. Behind(s, 2) = b
  BY <1>5, <1>6 DEF Behind
<1>8. b \in Seq(Nat) /\ Len(b) = n /\ \A i \in 1 .. n : b[i] = s[i + 2]
  <2>1. PICK m \in Nat : m = n + 2
    BY <1>1
  <2>2. \A i \in 3 .. m : s[i] \in Nat
    BY <1>4, <1>5, <2>1
  <2>3. b \in Seq(Nat) /\ Len(b) = m - 3 + 1 /\ \A i \in 1 .. m - 3 + 1 : b[i] = s[3 + i - 1]
    BY <1>1, <1>4, <1>5, <1>6, <2>1, <2>2, SMTT(30)
  <2> QED
    BY <1>1, <2>1, <2>3
<1>9. ASSUME NEW i \in 1 .. n
      PROVE  b[i] = t[i]
  <2>1. PICK j \in 1 .. n + 1 : j = i + 1 /\ j + 1 = i + 2
    OBVIOUS
  <2>2. s[j + 1] = u[j] /\ u[i + 1] = t[i] /\ b[i] = s[i + 2]
    BY <1>3, <1>5, <1>8, <2>1
  <2> QED
    BY <2>1, <2>2
<1>10. b = t
  BY <1>1, <1>8, <1>9, SeqEqual
<1> QED
  BY <1>2, <1>4, <1>7, <1>10

\* iretq takes the stack back to what was below the frame.
LEMMA TopOn ==
  ASSUME NEW x \in Nat, NEW t \in Seq(Nat), NEW n \in Nat, n = Len(t), NEW d \in 0 .. n
  PROVE  Top(On(x, t), d) = Top(t, d)
<1>1. PICK s : s = On(x, t)
  OBVIOUS
<1>2. s \in Seq(Nat) /\ Len(s) = n + 1 /\ \A i \in 1 .. n : s[i + 1] = t[i]
  BY <1>1, OnIs, SMTT(60)
<1>3. PICK l \in 1 .. n + 1 : l = n - d + 1
  <2>1. n - d + 1 \in 1 .. n + 1
    OBVIOUS
  <2> QED
    BY <2>1
<1>12. PICK m \in 2 .. n + 2 : m = l + 1
  OBVIOUS
<1>4. Top(s, d) = SubSeq(s, m, n + 1)
  <2>1. Len(s) - d + 1 = m
    BY <1>2, <1>3, <1>12
  <2> QED
    BY <1>2, <2>1 DEF Top
<1>5. Top(t, d) = SubSeq(t, l, n)
  BY <1>3 DEF Top
<1>6. PICK a : a = SubSeq(s, m, n + 1)
  OBVIOUS
<1>7. PICK b : b = SubSeq(t, l, n)
  OBVIOUS
<1>8. a \in Seq(Nat) /\ Len(a) = d /\ \A i \in 1 .. d : a[i] = s[m + i - 1]
  <2>1. n + 1 - m + 1 = d
    BY <1>3, <1>12
  <2>2. a \in Seq(Nat) /\ Len(a) = n + 1 - m + 1 /\ \A i \in 1 .. n + 1 - m + 1 : a[i] = s[m + i - 1]
    BY <1>2, <1>3, <1>6, <1>12
  <2> QED
    BY <2>1, <2>2
<1>9. b \in Seq(Nat) /\ Len(b) = d /\ \A i \in 1 .. d : b[i] = t[l + i - 1]
  <2>1. n - l + 1 = d
    BY <1>3
  <2>2. b \in Seq(Nat) /\ Len(b) = n - l + 1 /\ \A i \in 1 .. n - l + 1 : b[i] = t[l + i - 1]
    BY <1>7, SMTT(60)
  <2> QED
    BY <2>1, <2>2
<1>10. ASSUME NEW i \in 1 .. d
       PROVE  a[i] = b[i]
  <2>1. PICK j \in 1 .. n : j = l + i - 1
    <3>1. l + i - 1 \in 1 .. n
      BY <1>3
    <3> QED
      BY <3>1
  <2>3. j + 1 = m + i - 1
    BY <1>12, <2>1
  <2>2. a[i] = s[j + 1] /\ b[i] = t[j] /\ s[j + 1] = t[j]
    BY <1>2, <1>8, <1>9, <2>1, <2>3
  <2> QED
    BY <2>2
<1>11. a = b
  BY <1>8, <1>9, <1>10, SeqEqual
<1> QED
  BY <1>1, <1>4, <1>5, <1>6, <1>7, <1>11

LEMMA TopAll ==
  ASSUME NEW t \in Seq(Nat)
  PROVE  Top(t, Len(t)) = t
<1>1. PICK n \in Nat : n = Len(t)
  OBVIOUS
<1>2. PICK b : b = SubSeq(t, 1, n)
  OBVIOUS
<1>3. Top(t, n) = b
  <2>1. n - n + 1 = 1
    OBVIOUS
  <2> QED
    BY <1>1, <1>2, <2>1 DEF Top
<1>4. b \in Seq(Nat) /\ Len(b) = n /\ \A i \in 1 .. n : b[i] = t[i]
  BY <1>1, <1>2
<1>5. b = t
  BY <1>1, <1>4, SeqEqual
<1> QED
  BY <1>1, <1>3, <1>5

\* What iretq and the handlers find in a frame.
LEMMA FrameIs ==
  ASSUME NEW x \in Nat, NEW d \in Nat, NEW t \in Seq(Nat)
  PROVE  /\ OnFrame(x, d, t) \in Seq(Nat) /\ Len(OnFrame(x, d, t)) = Len(t) + 5
         /\ OnFrame(x, d, t)[1] = x /\ OnFrame(x, d, t)[2] = CODE_SEGMENT
         /\ OnFrame(x, d, t)[4] = d
         /\ d = Len(t) => Top(OnFrame(x, d, t), d) = t
<1>1. CODE_SEGMENT \in Nat /\ RFLAGS \in Nat /\ StackSegment \in Nat
  BY DEF CODE_SEGMENT, RFLAGS, StackSegment
<1>2. PICK n \in Nat : n = Len(t)
  OBVIOUS
<1>3. PICK a \in Seq(Nat) : a = On(StackSegment, t)
  BY <1>1, OnType
<1>4. Len(a) = n + 1
  BY <1>1, <1>2, <1>3, OnIs
<1>5. PICK b \in Seq(Nat) : b = On(d, a)
  BY OnType
<1>6. Len(b) = n + 2 /\ b[1] = d
  BY <1>4, <1>5, OnIs
<1>7. PICK c \in Seq(Nat) : c = On(RFLAGS, b)
  BY <1>1, OnType
<1>8. Len(c) = n + 3 /\ c[2] = d
  <2>3. PICK m \in Nat : m = Len(b)
    BY <1>6
  <2>4. m = n + 2
    BY <2>3, <1>6
  <2>1. Len(c) = m + 1 /\ \A i \in 1 .. m : c[i + 1] = b[i]
    BY <1>1, <1>5, <1>7, <2>3, OnIs, SMTT(30)
  <2>2. c[1 + 1] = b[1]
    BY <2>1, <2>4
  <2> QED
    BY <1>6, <2>1, <2>2, <2>3, <2>4
<1>9. PICK e \in Seq(Nat) : e = On(CODE_SEGMENT, c)
  BY <1>1, OnType
<1>10. Len(e) = n + 4 /\ e[1] = CODE_SEGMENT /\ e[3] = d
  <2>3. PICK m \in Nat : m = Len(c)
    BY <1>8
  <2>4. m = n + 3
    BY <2>3, <1>8
  <2>1. Len(e) = m + 1 /\ e[1] = CODE_SEGMENT /\ \A i \in 1 .. m : e[i + 1] = c[i]
    BY <1>1, <1>7, <1>9, <2>3, OnIs, SMTT(60)
  <2>2. e[2 + 1] = c[2]
    BY <2>1, <2>4
  <2> QED
    BY <1>8, <2>1, <2>2, <2>3, <2>4
<1>11. PICK f \in Seq(Nat) : f = On(x, e)
  BY OnType
<1>12. Len(f) = n + 5 /\ f[1] = x /\ f[2] = CODE_SEGMENT /\ f[4] = d
  <2>3. PICK m \in Nat : m = Len(e)
    BY <1>10
  <2>4. m = n + 4
    BY <2>3, <1>10
  <2>1. Len(f) = m + 1 /\ f[1] = x /\ \A i \in 1 .. m : f[i + 1] = e[i]
    BY <1>9, <1>11, <2>3, OnIs, SMTT(30)
  <2>2. f[1 + 1] = e[1] /\ f[3 + 1] = e[3]
    BY <2>1, <2>4
  <2> QED
    BY <1>10, <2>1, <2>2, <2>3, <2>4
<1>13. ASSUME d = n
       PROVE  Top(f, d) = t
  <2>1. Top(f, d) = Top(e, d)
    BY <1>10, <1>11, <1>13, TopOn
  <2>2. Top(e, d) = Top(c, d)
    BY <1>1, <1>8, <1>9, <1>13, TopOn
  <2>3. Top(c, d) = Top(b, d)
    BY <1>1, <1>6, <1>7, <1>13, TopOn
  <2>4. Top(b, d) = Top(a, d)
    BY <1>4, <1>5, <1>13, TopOn
  <2>5. Top(a, d) = Top(t, d)
    BY <1>1, <1>2, <1>3, <1>13, TopOn
  <2>6. Top(t, d) = t
    BY <1>2, <1>13, TopAll
  <2> QED
    BY <2>1, <2>2, <2>3, <2>4, <2>5, <2>6
<1>14. OnFrame(x, d, t) = f
  BY <1>3, <1>5, <1>7, <1>9, <1>11 DEF OnFrame
<1> QED
  BY <1>2, <1>12, <1>13, <1>14

\* The address in a frame, and the error code above it, can be replaced.
LEMMA FrameBehind ==
  ASSUME NEW x \in Nat, NEW d \in Nat, NEW t \in Seq(Nat), NEW w \in Nat
  PROVE  LET f == OnFrame(x, d, t) IN
         /\ Behind(f, 1) \in Seq(Nat) /\ Behind(On(w, f), 2) = Behind(f, 1)
         /\ On(w, f)[2] = x
         /\ \A y \in Nat : On(y, Behind(f, 1)) = OnFrame(y, d, t)
<1> DEFINE e == On(CODE_SEGMENT, On(RFLAGS, On(d, On(StackSegment, t))))
<1>1. e \in Seq(Nat)
  BY OnType DEF CODE_SEGMENT, RFLAGS, StackSegment
<1>2. \A y \in Nat : OnFrame(y, d, t) = On(y, e)
  BY DEF OnFrame
<1> HIDE DEF e
<1>3. PICK n \in Nat : n = Len(e)
  BY <1>1
<1>7. PICK f : f = On(x, e)
  OBVIOUS
<1>6. f \in Seq(Nat) /\ Len(f) = n + 1 /\ f[1] = x
  BY <1>1, <1>3, <1>7, OnIs
<1>4. Behind(On(x, e), 1) = e /\ Behind(On(w, On(x, e)), 2) = e
  BY <1>1, BehindIs, BehindTwo
<1>5. On(w, On(x, e))[2] = x
  <2>1. PICK g : g = On(w, f)
    OBVIOUS
  <2>2. \A i \in 1 .. n + 1 : g[i + 1] = f[i]
    BY <1>6, <2>1, OnIs
  <2>3. g[1 + 1] = f[1]
    BY <2>2
  <2> QED
    BY <1>6, <1>7, <2>1, <2>3
<1> QED
  BY <1>1, <1>2, <1>4, <1>5

\* The processor pushes the frame as one block.
LEMMA FrameOn ==
  ASSUME NEW x \in Nat, NEW d \in Nat, NEW t \in Seq(Nat)
  PROVE  <<x, CODE_SEGMENT, RFLAGS, d, StackSegment>> \o t = OnFrame(x, d, t)
<1>1. PICK w \in Nat, y \in Nat, z \in Nat : w = CODE_SEGMENT /\ y = RFLAGS /\ z = StackSegment
  BY DEF CODE_SEGMENT, RFLAGS, StackSegment
<1>2. PICK n \in Nat : n = Len(t)
  OBVIOUS
<1>3. PICK p : p = <<x, w, y, d, z>>
  OBVIOUS
<1>4. /\ p \in Seq(Nat) /\ Len(p) = 5
      /\ p[1] = x /\ p[2] = w /\ p[3] = y /\ p[4] = d /\ p[5] = z
  BY <1>1, <1>3
<1>5. PICK g : g = p \o t
  OBVIOUS
<1>6. g \in Seq(Nat) /\ Len(g) = 5 + n
      /\ \A i \in 1 .. 5 + n : g[i] = IF i <= 5 THEN p[i] ELSE t[i - 5]
  <2>1. /\ p \o t \in Seq(Nat) /\ Len(p \o t) = Len(p) + Len(t)
        /\ \A i \in 1 .. Len(p) + Len(t) :
             (p \o t)[i] = IF i <= Len(p) THEN p[i] ELSE t[i - Len(p)]
    BY <1>4, ConcatProperties, Zenon
  <2> QED
    BY <1>2, <1>4, <1>5, <2>1
<1>7. PICK a \in Seq(Nat) : a = On(z, t)
  BY <1>1, OnType
<1>8. Len(a) = n + 1 /\ a[1] = z /\ \A i \in 1 .. n : a[i + 1] = t[i]
  BY <1>1, <1>2, <1>7, OnIs
<1>9. PICK b \in Seq(Nat) : b = On(d, a)
  BY <1>7, OnType
<1>10. PICK n1 \in Nat : n1 = Len(a)
  BY <1>7
<1>11. Len(b) = n1 + 1 /\ b[1] = d /\ \A i \in 1 .. n1 : b[i + 1] = a[i]
  BY <1>7, <1>9, <1>10, OnIs, SMTT(30)
<1>12. PICK c \in Seq(Nat) : c = On(y, b)
  BY <1>1, <1>9, OnType
<1>13. PICK n2 \in Nat : n2 = Len(b)
  BY <1>9
<1>14. Len(c) = n2 + 1 /\ c[1] = y /\ \A i \in 1 .. n2 : c[i + 1] = b[i]
  BY <1>1, <1>9, <1>12, <1>13, OnIs, SMTT(30)
<1>15. PICK e \in Seq(Nat) : e = On(w, c)
  BY <1>1, <1>12, OnType
<1>16. PICK n3 \in Nat : n3 = Len(c)
  BY <1>12
<1>17. Len(e) = n3 + 1 /\ e[1] = w /\ \A i \in 1 .. n3 : e[i + 1] = c[i]
  BY <1>1, <1>12, <1>15, <1>16, OnIs, SMTT(60)
<1>18. PICK f \in Seq(Nat) : f = On(x, e)
  BY <1>15, OnType
<1>19. PICK n4 \in Nat : n4 = Len(e)
  BY <1>15
<1>20. Len(f) = n4 + 1 /\ f[1] = x /\ \A i \in 1 .. n4 : f[i + 1] = e[i]
  BY <1>15, <1>18, <1>19, OnIs, SMTT(60)
<1>21. n1 = n + 1 /\ n2 = n + 2 /\ n3 = n + 3 /\ n4 = n + 4 /\ Len(f) = n + 5
  BY <1>8, <1>10, <1>11, <1>13, <1>14, <1>16, <1>17, <1>19, <1>20
<1>22. f[1] = x /\ f[1 + 1] = w /\ f[2 + 1] = y /\ f[3 + 1] = d /\ f[4 + 1] = z
  <2>1. /\ 1 \in 1 .. n4 /\ 2 \in 1 .. n4 /\ 3 \in 1 .. n4 /\ 4 \in 1 .. n4
        /\ 1 \in 1 .. n3 /\ 2 \in 1 .. n3 /\ 3 \in 1 .. n3
        /\ 1 \in 1 .. n2 /\ 2 \in 1 .. n2 /\ 1 \in 1 .. n1
    BY <1>21
  <2>2. b[1 + 1] = a[1] /\ c[1 + 1] = b[1] /\ c[2 + 1] = b[2]
    BY <1>11, <1>14, <2>1
  <2>3. e[1 + 1] = c[1] /\ e[2 + 1] = c[2] /\ e[3 + 1] = c[3]
    BY <1>17, <2>1
  <2>4. f[1 + 1] = e[1] /\ f[2 + 1] = e[2] /\ f[3 + 1] = e[3] /\ f[4 + 1] = e[4]
    BY <1>20, <2>1
  <2>5. b[2] = z /\ c[2] = d /\ c[3] = z
    BY <1>8, <1>11, <2>2
  <2>6. e[2] = y /\ e[3] = d /\ e[4] = z
    BY <1>14, <2>3, <2>5
  <2>7. f[1 + 1] = w /\ f[2 + 1] = y /\ f[3 + 1] = d /\ f[4 + 1] = z
    BY <1>17, <2>4, <2>6
  <2> QED
    BY <1>20, <2>7
<1>23. ASSUME NEW i \in 1 .. n
       PROVE  f[i + 5] = t[i]
  <2>1. i + 1 \in 1 .. n1 /\ i + 2 \in 1 .. n2 /\ i + 3 \in 1 .. n3 /\ i + 4 \in 1 .. n4
    BY <1>21
  <2>2. b[(i + 1) + 1] = a[i + 1] /\ c[(i + 2) + 1] = b[i + 2]
    BY <1>11, <1>14, <2>1
  <2>3. e[(i + 3) + 1] = c[i + 3] /\ f[(i + 4) + 1] = e[i + 4]
    BY <1>17, <1>20, <2>1
  <2>4. a[i + 1] = t[i]
    BY <1>8
  <2>5. (i + 1) + 1 = i + 2 /\ (i + 2) + 1 = i + 3 /\ (i + 3) + 1 = i + 4 /\ (i + 4) + 1 = i + 5
    OBVIOUS
  <2> QED
    BY <2>2, <2>3, <2>4, <2>5, Zenon
<1>24. ASSUME NEW i \in 1 .. n + 5
       PROVE  g[i] = f[i]
  <2>1. CASE i <= 5
    <3>1. g[i] = p[i]
      <4>1. i \in 1 .. 5 + n
        OBVIOUS
      <4> QED
        BY <1>6, <2>1, <4>1
    <3>2. i = 1 \/ i = 2 \/ i = 3 \/ i = 4 \/ i = 5
      BY <2>1
    <3>3. f[1] = x /\ f[2] = w /\ f[3] = y /\ f[4] = d /\ f[5] = z
      BY <1>22
    <3> QED
      BY <1>4, <3>1, <3>2, <3>3, Zenon
  <2>2. CASE ~(i <= 5)
    <3>1. PICK j \in 1 .. n : j = i - 5 /\ j + 5 = i
      <4>1. i - 5 \in 1 .. n
        BY <2>2
      <4> QED
        BY <4>1
    <3>2. g[i] = t[j] /\ f[j + 5] = t[j]
      BY <1>6, <1>23, <2>2, <3>1
    <3> QED
      BY <3>1, <3>2
  <2> QED
    BY <2>1, <2>2
<1>25. g = f
  <2>1. Len(g) = n + 5
    BY <1>6
  <2> QED
    BY <1>6, <1>18, <1>21, <1>24, <2>1, SeqEqual
<1>26. OnFrame(x, d, t) = f
  BY <1>1, <1>7, <1>9, <1>12, <1>15, <1>18, Zenon DEF OnFrame
<1> QED
  BY <1>1, <1>3, <1>5, <1>25, <1>26, Zenon

-----------------------------------------------------------------------------
(* The handlers. *)

\* Handler h is found at its address; nothing else is.
LEMMA HandlerPlaces ==
  ASSUME NEW h \in 0 .. Fallback
  PROVE  /\ HandlerOf(Entry(h)) = h /\ Entry(h) \in Nat /\ IretAt(h) \in Nat
         /\ InHandlers(Entry(h)) /\ InHandlers(IretAt(h))
         /\ \A g \in 0 .. Fallback : /\ Entry(g) # IretAt(h) /\ IretAt(g) # Entry(h)
                                     /\ g # h => Entry(g) # Entry(h) /\ IretAt(g) # IretAt(h)
  BY DEF HandlerOf, Entry, IretAt, Fallback, InHandlers

\* Only vectors within the limit are delivered.
LEMMA DeliveredIs == \A v \in Nat : Delivered(v) \in 0 .. 15
  BY DEF Delivered, WithinLimit, idt_limit

LEMMA NumberNoted == \A h \in 0 .. Fallback : fault_number(h) \in Nat
  BY DEF fault_number, Fallback

\* What the processor leaves on the stack.
LEMMA FaultDelivered ==
  ASSUME NEW p \in Registers, NEW v \in Nat
  PROVE  /\ Delivered(v) \in 0 .. 15
         /\ Fault(p, v) \in Registers
         /\ Fault(p, v).rip = Entry(Delivered(v))
         /\ Fault(p, v).stack
              = WithError(Delivered(v), OnFrame(p.rip, Len(p.stack), p.stack))
<1>1. Delivered(v) \in 0 .. 15
  BY DEF Delivered, WithinLimit, idt_limit
<1>2. PICK w \in 0 .. 15 : w = Delivered(v)
  BY <1>1
<1>3. PICK z \in Seq(Nat) : z = p.stack
  BY DEF Registers
<1>4. p.rip \in Nat /\ Len(z) \in Nat
  BY <1>3 DEF Registers
<1>5. PICK f : f = <<p.rip, CODE_SEGMENT, RFLAGS, Len(z), StackSegment>>
  OBVIOUS
<1>6. f \in Seq(Nat)
  BY <1>4, <1>5 DEF CODE_SEGMENT, RFLAGS, StackSegment
<1>7. f \o z = OnFrame(p.rip, Len(z), z)
  BY <1>3, <1>4, <1>5, FrameOn
<1>8. PICK k \in Seq(Nat) : k = OnFrame(p.rip, Len(z), z)
  BY <1>3, <1>4, FrameIs
<1>9. PICK e : e = IF PushesErrorCode(w) THEN <<ErrorCode>> ELSE <<>>
  OBVIOUS
<1>10. (e \o f) \o z = WithError(w, k)
  <2>1. CASE PushesErrorCode(w)
    <3>1. e = <<0>>
      BY <1>9, <2>1 DEF ErrorCode
    <3>2. PICK a \in Seq(Nat) : a = e
      BY <3>1
    <3>3. PICK g \in Seq(Nat) : g = f
      BY <1>6
    <3>4. PICK t : t = a \o (g \o z)
      OBVIOUS
    <3>5. t = (a \o g) \o z
      BY <3>4, ConcatAssociative, SMTT(60)
    <3> QED
      BY <1>7, <1>8, <2>1, <3>1, <3>2, <3>3, <3>4, <3>5, Zenon DEF WithError, On, ErrorCode
  <2>2. CASE ~PushesErrorCode(w)
    <3>1. e = <<>>
      BY <1>9, <2>2
    <3>2. e \o f = f
      BY <1>6, <3>1
    <3> QED
      BY <1>7, <1>8, <2>2, <3>2, Zenon DEF WithError
  <2> QED
    BY <2>1, <2>2
<1>11. PICK t \in Seq(Nat) : t = WithError(w, k)
  BY <1>8, OnType DEF WithError, ErrorCode
<1>12. idt(w) = w /\ Entry(w) \in Nat
  BY DEF idt, proto_fault_handlers_count, Entry
<1>13. Fault(p, v) = [p EXCEPT !.stack = t, !.rip = Entry(w)]
  <2>1. Fault(p, v) = Interrupt(p, w)
    BY <1>2, Zenon DEF Fault, Delivered
  <2>2. Interrupt(p, w) = [p EXCEPT !.stack = (e \o f) \o @, !.rip = Entry(idt(w))]
    BY <1>3, <1>5, <1>9, Zenon DEF Interrupt
  <2>3. [p EXCEPT !.stack = (e \o f) \o @, !.rip = Entry(idt(w))]
          = [p EXCEPT !.stack = (e \o f) \o z, !.rip = Entry(w)]
    BY <1>3, <1>12
  <2> QED
    BY <1>10, <1>11, <2>1, <2>2, <2>3, Zenon
<1>14. [p EXCEPT !.stack = t, !.rip = Entry(w)] \in Registers
  BY <1>11, <1>12 DEF Registers
<1>15. /\ [p EXCEPT !.stack = t, !.rip = Entry(w)].rip = Entry(w)
       /\ [p EXCEPT !.stack = t, !.rip = Entry(w)].stack = t
  BY DEF Registers
<1> QED
  BY <1>1, <1>2, <1>3, <1>8, <1>11, <1>13, <1>14, <1>15, Zenon

\* iretq from a frame as the processor left it.
LEMMA IretReturns ==
  ASSUME NEW p \in Registers, NEW x \in Nat, NEW s \in Seq(Nat), NEW d \in Nat, d = Len(s),
         p.stack = OnFrame(x, d, s)
  PROVE  /\ Iretq(p) \in Registers
         /\ Iretq(p).rip = x /\ Iretq(p).stack = s /\ Iretq(p).rax = p.rax
<1>1. /\ p.stack[1] = x /\ p.stack[2] = CODE_SEGMENT /\ p.stack[4] = d
      /\ Top(p.stack, d) = s
  <2>1. PICK t : t = OnFrame(x, d, s)
    OBVIOUS
  <2>2. t[1] = x /\ t[2] = CODE_SEGMENT /\ t[4] = d /\ Top(t, d) = s
    BY <2>1, FrameIs, ZenonT(30)
  <2> QED
    BY <2>1, <2>2, Zenon
<1>2. Iretq(p) = [p EXCEPT !.rip = x, !.stack = s]
  BY <1>1, Zenon DEF Iretq
<1> QED
  BY <1>2 DEF Registers

LEMMA IretFaults ==
  ASSUME NEW p \in Registers, p.stack[2] # CODE_SEGMENT
  PROVE  Iretq(p) = Fault(p, 13)
  BY DEF Iretq

LEMMA PatchIs ==
  ASSUME NEW p \in Registers, NEW h \in 0 .. Fallback, p.rip = Entry(h),
         NEW n \in Nat, NEW t \in Seq(Nat), Behind(p.stack, n) = t,
         NEW x \in Nat, NEW a \in {"dead", "other"},
         NEW q, q = Patch(p, n, x, a)
  PROVE  q \in Registers /\ q.rip = IretAt(h) /\ q.rax = a /\ q.stack = On(x, t)
<1>1. PICK u \in Seq(Nat) : u = On(x, t)
  BY OnType
<1>2. HandlerOf(p.rip) = h /\ IretAt(h) \in Nat
  BY HandlerPlaces
<1>3. Patch(p, n, x, a) = [p EXCEPT !.rip = IretAt(HandlerOf(@)), !.rax = a,
                                    !.stack = <<x>> \o Behind(@, n)]
  BY DEF Patch
<1>4. [p EXCEPT !.rip = IretAt(HandlerOf(@)), !.rax = a, !.stack = <<x>> \o Behind(@, n)]
        = [p EXCEPT !.rip = IretAt(h), !.rax = a, !.stack = u]
  <2>1. <<x>> \o Behind(p.stack, n) = u
    BY <1>1, Zenon DEF On
  <2> QED
    BY <1>2, <2>1
<1>5. q = [p EXCEPT !.rip = IretAt(h), !.rax = a, !.stack = u]
  BY <1>3, <1>4, Zenon
<1> QED
  BY <1>1, <1>2, <1>5 DEF Registers

\* What a handler finds behind the words it removes.
LEMMA RestIs ==
  ASSUME NEW w, NEW x, NEW d, NEW t, w \in Nat, x \in Nat, d \in Nat, t \in Seq(Nat)
  PROVE  LET rest == On(w, OnFrame(x, d, t)) IN
         /\ rest \in Seq(Nat) /\ Len(rest) = Len(t) + 6 /\ rest[1] = w /\ rest[2] = x
         /\ Behind(rest, 1) = OnFrame(x, d, t)
         /\ Behind(rest, 2) = Behind(OnFrame(x, d, t), 1)
<1>1. PICK f : f = OnFrame(x, d, t)
  OBVIOUS
<1>2. f \in Seq(Nat) /\ Len(f) = Len(t) + 5
  BY <1>1, FrameIs
<1>3. PICK n \in Nat : n = Len(f)
  BY <1>2
<1>7. PICK rest : rest = On(w, f)
  OBVIOUS
<1>4. rest \in Seq(Nat) /\ Len(rest) = n + 1 /\ rest[1] = w
  BY <1>2, <1>3, <1>7, OnIs, SMTT(60)
<1>5. Behind(rest, 1) = f
  BY <1>2, <1>7, BehindIs
<1>6. rest[2] = x /\ Behind(rest, 2) = Behind(f, 1)
  BY <1>1, <1>7, FrameBehind
<1> QED
  BY <1>1, <1>2, <1>3, <1>4, <1>5, <1>6, <1>7

\* The body of the handler an exception leads to first: all but the double
\* fault's leave a frame that iretq takes.
LEMMA FirstBody ==
  ASSUME NEW p \in Registers, NEW w \in 0 .. 15, NEW f \in Nat, NEW d \in Nat, NEW s \in Seq(Nat),
         d = Len(s), p.rip = Entry(w), p.stack = WithError(w, OnFrame(f, d, s)),
         NEW q, q = HandlerBody(p), NEW i, i = HandlerNotes(p)
  PROVE  /\ q \in Registers
         /\ i = [occured |-> TRUE, number |-> fault_number(w), rip |-> f]
         /\ q.rip = IretAt(w)
         /\ w = 8 => q.stack = On(DummyLoop, OnFrame(f, d, s))
         /\ w # 8 => /\ q.stack = OnFrame(Leads(w, f), d, s)
                     /\ q.rax = IF w = 13 THEN "dead" ELSE "other"
<1>2. PICK frame : frame = OnFrame(f, d, s)
  OBVIOUS
<1>3. frame \in Seq(Nat) /\ frame[1] = f
  BY <1>2, FrameIs
<1>4. PICK b \in Seq(Nat) : b = Behind(frame, 1)
  BY <1>2, FrameBehind DEF ErrorCode
<1>5. \A y \in Nat : On(y, b) = OnFrame(y, d, s)
  BY <1>2, <1>4, FrameBehind DEF ErrorCode
<1>6. w \in 0 .. Fallback /\ HandlerOf(p.rip) = w
  <2>1. w \in 0 .. Fallback
    BY DEF Fallback
  <2> QED
    BY <2>1, HandlerPlaces
<1>7. DummyLoop \in Nat /\ Recovery \in Nat /\ ErrorCode \in Nat
  BY DEF DummyLoop, Recovery, ErrorCode
<1>8. i = [occured |-> TRUE, number |-> fault_number(w), rip |-> old_rip(p, w)]
  BY <1>6, Zenon DEF HandlerNotes
<1>9. CASE PushesErrorCode(w)
  <2>1. PICK g : g = On(ErrorCode, frame)
    OBVIOUS
  <2>2. p.stack = g
    BY <1>2, <1>9, <2>1, Zenon DEF WithError
  <2>3. g[2] = f /\ Behind(g, 1) = frame /\ Behind(g, 2) = b
    <3>1. g = On(ErrorCode, OnFrame(f, d, s))
      BY <1>2, <2>1
    <3>2. g[2] = f /\ Behind(g, 1) = OnFrame(f, d, s) /\ Behind(g, 2) = Behind(OnFrame(f, d, s), 1)
      BY <1>7, <3>1, RestIs
    <3> QED
      BY <1>2, <1>4, <3>2
  <2>4. PopsErrorCode(w) \/ w \in {8, 13}
    BY <1>9 DEF PopsErrorCode, PushesErrorCode
  <2>5. old_rip(p, w) = f
    BY <2>2, <2>3, <2>4, Zenon DEF old_rip
  <2>6. CASE w = 8
    <3>1. q = Patch(p, 1, DummyLoop, "other")
      BY <1>6, <2>6 DEF HandlerBody, PopsErrorCode
    <3>2. q \in Registers /\ q.rip = IretAt(w) /\ q.stack = On(DummyLoop, frame)
      <4>1. PICK m \in Nat, x \in Nat, a \in {"dead", "other"}, y \in Seq(Nat) :
              m = 1 /\ x = DummyLoop /\ a = "other" /\ y = frame
        BY <1>3, <1>7
      <4>2. q = Patch(p, m, x, a) /\ Behind(p.stack, m) = y
        BY <2>2, <2>3, <3>1, <4>1
      <4>3. q \in Registers /\ q.rip = IretAt(w) /\ q.stack = On(x, y)
        BY <1>6, <4>2, PatchIs, SMTT(60)
      <4> QED
        BY <4>1, <4>3
    <3> QED
      BY <1>2, <1>8, <2>5, <2>6, <3>2
  <2>7. CASE w # 8
    <3>1. PICK x \in Nat : x = Leads(w, f)
      BY <1>7 DEF Leads
    <3>2. PICK a \in {"dead", "other"} : a = IF w = 13 THEN "dead" ELSE "other"
      OBVIOUS
    <3>3. q = Patch(p, 2, x, a)
      BY <1>6, <2>2, <2>3, <2>4, <2>7, <3>1, <3>2 DEF HandlerBody, Leads, PopsErrorCode
    <3>4. q \in Registers /\ q.rip = IretAt(w) /\ q.rax = a /\ q.stack = On(x, b)
      <4>1. PICK m \in Nat : m = 2
        OBVIOUS
      <4>2. q = Patch(p, m, x, a) /\ Behind(p.stack, m) = b
        BY <2>2, <2>3, <3>3, <4>1
      <4> QED
        BY <1>6, <4>2, PatchIs, SMTT(60)
    <3> QED
      BY <1>5, <1>8, <2>5, <2>7, <3>1, <3>2, <3>4
  <2> QED
    BY <2>6, <2>7
<1>10. CASE ~PushesErrorCode(w)
  <2>1. p.stack = frame
    BY <1>2, <1>10, Zenon DEF WithError
  <2>2. ~(PopsErrorCode(w) \/ w \in {8, 13}) /\ w # 8 /\ w # 13
    BY <1>10 DEF PopsErrorCode, PushesErrorCode
  <2>3. old_rip(p, w) = f
    BY <1>3, <2>1, <2>2, Zenon DEF old_rip
  <2>4. q = Patch(p, 1, Recovery, "other") /\ Leads(w, f) = Recovery
    BY <1>6, <2>2 DEF HandlerBody, Leads
  <2>5. q \in Registers /\ q.rip = IretAt(w) /\ q.rax = "other" /\ q.stack = On(Recovery, b)
    <3>1. Behind(p.stack, 1) = b
      BY <1>4, <2>1
    <3> QED
      BY <1>6, <1>7, <2>4, <3>1, PatchIs, SMTT(60)
  <2> QED
    BY <1>5, <1>7, <1>8, <2>2, <2>3, <2>4, <2>5
<1> QED
  BY <1>9, <1>10

\* The double fault's way through handlers 8 to 10: the body of a handler.
LEMMA DetourBody ==
  ASSUME NEW p \in Registers, NEW f \in Nat, NEW d \in Nat, NEW s \in Seq(Nat), d = Len(s),
         NEW n \in {8, 9}, NEW rest, rest = On(Patched(n), OnFrame(f, d, s))
  PROVE  LET q == HandlerBody(p) IN
         /\ p.rip = Entry(13) /\ p.stack = On(ErrorCode, OnFrame(IretAt(n), d + 6, rest)) =>
              /\ q \in Registers /\ HandlerNotes(p) \in Report
              /\ q.rip = IretAt(13) /\ q.stack = OnFrame(Entry(n + 1), d + 6, rest)
         /\ p.rip = Entry(n + 1) /\ p.stack = rest /\ n = 8 =>
              /\ q \in Registers /\ HandlerNotes(p) \in Report
              /\ q.rip = IretAt(9) /\ q.stack = On(Patched(9), OnFrame(f, d, s))
         /\ p.rip = Entry(n + 1) /\ p.stack = rest /\ n = 9 =>
              /\ q \in Registers /\ q.rip = IretAt(10) /\ q.rax = "other"
              /\ q.stack = OnFrame(Recovery, d, s)
              /\ HandlerNotes(p) = [occured |-> TRUE, number |-> fault_number(10), rip |-> f]
<1>1. PICK q : q = HandlerBody(p)
  OBVIOUS
<1>2. DummyLoop \in Nat /\ Recovery \in Nat /\ ErrorCode \in Nat
  BY DEF DummyLoop, Recovery, ErrorCode
<1>3. Patched(n) \in Nat
  BY <1>2 DEF Patched
<1>4. PICK frame : frame = OnFrame(f, d, s)
  OBVIOUS
<1>5. PICK b \in Seq(Nat) : b = Behind(frame, 1)
  BY <1>4, FrameBehind DEF ErrorCode
<1>6. frame \in Seq(Nat) /\ \A y \in Nat : On(y, b) = OnFrame(y, d, s)
  <2>1. frame \in Seq(Nat)
    BY <1>4, FrameIs
  <2> QED
    BY <1>4, <1>5, <2>1, FrameBehind DEF ErrorCode
<1>7. /\ rest \in Seq(Nat) /\ Len(rest) = d + 6 /\ rest[1] = Patched(n) /\ rest[2] = f
      /\ Behind(rest, 1) = frame /\ Behind(rest, 2) = b
  <2>1. /\ rest \in Seq(Nat) /\ Len(rest) = d + 6 /\ rest[1] = Patched(n) /\ rest[2] = f
        /\ Behind(rest, 1) = OnFrame(f, d, s)
        /\ Behind(rest, 2) = Behind(OnFrame(f, d, s), 1)
    <3>1. PICK w \in Nat : w = Patched(n)
      BY <1>3
    <3>2. rest = On(w, OnFrame(f, d, s))
      BY <3>1
    <3>3. rest \in Seq(Nat) /\ Len(rest) = Len(s) + 6
      BY <3>2, RestIs
    <3>4. rest[1] = w /\ rest[2] = f
      BY <3>2, RestIs
    <3>5. Behind(rest, 1) = OnFrame(f, d, s) /\ Behind(rest, 2) = Behind(OnFrame(f, d, s), 1)
      BY <3>2, RestIs, SMTT(60)
    <3> QED
      BY <3>1, <3>3, <3>4, <3>5
  <2> QED
    BY <1>4, <1>5, <2>1
<1>8. /\ \A h \in {9, 10, 13} : HandlerOf(Entry(h)) = h /\ h \in 0 .. Fallback /\ IretAt(h) \in Nat
      /\ IretAt(n) \in Nat /\ Entry(n + 1) \in Nat /\ IretAt(n) + 2 = Entry(n + 1)
      /\ \A h \in {9, 10, 13} : fault_number(h) \in Nat
  BY DEF HandlerOf, Entry, IretAt, Fallback, fault_number
<1>9. ASSUME p.rip = Entry(13), p.stack = On(ErrorCode, OnFrame(IretAt(n), d + 6, rest))
      PROVE  /\ q \in Registers /\ HandlerNotes(p) \in Report
             /\ q.rip = IretAt(13) /\ q.stack = OnFrame(Entry(n + 1), d + 6, rest)
  <2>1. PICK e \in Nat, x \in Nat, z \in Seq(Nat) : e = d + 6 /\ x = IretAt(n) /\ z = rest
    BY <1>7, <1>8
  <2>2. p.stack = WithError(13, OnFrame(x, e, z)) /\ 13 \in 0 .. 15 /\ e = Len(z)
    BY <1>7, <1>9, <2>1 DEF WithError, PushesErrorCode
  <2>3. /\ q \in Registers /\ q.rip = IretAt(13) /\ q.stack = OnFrame(Leads(13, x), e, z)
        /\ HandlerNotes(p) = [occured |-> TRUE, number |-> fault_number(13), rip |-> x]
    BY <1>1, <1>9, <2>2, FirstBody
  <2>4. Leads(13, x) = Entry(n + 1)
    BY <1>8, <2>1 DEF Leads
  <2> QED
    BY <1>8, <2>1, <2>3, <2>4 DEF Report
<1>10. ASSUME p.rip = Entry(n + 1), p.stack = rest, n = 8
       PROVE  /\ q \in Registers /\ HandlerNotes(p) \in Report
              /\ q.rip = IretAt(9) /\ q.stack = On(Patched(9), OnFrame(f, d, s))
  <2>1. p.rip = Entry(9) /\ HandlerOf(p.rip) = 9
    BY <1>8, <1>10
  <2>2. q = Patch(p, 1, Recovery, "other")
    BY <1>1, <2>1 DEF HandlerBody, PopsErrorCode
  <2>3. q \in Registers /\ q.rip = IretAt(9) /\ q.stack = On(Recovery, frame)
    <3>1. Behind(p.stack, 1) = frame
      BY <1>7, <1>10
    <3> QED
      BY <1>2, <1>6, <1>8, <2>1, <2>2, <3>1, PatchIs, SMTT(60)
  <2>4. HandlerNotes(p) \in Report
    <3>1. HandlerNotes(p) = [occured |-> TRUE, number |-> fault_number(9), rip |-> Patched(n)]
      <4>1. old_rip(p, 9) = Patched(n)
        BY <1>7, <1>10 DEF old_rip, PopsErrorCode
      <4> QED
        BY <2>1, <4>1 DEF HandlerNotes
    <3> QED
      BY <1>3, <1>8, <3>1 DEF Report
  <2> QED
    BY <1>4, <2>3, <2>4 DEF Patched
<1>11. ASSUME p.rip = Entry(n + 1), p.stack = rest, n = 9
       PROVE  /\ q \in Registers /\ q.rip = IretAt(10) /\ q.rax = "other"
              /\ q.stack = OnFrame(Recovery, d, s)
              /\ HandlerNotes(p) = [occured |-> TRUE, number |-> fault_number(10), rip |-> f]
  <2>1. p.rip = Entry(10) /\ HandlerOf(p.rip) = 10
    BY <1>8, <1>11
  <2>2. q = Patch(p, 2, Recovery, "other")
    BY <1>1, <2>1 DEF HandlerBody, PopsErrorCode
  <2>3. q \in Registers /\ q.rip = IretAt(10) /\ q.rax = "other" /\ q.stack = On(Recovery, b)
    <3>1. Behind(p.stack, 2) = b
      BY <1>7, <1>11
    <3> QED
      BY <1>2, <1>8, <2>1, <2>2, <3>1, PatchIs, SMTT(60)
  <2>4. old_rip(p, 10) = f
    BY <1>7, <1>11 DEF old_rip, PopsErrorCode
  <2>5. HandlerNotes(p) = [occured |-> TRUE, number |-> fault_number(10), rip |-> f]
    BY <2>1, <2>4 DEF HandlerNotes
  <2> QED
    BY <1>2, <1>6, <2>3, <2>5
<1> QED
  BY <1>1, <1>9, <1>10, <1>11

\* Wherever an exception has led, the body of the handler goes on with it.
LEMMA BodyHandles ==
  ASSUME NEW p \in Registers, NEW i, NEW r \in Exceptions, NEW s \in Seq(Nat),
         r.vector \in Nat, NEW h \in 0 .. Fallback, p.rip = Entry(h), Handling(p, i, r, s)
  PROVE  /\ HandlerBody(p) \in Registers /\ HandlerNotes(p) \in Report
         /\ Handling(HandlerBody(p), HandlerNotes(p), r, s)
<1>1. PICK d \in Nat, f \in Nat : d = r.depth /\ f = r.rip
  BY DEF Exceptions
<1>2. PICK w \in 0 .. 15 : w = Delivered(r.vector)
  BY DeliveredIs
<1>3. PICK q : q = HandlerBody(p)
  OBVIOUS
<1>8. PICK i1 : i1 = HandlerNotes(p)
  OBVIOUS
<1>4. d = Len(s)
  BY <1>1 DEF Handling
<1>5. \/ p.rip = Entry(w) /\ p.stack = WithError(w, OnFrame(f, d, s))
      \/ w = 8 /\ \E n \in {8, 9} :
           \/ /\ p.rip = Entry(13)
              /\ p.stack = On(ErrorCode, OnFrame(IretAt(n), d + 6, On(Patched(n), OnFrame(f, d, s))))
           \/ p.rip = Entry(n + 1) /\ p.stack = On(Patched(n), OnFrame(f, d, s))
  <2>1. \A g \in 0 .. Fallback : p.rip # IretAt(g)
    BY HandlerPlaces
  <2>2. 8 \in 0 .. Fallback /\ 9 \in 0 .. Fallback /\ 10 \in 0 .. Fallback
          /\ 13 \in 0 .. Fallback /\ w \in 0 .. Fallback
    BY DEF Fallback
  <2>3. /\ p.rip # IretAt(8) /\ p.rip # IretAt(9) /\ p.rip # IretAt(13)
        /\ p.rip # IretAt(IF w = 8 THEN 10 ELSE w)
    BY <2>1, <2>2
  <2> QED
    BY <1>1, <1>2, <2>3, Zenon DEF Handling
<1>6. CASE p.rip = Entry(w) /\ p.stack = WithError(w, OnFrame(f, d, s))
  <2>1. /\ q \in Registers /\ i1 = [occured |-> TRUE, number |-> fault_number(w), rip |-> f]
        /\ q.rip = IretAt(w)
        /\ w = 8 => q.stack = On(DummyLoop, OnFrame(f, d, s))
        /\ w # 8 => /\ q.stack = OnFrame(Leads(w, f), d, s)
                    /\ q.rax = IF w = 13 THEN "dead" ELSE "other"
    BY <1>3, <1>8, <1>4, <1>6, FirstBody, SMTT(60)
  <2>2. i1 \in Report
    <3>1. fault_number(w) \in Nat
      <4>1. w \in 0 .. Fallback
        BY DEF Fallback
      <4> QED
        BY <4>1, NumberNoted
    <3> QED
      BY <2>1, <3>1 DEF Report
  <2>3. Handling(q, i1, r, s)
    <3>1. CASE w = 8
      <4>1. q.rip = IretAt(8) /\ q.stack = On(Patched(8), OnFrame(f, d, s))
        BY <2>1, <3>1 DEF Patched
      <4> QED
        BY <1>1, <1>2, <1>4, <3>1, <4>1, Zenon DEF Handling
    <3>2. CASE w # 8
      <4>1. /\ q.rip = IretAt(w) /\ q.stack = OnFrame(Leads(w, f), d, s)
            /\ q.rax = IF w = 13 THEN "dead" ELSE "other"
        BY <2>1, <3>2
      <4> QED
        BY <1>1, <1>2, <1>4, <2>1, <3>2, <4>1, Zenon DEF Handling
    <3> QED
      BY <3>1, <3>2
  <2> QED
    BY <1>3, <1>8, <2>1, <2>2, <2>3
<1>7. ASSUME w = 8, NEW n \in {8, 9},
             \/ /\ p.rip = Entry(13)
                /\ p.stack = On(ErrorCode, OnFrame(IretAt(n), d + 6, On(Patched(n), OnFrame(f, d, s))))
             \/ p.rip = Entry(n + 1) /\ p.stack = On(Patched(n), OnFrame(f, d, s))
      PROVE  q \in Registers /\ i1 \in Report /\ Handling(q, i1, r, s)
  <2>1. PICK rest : rest = On(Patched(n), OnFrame(f, d, s))
    OBVIOUS
  <2>2. CASE p.rip = Entry(13) /\ p.stack = On(ErrorCode, OnFrame(IretAt(n), d + 6, rest))
    <3>1. /\ q \in Registers /\ i1 \in Report
          /\ q.rip = IretAt(13) /\ q.stack = OnFrame(Entry(n + 1), d + 6, rest)
      BY <1>3, <1>8, <1>4, <2>1, <2>2, DetourBody
    <3>2. Handling(q, i1, r, s)
      BY <1>1, <1>2, <1>4, <1>7, <2>1, <3>1, Zenon DEF Handling
    <3> QED
      BY <3>1, <3>2
  <2>3. CASE n = 8 /\ p.rip = Entry(n + 1) /\ p.stack = rest
    <3>1. /\ q \in Registers /\ i1 \in Report
          /\ q.rip = IretAt(9) /\ q.stack = On(Patched(9), OnFrame(f, d, s))
      BY <1>3, <1>8, <1>4, <2>1, <2>3, DetourBody
    <3>2. Handling(q, i1, r, s)
      BY <1>1, <1>2, <1>4, <1>7, <3>1, Zenon DEF Handling
    <3> QED
      BY <3>1, <3>2
  <2>4. CASE n = 9 /\ p.rip = Entry(n + 1) /\ p.stack = rest
    <3>1. /\ q \in Registers /\ q.rip = IretAt(10) /\ q.rax = "other"
          /\ q.stack = OnFrame(Recovery, d, s)
          /\ i1 = [occured |-> TRUE, number |-> fault_number(10), rip |-> f]
      BY <1>3, <1>8, <1>4, <2>1, <2>4, DetourBody
    <3>2. i1 \in Report
      <4>1. fault_number(10) \in Nat
        BY NumberNoted DEF Fallback
      <4> QED
        BY <3>1, <4>1 DEF Report
    <3>3. Leads(10, f) = Recovery /\ 10 # 13
      BY DEF Leads
    <3>4. Handling(q, i1, r, s)
      BY <1>1, <1>2, <1>4, <1>7, <3>1, <3>3, Zenon DEF Handling
    <3> QED
      BY <3>1, <3>2, <3>4
  <2> QED
    BY <1>7, <2>1, <2>2, <2>3, <2>4
<1> QED
  BY <1>3, <1>8, <1>5, <1>6, <1>7

\* An iretq either leads to the next handler of a double fault, or out.
LastHandler(v) == IF Delivered(v) = 8 THEN 10 ELSE Delivered(v)
\* What is left of exception r when it has been handled.
Handled(q, i, r, s) ==
  LET last == LastHandler(r.vector) IN
  /\ q.rip = Leads(last, r.rip) /\ q.stack = s /\ Len(s) = r.depth
  /\ q.rax = IF last = 13 THEN "dead" ELSE "other"
  /\ i = [occured |-> TRUE, number |-> fault_number(last), rip |-> r.rip]

LEMMA IretHandles ==
  ASSUME NEW p \in Registers, NEW i, NEW r \in Exceptions, NEW s \in Seq(Nat),
         r.vector \in Nat, NEW h \in 0 .. Fallback, p.rip = IretAt(h), Handling(p, i, r, s),
         r.rip # CODE_SEGMENT, NEW q, q = Iretq(p)
  PROVE  /\ q \in Registers
         /\ \/ InHandlers(q.rip) /\ Handling(q, i, r, s)
            \/ Handled(q, i, r, s)
<1>1. PICK d \in Nat, f \in Nat : d = r.depth /\ f = r.rip
  BY DEF Exceptions
<1>2. PICK w \in 0 .. 15 : w = Delivered(r.vector)
  BY DeliveredIs
<1>3. PICK last : last = LastHandler(r.vector)
  OBVIOUS
<1>4. last \in 0 .. 15 /\ last = IF w = 8 THEN 10 ELSE w
  BY <1>2, <1>3 DEF LastHandler
<1>5. d = Len(s)
  BY <1>1 DEF Handling
<1>6. \/ /\ p.stack = OnFrame(Leads(last, f), d, s)
         /\ i = [occured |-> TRUE, number |-> fault_number(last), rip |-> f]
         /\ p.rax = IF last = 13 THEN "dead" ELSE "other"
      \/ w = 8 /\ \E n \in {8, 9} :
           \/ p.rip = IretAt(n) /\ p.stack = On(Patched(n), OnFrame(f, d, s))
           \/ p.rip = IretAt(13)
                /\ p.stack = OnFrame(Entry(n + 1), d + 6, On(Patched(n), OnFrame(f, d, s)))
  <2>1. \A g \in 0 .. Fallback : p.rip # Entry(g)
    BY HandlerPlaces
  <2>2. 9 \in 0 .. Fallback /\ 10 \in 0 .. Fallback /\ 8 + 1 = 9 /\ 9 + 1 = 10
          /\ 13 \in 0 .. Fallback /\ w \in 0 .. Fallback
    BY DEF Fallback
  <2>3. /\ \A n \in {8, 9} : p.rip # Entry(n + 1)
        /\ p.rip # Entry(13) /\ p.rip # Entry(w)
    BY <2>1, <2>2
  <2> QED
    BY <1>1, <1>2, <1>4, <2>3, Zenon DEF Handling
<1>7. CASE /\ p.stack = OnFrame(Leads(last, f), d, s)
           /\ i = [occured |-> TRUE, number |-> fault_number(last), rip |-> f]
           /\ p.rax = IF last = 13 THEN "dead" ELSE "other"
  <2>1. PICK x \in Nat : x = Leads(last, f)
    BY DEF Leads, Recovery
  <2>2. q \in Registers /\ q.rip = x /\ q.stack = s /\ q.rax = p.rax
    BY <1>5, <1>7, <2>1, IretReturns
  <2>3. Handled(q, i, r, s)
    BY <1>1, <1>3, <1>5, <1>7, <2>1, <2>2 DEF Handled
  <2> QED
    BY <2>2, <2>3
<1>8. ASSUME w = 8, NEW n \in {8, 9}
      PROVE  /\ p.rip = IretAt(n) /\ p.stack = On(Patched(n), OnFrame(f, d, s)) =>
                  q \in Registers /\ InHandlers(q.rip) /\ Handling(q, i, r, s)
             /\ p.rip = IretAt(13)
                  /\ p.stack = OnFrame(Entry(n + 1), d + 6, On(Patched(n), OnFrame(f, d, s))) =>
                  q \in Registers /\ InHandlers(q.rip) /\ Handling(q, i, r, s)
  <2>1. PICK y \in Nat : y = Patched(n)
    BY DEF Patched, DummyLoop, Recovery
  <2>2. PICK rest : rest = On(y, OnFrame(f, d, s))
    OBVIOUS
  <2>3. rest \in Seq(Nat) /\ Len(rest) = d + 6 /\ rest[2] = f
    <3>1. rest \in Seq(Nat) /\ Len(rest) = Len(s) + 6
      BY <2>2, RestIs
    <3>2. rest[2] = f
      BY <2>2, RestIs
    <3> QED
      BY <1>5, <3>1, <3>2
  <2>4. ASSUME p.rip = IretAt(n), p.stack = rest
        PROVE  q \in Registers /\ InHandlers(q.rip) /\ Handling(q, i, r, s)
    <3>1. q = Fault(p, 13)
      BY <1>1, <2>3, <2>4, IretFaults
    <3>2. Delivered(13) = 13 /\ PushesErrorCode(13)
      BY DEF Delivered, WithinLimit, idt_limit, PushesErrorCode
    <3>3. /\ q \in Registers /\ q.rip = Entry(13)
          /\ q.stack = WithError(13, OnFrame(p.rip, Len(p.stack), p.stack))
      <4>1. /\ Fault(p, 13) \in Registers /\ Fault(p, 13).rip = Entry(Delivered(13))
            /\ Fault(p, 13).stack
                 = WithError(Delivered(13), OnFrame(p.rip, Len(p.stack), p.stack))
        BY FaultDelivered
      <4> QED
        BY <3>1, <3>2, <4>1, Zenon
    <3>4. q.stack = On(ErrorCode, OnFrame(IretAt(n), d + 6, On(Patched(n), OnFrame(f, d, s))))
      <4>1. q.stack = WithError(13, OnFrame(IretAt(n), d + 6, rest))
        BY <2>3, <2>4, <3>3
      <4> QED
        BY <2>1, <2>2, <3>2, <4>1, Zenon DEF WithError
    <3>5. InHandlers(q.rip)
      BY <3>3, HandlerPlaces DEF Fallback
    <3>6. Handling(q, i, r, s)
      BY <1>1, <1>2, <1>5, <1>8, <3>3, <3>4, Zenon DEF Handling
    <3> QED
      BY <3>3, <3>5, <3>6
  <2>5. ASSUME p.rip = IretAt(13), p.stack = OnFrame(Entry(n + 1), d + 6, rest)
        PROVE  q \in Registers /\ InHandlers(q.rip) /\ Handling(q, i, r, s)
    <3>1. PICK e \in Nat, x \in Nat, z \in Seq(Nat) : e = d + 6 /\ x = Entry(n + 1) /\ z = rest
      BY <2>3 DEF Entry
    <3>2. q \in Registers /\ q.rip = x /\ q.stack = z
      <4>1. e = Len(z) /\ p.stack = OnFrame(x, e, z)
        BY <2>3, <2>5, <3>1
      <4> QED
        BY <4>1, IretReturns
    <3>3. InHandlers(q.rip)
      <4>1. n + 1 \in 0 .. Fallback
        BY DEF Fallback
      <4> QED
        BY <3>1, <3>2, <4>1, HandlerPlaces
    <3>4. Handling(q, i, r, s)
      BY <1>1, <1>2, <1>5, <1>8, <2>1, <2>2, <3>1, <3>2, Zenon DEF Handling
    <3> QED
      BY <3>2, <3>3, <3>4
  <2> QED
    BY <2>1, <2>2, <2>4, <2>5
<1> QED
  BY <1>6, <1>7, <1>8

-----------------------------------------------------------------------------
(* Where a core is, and what that says of its job. *)

\* The places of the program are not handlers.
LEMMA Places ==
  /\ MainLoop = 100 /\ DummyLoop = 110 /\ Recovery = 120
  /\ ApplyUpdate = 200 /\ Applied = 202 /\ RestoreUpdate = 210 /\ Restored = 212
  /\ CallCode = 220 /\ StubReturn = 230 /\ Code = 300 /\ CODE_SEGMENT = 56
  /\ Saved = 240 /\ Caller = 250
  /\ \A n : InHandlers(n) => n >= 1000
BY DEF MainLoop, DummyLoop, Recovery, ApplyUpdate, Applied, RestoreUpdate, Restored, CallCode,
       StubReturn, Code, CODE_SEGMENT, Saved, Caller, InHandlers, Entry, IretAt, Fallback

\* An exception that is being handled is in a handler.
LEMMA HandlingPlace ==
  ASSUME NEW p, NEW i, NEW r, r.vector \in Nat, NEW s, Handling(p, i, r, s)
  PROVE  \E h \in 0 .. Fallback : p.rip = Entry(h) \/ p.rip = IretAt(h)
<1>1. PICK w \in 0 .. 15 : w = Delivered(r.vector)
  BY DeliveredIs
<1>2. w \in 0 .. Fallback /\ \A n \in {8, 9, 10, 13} : n \in 0 .. Fallback
  BY DEF Fallback
<1>3. 8 + 1 = 9 /\ 9 + 1 = 10
  OBVIOUS
<1>4. \/ p.rip = Entry(w)
      \/ p.rip = IretAt(IF w = 8 THEN 10 ELSE w)
      \/ \E n \in {8, 9} : p.rip = IretAt(n) \/ p.rip = Entry(13) \/ p.rip = IretAt(13)
                             \/ p.rip = Entry(n + 1)
  BY <1>1, Zenon DEF Handling
<1> QED
  BY <1>2, <1>3, <1>4

LEMMA InFaultPlace ==
  ASSUME NEW p, NEW k, NEW j, NEW r, InFault(p, k, j, r)
  PROVE  InHandlers(p.rip) /\ r.vector \in Nat
<1>1. r.vector \in Nat
  BY DEF InFault, FromJob
<1>2. PICK s : Handling(p, k.fault_info, r, s)
  BY DEF InFault
<1>3. PICK h \in 0 .. Fallback : p.rip = Entry(h) \/ p.rip = IretAt(h)
  BY <1>1, <1>2, HandlingPlace
<1> QED
  BY <1>1, <1>3, HandlerPlaces

\* What the place of a core says.
LEMMA AtPlaces ==
  ASSUME NEW c, NEW p, NEW k, NEW j, NEW r, CoreFine(c, p, k, j, r), p.rip # MainLoop
  PROVE  /\ j.state = "running"
         /\ p.rip \in {ApplyUpdate, Applied, CallCode, RestoreUpdate, Restored, StubReturn} =>
              InStub(p, k, j)
         /\ p.rip \in {Code, Code + 2} => p.stack \in StacksAt(Code) /\ TestRight(k, j)
         /\ InHandlers(p.rip) => c # 0 /\ InFault(p, k, j, r)
         /\ p.rip = Recovery => c # 0
<1>1. j.state = "running" /\ Runs(c, p, k, j, r)
  BY DEF CoreFine
<1>2. CASE InStub(p, k, j)
  BY <1>1, <1>2, Places DEF InStub
<1>3. CASE p.rip \in {Code, Code + 2} /\ p.stack \in StacksAt(Code) /\ TestRight(k, j)
  BY <1>1, <1>3, Places
<1>4. CASE \/ c = 0 /\ p.rip = DummyLoop
           \/ c # 0 /\ p.rip = Recovery
  BY <1>1, <1>4, Places
<1>5. CASE c # 0 /\ InFault(p, k, j, r)
  BY <1>1, <1>5, InFaultPlace, Places
<1> QED
  BY <1>1, <1>2, <1>3, <1>4, <1>5 DEF Runs

\* A stack on which the job runs is the stub's, with or without the return
\* address of the machine code.
LEMMA JobStacks ==
  /\ JobStack \in Seq(Nat) /\ Len(JobStack) = 2
  /\ JobStack = On(Saved, On(Caller, <<>>)) /\ JobStack[1] = Saved /\ JobStack[2] = Caller
  /\ Behind(JobStack, 2) = <<>>
  /\ \A f : f # Code => StacksAt(f) = {JobStack}
  /\ \A s \in StacksAt(Code) : /\ s \in Seq(Nat) /\ s[1] \in {RestoreUpdate, StubReturn}
                               /\ Behind(s, 1) = JobStack
  /\ \A f : \A s \in StacksAt(f) : s \in Seq(Nat)
<1>1. <<>> \in Seq(Nat) /\ Saved \in Nat /\ Caller \in Nat
  BY Places
<1>2. JobStack \in Seq(Nat) /\ Len(JobStack) = 2 /\ JobStack[1] = Saved /\ JobStack[2] = Caller
  BY <1>1 DEF JobStack
<1>3. JobStack = On(Saved, On(Caller, <<>>))
  <2>1. On(Caller, <<>>) = <<Caller>>
    BY <1>1, ConcatEmptySeq DEF On
  <2>2. PICK t : t = On(Saved, <<Caller>>)
    OBVIOUS
  <2>3. <<Caller>> \in Seq(Nat) /\ Len(<<Caller>>) = 1 /\ <<Caller>>[1] = Caller
    BY <1>1
  <2>4. PICK a \in Seq(Nat) : a = <<Caller>>
    BY <2>3
  <2>5. PICK w \in Nat : w = Saved
    BY <1>1
  <2>6. t \in Seq(Nat) /\ Len(t) = 2 /\ t[1] = w /\ t[1 + 1] = a[1]
    <3>1. t = On(w, a) /\ Len(a) = 1
      BY <2>2, <2>3, <2>4, <2>5
    <3>3. PICK n \in Nat : n = Len(a)
      OBVIOUS
    <3>4. t \in Seq(Nat) /\ Len(t) = n + 1 /\ t[1] = w /\ \A i \in 1 .. n : t[i + 1] = a[i]
      <4>1. t = On(w, a)
        BY <3>1
      <4> QED
        BY <3>3, <4>1, OnIs, SMTT(30)
    <3>2. t \in Seq(Nat) /\ Len(t) = 1 + 1 /\ t[1] = w /\ \A i \in 1 .. 1 : t[i + 1] = a[i]
      BY <3>1, <3>3, <3>4
    <3> QED
      BY <3>2
  <2>7. t = JobStack
    <3>1. PICK m \in Seq(Nat) : m = JobStack
      BY <1>2
    <3>2. \A i \in 1 .. 2 : t[i] = m[i]
      <4>1. t[1] = m[1] /\ t[2] = m[2]
        BY <1>2, <2>3, <2>4, <2>5, <2>6, <3>1
      <4> QED
        BY <4>1
    <3> QED
      BY <1>2, <2>6, <3>1, <3>2, SeqEqual
  <2> QED
    BY <2>1, <2>2, <2>7
<1>4. Behind(JobStack, 2) = <<>>
  BY <1>1, <1>3, BehindTwo
<1>5. \A f : f # Code => StacksAt(f) = {JobStack}
  BY DEF StacksAt
<1>6. ASSUME NEW s \in StacksAt(Code)
      PROVE  /\ s \in Seq(Nat) /\ s[1] \in {RestoreUpdate, StubReturn}
             /\ Behind(s, 1) = JobStack
  <2>1. PICK back \in {RestoreUpdate, StubReturn} : s = On(back, JobStack)
    BY DEF StacksAt, On
  <2>2. back \in Nat
    BY Places
  <2>3. s \in Seq(Nat) /\ s[1] = back
    BY <1>2, <2>1, <2>2, OnIs
  <2> QED
    BY <1>2, <2>1, <2>2, <2>3, BehindIs
<1>7. \A f : \A s \in StacksAt(f) : s \in Seq(Nat)
  BY <1>2, <1>5, <1>6
<1> QED
  BY <1>2, <1>3, <1>4, <1>5, <1>6, <1>7

\* A core that has made a step is fine if its own state is.
LEMMA CoreUpdate ==
  ASSUME SlotInv, CoreInv, NEW c \in Cores, UNCHANGED <<slots, serving>>,
         NEW p \in Registers, NEW k \in Contexts, NEW j \in Jobs, NEW r \in Exceptions,
         NEW l \in {NULL} \cup Accepted,
         cpu' = [cpu EXCEPT ![c] = p], context' = [context EXCEPT ![c] = k],
         job' = [job EXCEPT ![c] = j], raised' = [raised EXCEPT ![c] = r],
         loaded' = [loaded EXCEPT ![c] = l],
         CoreFine(c, p, k, j, r),
         k.func = context[c].func, k.ucode = context[c].ucode, k.code = context[c].code,
         j.asked = job[c].asked, j.state # "none",
         boot = "wait" /\ c = req.core /\ Uses(cpu[c], job[c]) => Uses(p, j)
  PROVE  CoreInv'
<1>1. /\ cpu \in [Cores -> Registers] /\ loaded \in [Cores -> {NULL} \cup Accepted]
      /\ context \in [Cores -> Contexts] /\ job \in [Cores -> Jobs]
      /\ raised \in [Cores -> Exceptions]
  BY DEF CoreInv, CoreTypes
<1>2. CoreTypes'
  <2>1. /\ cpu' \in [Cores -> Registers] /\ loaded' \in [Cores -> {NULL} \cup Accepted]
        /\ context' \in [Cores -> Contexts] /\ job' \in [Cores -> Jobs]
        /\ raised' \in [Cores -> Exceptions]
    BY <1>1
  <2> QED
    BY <2>1 DEF CoreTypes, Registers, Contexts, Jobs, Exceptions, Use, Report, Slots, CodeSlots, Bits
<1>3. /\ cpu'[c] = p /\ context'[c] = k /\ job'[c] = j /\ raised'[c] = r
      /\ \A d \in Cores : d # c => /\ cpu'[d] = cpu[d] /\ context'[d] = context[d]
                                   /\ job'[d] = job[d] /\ raised'[d] = raised[d]
  BY <1>1
<1>4. CoresFine'
  <2>1. \A d \in Cores : CoreFine(d, cpu'[d], context'[d], job'[d], raised'[d])
    BY <1>3 DEF CoreInv, CoresFine
  <2> QED
    BY <2>1 DEF CoresFine
<1>5. CodeThere'
  <2>1. \A d \in Cores : context'[d].func = context[d].func /\ context'[d].code = context[d].code
    BY <1>3
  <2> QED
    BY <2>1 DEF CoreInv, CodeThere, slots
<1>6. UseInv'
  <2>1. UNCHANGED <<boot, req, ucodes, machine_codes>>
    BY DEF slots, serving
  <2>2. CASE c = req.core
    BY <1>3, <2>1, <2>2 DEF CoreInv, UseInv, Uses
  <2>3. CASE c # req.core
    <3>1. boot = "wait" => req.core \in Cores
      BY RequestIs DEF SlotInv, Serves
    <3> QED
      BY <1>3, <2>1, <2>3, <3>1 DEF CoreInv, UseInv, Uses
  <2> QED
    BY <2>2, <2>3
<1> QED
  BY <1>2, <1>4, <1>5, <1>6 DEF CoreInv

-----------------------------------------------------------------------------
(* The steps of a core. *)

LEMMA CoreIs ==
  ASSUME CoreInv, NEW c \in Cores
  PROVE  /\ cpu[c] \in Registers /\ context[c] \in Contexts /\ job[c] \in Jobs
         /\ raised[c] \in Exceptions /\ loaded[c] \in {NULL} \cup Accepted
         /\ CoreFine(c, cpu[c], context[c], job[c], raised[c])
BY DEF CoreInv, CoreTypes, CoresFine

LEMMA CoreSame ==
  ASSUME CoreInv, NEW c \in Cores
  PROVE  /\ cpu = [cpu EXCEPT ![c] = cpu[c]] /\ context = [context EXCEPT ![c] = context[c]]
         /\ job = [job EXCEPT ![c] = job[c]] /\ raised = [raised EXCEPT ![c] = raised[c]]
         /\ loaded = [loaded EXCEPT ![c] = loaded[c]]
BY DEF CoreInv, CoreTypes

\* Where the #GP handlers resume, the job goes on with its answer in rax.
LEMMA ResumeFine ==
  ASSUME NEW c, NEW q, NEW k, NEW j, NEW r, FromJob(k, j, r), q.rip = r.rip + 2,
         q.stack \in StacksAt(r.rip), q.rax = "dead"
  PROVE  Runs(c, q, k, j, r)
<1>1. CASE r.rip = ApplyUpdate /\ k.func \in {"apply", "test"} /\ j.used.code = NULL /\ ~Taken(j)
  BY <1>1, Places, JobStacks, SMTT(60) DEF Runs, InStub
<1>2. CASE r.rip = RestoreUpdate /\ TestRight(k, j)
  BY <1>2, Places, JobStacks, SMTT(60) DEF Runs, InStub
<1>3. CASE r.rip = Code /\ TestRight(k, j)
  BY <1>3 DEF Runs
<1> QED
  BY <1>1, <1>2, <1>3 DEF FromJob

LEMMA RaisesFine ==
  ASSUME NEW c \in Cores, NEW p \in Registers, NEW k, NEW j, NEW v \in Nat, NEW r, NEW q,
         j.state = "running", p.stack \in StacksAt(p.rip),
         r = [vector |-> v, rip |-> p.rip, depth |-> Len(p.stack)], FromJob(k, j, r),
         q = IF c = 0 THEN FaultOnCore0(p, v) ELSE Fault(p, v)
  PROVE  q \in Registers /\ r \in Exceptions /\ CoreFine(c, q, k, j, r)
<1>1. p.rip \in Nat /\ p.stack \in Seq(Nat)
  BY DEF Registers
<1>2. r \in Exceptions /\ r.vector = v /\ r.rip = p.rip /\ r.depth = Len(p.stack)
  BY <1>1 DEF Exceptions
<1>3. CASE c = 0 /\ v = 13
  <2>1. q = [p EXCEPT !.rip = p.rip + 2, !.rax = "dead"]
    BY <1>3 DEF FaultOnCore0
  <2>3. PICK x \in Nat : x = p.rip + 2
    BY <1>1
  <2>4. q = [p EXCEPT !.rip = x, !.rax = "dead"]
    BY <2>1, <2>3
  <2>5. q \in Registers /\ q.rip = x /\ q.stack = p.stack /\ q.rax = "dead"
    BY <2>4 DEF Registers
  <2>2. q \in Registers /\ q.rip = r.rip + 2 /\ q.stack = p.stack /\ q.rax = "dead"
    BY <1>2, <2>3, <2>5
  <2>6. Runs(c, q, k, j, r)
    BY <1>2, <2>2, ResumeFine
  <2> QED
    BY <1>2, <2>2, <2>6 DEF CoreFine
<1>4. CASE c = 0 /\ v # 13
  <2>1. q = [p EXCEPT !.rip = DummyLoop]
    BY <1>4 DEF FaultOnCore0
  <2>3. DummyLoop \in Nat
    BY DEF DummyLoop
  <2>2. q \in Registers /\ q.rip = DummyLoop
    BY <2>1, <2>3 DEF Registers
  <2> QED
    BY <1>2, <1>4, <2>2 DEF CoreFine, Runs
<1>5. CASE c # 0
  <2>1. /\ q \in Registers /\ q.rip = Entry(Delivered(v))
        /\ q.stack = WithError(Delivered(v), OnFrame(p.rip, Len(p.stack), p.stack))
    BY <1>5, FaultDelivered
  <2>2. Handling(q, k.fault_info, r, p.stack)
    BY <1>2, <2>1, Zenon DEF Handling
  <2>3. InFault(q, k, j, r)
    BY <1>2, <2>2 DEF InFault
  <2> QED
    BY <1>2, <1>5, <2>1, <2>3 DEF CoreFine, Runs
<1> QED
  BY <1>3, <1>4, <1>5

LEMMA StartKeeps ==
  ASSUME SlotInv, CoreInv, NEW c \in Cores, StartJob(c)
  PROVE  CoreInv'
<1>1. PICK p \in Registers, k \in Contexts, j \in Jobs, r \in Exceptions :
        p = cpu[c] /\ k = context[c] /\ j = job[c] /\ r = raised[c] /\ CoreFine(c, p, k, j, r)
  BY CoreIs
<1>2. /\ p.rip = MainLoop /\ j.state = "queued"
      /\ p.stack = <<>> /\ j.used = Unused /\ k.func \in {"apply", "test", "execute"}
  BY <1>1 DEF StartJob, At, CoreFine
<1>3. PICK x : x = IF k.func = "execute" THEN CallCode ELSE ApplyUpdate
  OBVIOUS
<1>4. PICK p1 : p1 = Push(Push(p, Caller, p.rip), Saved, x)
  OBVIOUS
<1>5. PICK k1 : k1 = [k EXCEPT !.fault_info = NoFault]
  OBVIOUS
<1>6. PICK j1 : j1 = [j EXCEPT !.state = "running"]
  OBVIOUS
<1>7. /\ cpu' = [cpu EXCEPT ![c] = p1] /\ context' = [context EXCEPT ![c] = k1]
      /\ job' = [job EXCEPT ![c] = j1] /\ raised' = [raised EXCEPT ![c] = NotRaised]
      /\ loaded' = loaded /\ UNCHANGED <<slots, serving>>
  BY <1>1, <1>3, <1>4, <1>5, <1>6 DEF StartJob, BootKeeps
<1>8. p1 \in Registers /\ p1.rip = x /\ p1.stack = JobStack
  <2>8. <<>> \in Seq(Nat) /\ Caller \in Nat
    BY DEF Caller
  <2>1. PICK a \in Seq(Nat) : a = On(Caller, <<>>)
    BY <2>8, OnType
  <2>2. x \in Nat /\ Saved \in Nat
    BY <1>3, Places
  <2>3. Push(p, Caller, p.rip) = [p EXCEPT !.stack = a, !.rip = p.rip]
    BY <1>2, <2>1, Zenon DEF Push, On
  <2>4. [p EXCEPT !.stack = a, !.rip = p.rip] \in Registers
          /\ [p EXCEPT !.stack = a, !.rip = p.rip].stack = a
    BY DEF Registers
  <2>5. PICK p2 \in Registers : p2 = [p EXCEPT !.stack = a, !.rip = p.rip] /\ p2.stack = a
    BY <2>4
  <2>6. <<Saved>> \o p2.stack = JobStack
    BY <2>1, <2>5, JobStacks, Zenon DEF On
  <2>7. p1 = [p2 EXCEPT !.stack = JobStack, !.rip = x]
    BY <1>4, <2>3, <2>5, <2>6, Zenon DEF Push
  <2> QED
    BY <2>2, <2>7, JobStacks DEF Registers
<1>9. k1 \in Contexts /\ k1.func = k.func /\ k1.ucode = k.ucode /\ k1.code = k.code
  BY <1>5 DEF Contexts, NoFault, Report
<1>10. j1 \in Jobs /\ j1.state = "running" /\ j1.used = Unused /\ j1.asked = j.asked
  BY <1>2, <1>6 DEF Jobs
<1>11. NotRaised \in Exceptions
  BY DEF NotRaised, Exceptions
<1>12. CoreFine(c, p1, k1, j1, NotRaised)
  <2>1. InStub(p1, k1, j1)
    BY <1>2, <1>3, <1>8, <1>9, <1>10, Places DEF InStub, Unused
  <2> QED
    BY <1>10, <2>1 DEF CoreFine, Runs
<1>13. ASSUME boot = "wait", c = req.core PROVE Uses(p1, j1)
  <2>1. j1.asked.ucode = IF k.func = "execute" THEN NULL ELSE ucodes[k.ucode].ucode
    BY <1>1, <1>10, <1>13 DEF CoreInv, UseInv
  <2> QED
    BY <1>3, <1>8, <1>10, <2>1 DEF Uses, Unused
<1> QED
  BY <1>1, <1>7, <1>8, <1>9, <1>10, <1>11, <1>12, <1>13, CoreUpdate, CoreIs, CoreSame

\* What a wrmsr of the patch register comes to, on every processor.
LEMMA WrmsrFine ==
  ASSUME CoreInv, NEW c \in Cores, NEW k, NEW j, NEW u, Wrmsr(c, u), j.state = "running",
         cpu[c].stack \in StacksAt(cpu[c].rip),
         u \notin Accepted =>
           \A r : r.vector = 13 /\ r.rip = cpu[c].rip => FromJob(k, j, r),
         u \in Accepted =>
           \A p : p.rip = cpu[c].rip + 2 /\ p.stack = cpu[c].stack /\ p.rax = "address" =>
             Runs(c, p, k, j, raised[c])
  PROVE  \E p \in Registers, r \in Exceptions, l \in {NULL} \cup Accepted :
           /\ cpu' = [cpu EXCEPT ![c] = p] /\ raised' = [raised EXCEPT ![c] = r]
           /\ loaded' = [loaded EXCEPT ![c] = l] /\ CoreFine(c, p, k, j, r)
<1>1. PICK p0 \in Registers : p0 = cpu[c]
  BY CoreIs
<1>2. CASE u \in Accepted
  <2>1. PICK x \in Nat : x = p0.rip + 2
    BY DEF Registers
  <2>2. PICK p : p = [p0 EXCEPT !.rip = x, !.rax = "address"]
    OBVIOUS
  <2>5. p \in Registers /\ p.rip = x /\ p.stack = p0.stack /\ p.rax = "address"
    BY <2>2 DEF Registers
  <2>3. cpu' = [cpu EXCEPT ![c] = p] /\ loaded' = [loaded EXCEPT ![c] = u] /\ raised' = raised
    BY <1>1, <1>2, <2>1, <2>2 DEF Wrmsr
  <2>4. CoreFine(c, p, k, j, raised[c])
    BY <1>1, <1>2, <2>1, <2>5 DEF CoreFine
  <2> QED
    BY <1>2, <2>3, <2>4, <2>5, CoreIs, CoreSame
<1>3. CASE u \notin Accepted
  <2>1. PICK r : r = [vector |-> 13, rip |-> p0.rip, depth |-> Len(p0.stack)]
    OBVIOUS
  <2>2. PICK q : q = IF c = 0 THEN FaultOnCore0(p0, 13) ELSE Fault(p0, 13)
    OBVIOUS
  <2>3. cpu' = [cpu EXCEPT ![c] = q] /\ raised' = [raised EXCEPT ![c] = r] /\ loaded' = loaded
    BY <1>1, <1>3, <2>1, <2>2 DEF Wrmsr, Raises
  <2>4. FromJob(k, j, r)
    BY <1>1, <1>3, <2>1
  <2>5. q \in Registers /\ r \in Exceptions /\ CoreFine(c, q, k, j, r)
    BY <1>1, <2>1, <2>2, <2>4, RaisesFine
  <2> QED
    BY <2>3, <2>5, CoreIs, CoreSame
<1> QED
  BY <1>2, <1>3

\* The place of a core in its stub.
LEMMA AtStub ==
  ASSUME CoreInv, NEW c \in Cores,
         cpu[c].rip \in {ApplyUpdate, Applied, CallCode, RestoreUpdate, Restored, StubReturn}
  PROVE  \E p \in Registers, k \in Contexts, j \in Jobs, r \in Exceptions :
           /\ p = cpu[c] /\ k = context[c] /\ j = job[c] /\ r = raised[c]
           /\ j.state = "running" /\ InStub(p, k, j)
<1>1. PICK p \in Registers, k \in Contexts, j \in Jobs, r \in Exceptions :
        p = cpu[c] /\ k = context[c] /\ j = job[c] /\ r = raised[c] /\ CoreFine(c, p, k, j, r)
  BY CoreIs
<1>2. p.rip # MainLoop
  BY <1>1, Places
<1>3. j.state = "running" /\ InStub(p, k, j)
  BY <1>1, <1>2, AtPlaces
<1> QED
  BY <1>1, <1>3

LEMMA ApplyKeeps ==
  ASSUME SlotInv, CoreInv, NEW c \in Cores, Apply(c)
  PROVE  CoreInv'
<1>1. PICK p \in Registers, k \in Contexts, j \in Jobs, r \in Exceptions :
        /\ p = cpu[c] /\ k = context[c] /\ j = job[c] /\ r = raised[c]
        /\ j.state = "running" /\ InStub(p, k, j)
  BY AtStub DEF Apply, At
<1>2. /\ p.rip = ApplyUpdate /\ p.stack = JobStack /\ k.func \in {"apply", "test"}
      /\ j.used = Unused
  BY <1>1 DEF Apply, At, InStub
<1>3. PICK u \in {NULL} \cup SUBSET Bits : u = ucodes[k.ucode].ucode
  <2>1. k.ucode \in Slots
    BY DEF Contexts
  <2>2. ucodes[k.ucode].ucode \in {NULL} \cup SUBSET Bits
    BY <2>1 DEF SlotInv, SlotTypes, Contained
  <2> QED
    BY <2>2
<1>11. PICK j1 : j1 = [j EXCEPT !.used.ucode = u]
  OBVIOUS
<1>4. /\ j1 \in Jobs /\ j1.state = "running" /\ j1.asked = j.asked
      /\ j1.used = [ucode |-> u, code |-> NULL]
  BY <1>1, <1>2, <1>11 DEF Jobs, Use, Unused
<1>5. /\ Wrmsr(c, u) /\ job' = [job EXCEPT ![c] = j1]
      /\ context' = context /\ UNCHANGED <<slots, serving>>
  BY <1>1, <1>3, <1>11 DEF Apply, BootKeeps
<1>6. u \notin Accepted => \A x : x.vector = 13 /\ x.rip = p.rip => FromJob(k, j1, x)
  BY <1>2, <1>4 DEF FromJob, Taken
<1>7. u \in Accepted =>
        \A q : q.rip = p.rip + 2 /\ q.stack = p.stack /\ q.rax = "address" =>
          Runs(c, q, k, j1, r)
  BY <1>2, <1>4, Places DEF Runs, InStub, Taken
<1>8. p.stack \in StacksAt(p.rip)
  BY <1>2, JobStacks, Places
<1>9. PICK q \in Registers, x \in Exceptions, l \in {NULL} \cup Accepted :
        /\ cpu' = [cpu EXCEPT ![c] = q] /\ raised' = [raised EXCEPT ![c] = x]
        /\ loaded' = [loaded EXCEPT ![c] = l] /\ CoreFine(c, q, k, j1, x)
  BY <1>1, <1>4, <1>5, <1>6, <1>7, <1>8, WrmsrFine
<1>10. boot = "wait" /\ c = req.core /\ Uses(cpu[c], job[c]) => Uses(q, j1)
  BY <1>1, <1>2, <1>3, <1>4 DEF CoreInv, UseInv, Uses
<1> QED
  BY <1>1, <1>4, <1>5, <1>9, <1>10, CoreUpdate, CoreSame

LEMMA RestoreKeeps ==
  ASSUME SlotInv, CoreInv, NEW c \in Cores, Restore(c)
  PROVE  CoreInv'
<1>1. PICK p \in Registers, k \in Contexts, j \in Jobs, r \in Exceptions :
        /\ p = cpu[c] /\ k = context[c] /\ j = job[c] /\ r = raised[c]
        /\ j.state = "running" /\ InStub(p, k, j)
  BY AtStub DEF Restore, At
<1>2. p.rip = RestoreUpdate /\ p.stack = JobStack /\ TestRight(k, j)
  BY <1>1 DEF Restore, At, InStub
<1>3. Wrmsr(c, NULL) /\ context' = context /\ job' = job /\ UNCHANGED <<slots, serving>>
  BY DEF Restore, BootKeeps
<1>4. \A x : x.vector = 13 /\ x.rip = p.rip => FromJob(k, j, x)
  BY <1>2 DEF FromJob
<1>5. p.stack \in StacksAt(p.rip)
  BY <1>2, JobStacks, Places
<1>6. PICK q \in Registers, x \in Exceptions, l \in {NULL} \cup Accepted :
        /\ cpu' = [cpu EXCEPT ![c] = q] /\ raised' = [raised EXCEPT ![c] = x]
        /\ loaded' = [loaded EXCEPT ![c] = l] /\ CoreFine(c, q, k, j, x)
  BY <1>1, <1>3, <1>4, <1>5, WrmsrFine, NoUpdateAtNull
<1>7. Uses(cpu[c], job[c]) => Uses(q, j)
  BY <1>1, <1>2, Places DEF Uses
<1> QED
  BY <1>1, <1>3, <1>6, <1>7, CoreUpdate, CoreSame

LEMMA StoreResultKeeps ==
  ASSUME SlotInv, CoreInv, NEW c \in Cores, StoreResult(c)
  PROVE  CoreInv'
<1>1. PICK p \in Registers, k \in Contexts, j \in Jobs, r \in Exceptions :
        /\ p = cpu[c] /\ k = context[c] /\ j = job[c] /\ r = raised[c]
        /\ j.state = "running" /\ InStub(p, k, j)
  BY AtStub DEF StoreResult, At
<1>2. /\ p.rip = Applied /\ p.stack = JobStack /\ k.func \in {"apply", "test"}
      /\ j.used.code = NULL /\ p.rax = IF Taken(j) THEN "address" ELSE "dead"
  BY <1>1, Places DEF StoreResult, At, InStub
<1>3. PICK x \in {CallCode, RestoreUpdate, StubReturn} : x = AfterApply(c)
  BY DEF AfterApply
<1>4. /\ k.func = "test" => x = IF Taken(j) THEN CallCode ELSE StubReturn
      /\ k.func = "apply" => x # CallCode
  BY <1>1, <1>2, <1>3, Places DEF AfterApply
<1>10. PICK q : q = [p EXCEPT !.r9 = p.rax, !.rax = "ticks", !.rip = x]
  OBVIOUS
<1>5. q \in Registers /\ q.rip = x /\ q.stack = JobStack
  <2>1. x \in Nat
    BY DEF CallCode, RestoreUpdate, StubReturn
  <2> QED
    BY <1>2, <1>10, <2>1 DEF Registers
<1>11. PICK k1 : k1 = [k EXCEPT !.ret_gpf_value = p.rax]
  OBVIOUS
<1>6. /\ k1 \in Contexts /\ k1.func = k.func /\ k1.ucode = k.ucode /\ k1.code = k.code
      /\ k1.ret_gpf_value = p.rax
  <2>1. p.rax \in {"zero", "address", "dead"}
    BY <1>2
  <2> QED
    BY <1>11, <2>1 DEF Contexts
<1>12. PICK l \in {NULL} \cup Accepted : loaded = [loaded EXCEPT ![c] = l]
  BY CoreIs, CoreSame
<1>7. /\ cpu' = [cpu EXCEPT ![c] = q] /\ context' = [context EXCEPT ![c] = k1]
      /\ loaded' = [loaded EXCEPT ![c] = l] /\ job' = [job EXCEPT ![c] = j]
      /\ raised' = [raised EXCEPT ![c] = r] /\ UNCHANGED <<slots, serving>>
  <2>1. /\ cpu' = [cpu EXCEPT ![c] = q] /\ context' = [context EXCEPT ![c] = k1]
        /\ loaded' = loaded /\ job' = job /\ raised' = raised /\ UNCHANGED <<slots, serving>>
    BY <1>1, <1>3, <1>10, <1>11 DEF StoreResult, BootKeeps
  <2> QED
    BY <1>1, <1>12, <2>1, CoreSame
<1>8. CASE x = CallCode
  <2>1. InStub(q, k1, j)
    BY <1>2, <1>4, <1>5, <1>6, <1>8, Places DEF InStub
  <2>2. CoreFine(c, q, k1, j, r)
    BY <1>1, <2>1 DEF CoreFine, Runs
  <2>3. Uses(cpu[c], job[c]) => Uses(q, j)
    BY <1>1, <1>2, Places DEF Uses
  <2> QED
    BY <1>1, <1>5, <1>6, <1>7, <2>2, <2>3, CoreUpdate
<1>9. CASE x # CallCode
  <2>1. TestRight(k1, j)
    BY <1>2, <1>4, <1>6, <1>9 DEF TestRight, Taken
  <2>2. InStub(q, k1, j)
    BY <1>3, <1>5, <1>9, <2>1, Places DEF InStub
  <2>3. CoreFine(c, q, k1, j, r)
    BY <1>1, <2>2 DEF CoreFine, Runs
  <2>4. Uses(cpu[c], job[c]) => Uses(q, j)
    BY <1>1, <1>2, Places DEF Uses
  <2> QED
    BY <1>1, <1>5, <1>6, <1>7, <2>3, <2>4, CoreUpdate
<1> QED
  BY <1>8, <1>9

\* CoreUpdate where the processor has neither loaded nor raised anything.
LEMMA CoreGoesOn ==
  ASSUME SlotInv, CoreInv, NEW c \in Cores, UNCHANGED <<slots, serving, loaded, raised>>,
         NEW p \in Registers, NEW k \in Contexts, NEW j \in Jobs,
         cpu' = [cpu EXCEPT ![c] = p], context' = [context EXCEPT ![c] = k],
         job' = [job EXCEPT ![c] = j], CoreFine(c, p, k, j, raised[c]),
         k.func = context[c].func, k.ucode = context[c].ucode, k.code = context[c].code,
         j.asked = job[c].asked, j.state # "none",
         boot = "wait" /\ c = req.core /\ Uses(cpu[c], job[c]) => Uses(p, j)
  PROVE  CoreInv'
<1>1. PICK r \in Exceptions, l \in {NULL} \cup Accepted : r = raised[c] /\ l = loaded[c]
  BY CoreIs
<1>2. raised' = [raised EXCEPT ![c] = r] /\ loaded' = [loaded EXCEPT ![c] = l]
  BY <1>1, CoreSame
<1>3. UNCHANGED <<slots, serving>>
  OBVIOUS
<1> QED
  BY <1>1, <1>2, <1>3, CoreUpdate, ZenonT(30)

LEMMA CallKeeps ==
  ASSUME SlotInv, CoreInv, NEW c \in Cores, CallMachineCode(c)
  PROVE  CoreInv'
<1>1. PICK p \in Registers, k \in Contexts, j \in Jobs, r \in Exceptions :
        /\ p = cpu[c] /\ k = context[c] /\ j = job[c] /\ r = raised[c]
        /\ j.state = "running" /\ InStub(p, k, j)
  BY AtStub DEF CallMachineCode, At
<1>2. /\ p.rip = CallCode /\ p.stack = JobStack /\ k.func \in {"test", "execute"}
      /\ k.func = "test" => Taken(j) /\ k.ret_gpf_value = "address"
  BY <1>1, Places DEF CallMachineCode, At, InStub
<1>3. PICK image \in Images : image = machine_codes[k.code].machine_code
  <2>1. k.code \in CodeSlots
    BY DEF Contexts
  <2>2. machine_codes[k.code].machine_code \in {NULL} \cup Images
    BY <2>1 DEF SlotInv, SlotTypes
  <2>3. machine_codes[k.code].machine_code # NULL
    BY <1>1, <1>2 DEF CoreInv, CodeThere
  <2> QED
    BY <2>2, <2>3
<1>4. PICK back \in {RestoreUpdate, StubReturn} :
        back = IF k.func = "test" /\ k.restore THEN RestoreUpdate ELSE StubReturn
  OBVIOUS
<1>5. PICK q : q = Push(p, back, Code)
  OBVIOUS
<1>6. q \in Registers /\ q.rip = Code /\ q.stack \in StacksAt(Code)
  <2>1. PICK s \in StacksAt(Code) : s = <<back>> \o JobStack
    BY DEF StacksAt
  <2>2. s \in Seq(Nat)
    BY JobStacks
  <2>3. q = [p EXCEPT !.stack = s, !.rip = Code]
    BY <1>2, <1>5, <2>1 DEF Push
  <2>4. Code \in Nat
    BY DEF Code
  <2> QED
    BY <2>2, <2>3, <2>4 DEF Registers
<1>7. PICK j1 : j1 = [j EXCEPT !.used.code = image]
  OBVIOUS
<1>8. /\ j1 \in Jobs /\ j1.state = "running" /\ j1.asked = j.asked
      /\ j1.used = [ucode |-> j.used.ucode, code |-> image]
  BY <1>1, <1>3, <1>7 DEF Jobs, Use
<1>9. /\ cpu' = [cpu EXCEPT ![c] = q] /\ context' = context /\ job' = [job EXCEPT ![c] = j1]
      /\ UNCHANGED <<slots, serving, loaded, raised>>
  BY <1>1, <1>3, <1>4, <1>5, <1>7 DEF CallMachineCode, BootKeeps
<1>10. CoreFine(c, q, k, j1, r)
  <2>1. TestRight(k, j1)
    BY <1>2, <1>3, <1>8, Contents DEF TestRight, Taken
  <2> QED
    BY <1>6, <1>8, <2>1 DEF CoreFine, Runs
<1>11. boot = "wait" /\ c = req.core /\ Uses(cpu[c], job[c]) => Uses(q, j1)
  <2>1. SUFFICES ASSUME boot = "wait", c = req.core, Uses(p, j) PROVE Uses(q, j1)
    BY <1>1
  <2>2. j.asked.code = image
    BY <1>1, <1>2, <1>3, <2>1 DEF CoreInv, UseInv
  <2>3. j.used.ucode = j.asked.ucode
    BY <1>1, <1>2, <2>1, Places DEF Uses
  <2> QED
    BY <1>8, <2>2, <2>3 DEF Uses
<1> QED
  BY <1>1, <1>6, <1>8, <1>9, <1>10, <1>11, CoreGoesOn, CoreSame

LEMMA AfterRestoreKeeps ==
  ASSUME SlotInv, CoreInv, NEW c \in Cores, AfterRestore(c)
  PROVE  CoreInv'
<1>1. PICK p \in Registers, k \in Contexts, j \in Jobs, r \in Exceptions :
        /\ p = cpu[c] /\ k = context[c] /\ j = job[c] /\ r = raised[c]
        /\ j.state = "running" /\ InStub(p, k, j)
  BY AtStub DEF AfterRestore, At
<1>2. p.rip = Restored /\ p.stack = JobStack /\ TestRight(k, j)
  BY <1>1 DEF AfterRestore, At, InStub
<1>3. PICK x \in {"address", "dead", "ticks", "other"} :
        x = IF k.func = "apply" THEN p.rax ELSE "ticks"
  BY DEF Registers
<1>4. PICK q : q = [p EXCEPT !.r9 = p.rax, !.rip = StubReturn, !.rax = x]
  OBVIOUS
<1>5. q \in Registers /\ q.rip = StubReturn /\ q.stack = JobStack
  <2>1. StubReturn \in Nat
    BY DEF StubReturn
  <2> QED
    BY <1>2, <1>4, <2>1 DEF Registers
<1>6. /\ cpu' = [cpu EXCEPT ![c] = q] /\ context' = context /\ job' = job
      /\ UNCHANGED <<slots, serving, loaded, raised>>
  BY <1>1, <1>3, <1>4 DEF AfterRestore, BootKeeps
<1>7. CoreFine(c, q, k, j, r)
  <2>1. InStub(q, k, j)
    BY <1>2, <1>5, Places DEF InStub
  <2> QED
    BY <1>1, <2>1 DEF CoreFine, Runs
<1>8. Uses(p, j) => Uses(q, j)
  BY <1>1, <1>2, Places DEF Uses
<1> QED
  BY <1>1, <1>5, <1>6, <1>7, <1>8, CoreGoesOn, CoreSame

LEMMA FinishJobKeeps ==
  ASSUME SlotInv, CoreInv, NEW c \in Cores, FinishJob(c)
  PROVE  CoreInv'
<1>1. PICK p \in Registers, k \in Contexts, j \in Jobs, r \in Exceptions :
        /\ p = cpu[c] /\ k = context[c] /\ j = job[c] /\ r = raised[c]
        /\ j.state = "running" /\ InStub(p, k, j)
  BY AtStub DEF FinishJob, At
<1>2. p.rip = StubReturn /\ p.stack = JobStack /\ TestRight(k, j)
  BY <1>1 DEF FinishJob, At, InStub
<1>3. PICK q : q = [p EXCEPT !.rip = MainLoop, !.stack = <<>>]
  OBVIOUS
<1>4. q \in Registers /\ q.rip = MainLoop /\ q.stack = <<>>
  <2>1. MainLoop \in Nat
    BY DEF MainLoop
  <2>5. <<>> \in Seq(Nat)
    OBVIOUS
  <2>2. PICK empty \in Seq(Nat) : empty = <<>>
    BY <2>5
  <2>3. q = [p EXCEPT !.rip = MainLoop, !.stack = empty]
    BY <1>3, <2>2
  <2>4. q \in Registers /\ q.rip = MainLoop /\ q.stack = empty
    BY <2>1, <2>3 DEF Registers
  <2> QED
    BY <2>2, <2>4
<1>5. PICK j1 : j1 = [j EXCEPT !.state = "done"]
  OBVIOUS
<1>6. j1 \in Jobs /\ j1.state = "done" /\ j1.asked = j.asked /\ j1.used = j.used
  BY <1>5 DEF Jobs
<1>7. /\ cpu' = [cpu EXCEPT ![c] = q] /\ context' = context /\ job' = [job EXCEPT ![c] = j1]
      /\ UNCHANGED <<slots, serving, loaded, raised>>
  <2>1. cpu' = [cpu EXCEPT ![c] = [p EXCEPT !.rip = MainLoop, !.stack = Behind(p.stack, 2)]]
    BY <1>1 DEF FinishJob
  <2> QED
    BY <1>1, <1>2, <1>3, <1>5, <2>1, JobStacks DEF FinishJob, BootKeeps
<1>8. CoreFine(c, q, k, j1, r)
  BY <1>2, <1>4, <1>6 DEF CoreFine, TestRight, Taken
<1>9. Uses(p, j) => Uses(q, j1)
  BY <1>1, <1>2, <1>6, Places DEF Uses
<1> QED
  BY <1>1, <1>4, <1>6, <1>7, <1>8, <1>9, CoreGoesOn, CoreSame

\* An AP in a handler.
LEMMA AtHandler ==
  ASSUME CoreInv, NEW c \in Cores, NEW h \in 0 .. Fallback,
         cpu[c].rip = Entry(h) \/ cpu[c].rip = IretAt(h)
  PROVE  \E p \in Registers, k \in Contexts, j \in Jobs, r \in Exceptions,
            s \in StacksAt(raised[c].rip) :
           /\ p = cpu[c] /\ k = context[c] /\ j = job[c] /\ r = raised[c]
           /\ j.state = "running" /\ c # 0 /\ FromJob(k, j, r) /\ r.vector \in Nat
           /\ r.rip # CODE_SEGMENT /\ s \in Seq(Nat) /\ Handling(p, k.fault_info, r, s)
<1>1. PICK p \in Registers, k \in Contexts, j \in Jobs, r \in Exceptions :
        p = cpu[c] /\ k = context[c] /\ j = job[c] /\ r = raised[c] /\ CoreFine(c, p, k, j, r)
  BY CoreIs
<1>2. InHandlers(p.rip)
  BY <1>1, HandlerPlaces
<1>3. j.state = "running" /\ c # 0 /\ InFault(p, k, j, r)
  BY <1>1, <1>2, AtPlaces, Places
<1>4. FromJob(k, j, r) /\ r.vector \in Nat /\ r.rip # CODE_SEGMENT
  BY <1>3, InFaultPlace, Places DEF InFault, FromJob
<1>5. PICK s \in StacksAt(r.rip) : Handling(p, k.fault_info, r, s)
  BY <1>3 DEF InFault
<1>6. s \in Seq(Nat)
  BY <1>5, JobStacks
<1> QED
  BY <1>1, <1>3, <1>4, <1>5, <1>6

LEMMA HandlerRunsKeeps ==
  ASSUME SlotInv, CoreInv, NEW c \in Cores, HandlerRuns(c)
  PROVE  CoreInv'
<1>1. PICK h \in 0 .. Fallback : cpu[c].rip = Entry(h)
  BY DEF HandlerRuns, At
<1>2. PICK p \in Registers, k \in Contexts, j \in Jobs, r \in Exceptions,
           s \in StacksAt(raised[c].rip) :
        /\ p = cpu[c] /\ k = context[c] /\ j = job[c] /\ r = raised[c]
        /\ j.state = "running" /\ c # 0 /\ FromJob(k, j, r) /\ r.vector \in Nat
        /\ r.rip # CODE_SEGMENT /\ s \in Seq(Nat) /\ Handling(p, k.fault_info, r, s)
  BY <1>1, AtHandler
<1>3. PICK q : q = HandlerBody(p)
  OBVIOUS
<1>4. PICK i : i = HandlerNotes(p)
  OBVIOUS
<1>5. q \in Registers /\ i \in Report /\ Handling(q, i, r, s)
  BY <1>1, <1>2, <1>3, <1>4, BodyHandles
<1>6. PICK k1 : k1 = [k EXCEPT !.fault_info = i]
  OBVIOUS
<1>7. /\ k1 \in Contexts /\ k1.func = k.func /\ k1.ucode = k.ucode /\ k1.code = k.code
      /\ k1.ret_gpf_value = k.ret_gpf_value /\ k1.fault_info = i
  BY <1>5, <1>6 DEF Contexts
<1>8. /\ cpu' = [cpu EXCEPT ![c] = q] /\ context' = [context EXCEPT ![c] = k1] /\ job' = job
      /\ UNCHANGED <<slots, serving, loaded, raised>>
  BY <1>2, <1>3, <1>4, <1>6 DEF HandlerRuns, BootKeeps
<1>9. CoreFine(c, q, k1, j, r)
  <2>1. FromJob(k1, j, r)
    BY <1>2, <1>7 DEF FromJob, TestRight
  <2>2. InFault(q, k1, j, r)
    BY <1>2, <1>5, <1>7, <2>1 DEF InFault
  <2> QED
    BY <1>2, <2>2 DEF CoreFine, Runs
<1>10. Uses(p, j) => Uses(q, j)
  BY <1>1, <1>2, HandlerPlaces, Places DEF Uses
<1> QED
  BY <1>2, <1>5, <1>7, <1>8, <1>9, <1>10, CoreGoesOn, CoreSame

LEMMA HandlerReturnsKeeps ==
  ASSUME SlotInv, CoreInv, NEW c \in Cores, HandlerReturns(c)
  PROVE  CoreInv'
<1>1. PICK h \in 0 .. Fallback : cpu[c].rip = IretAt(h)
  BY DEF HandlerReturns, At
<1>2. PICK p \in Registers, k \in Contexts, j \in Jobs, r \in Exceptions,
           s \in StacksAt(raised[c].rip) :
        /\ p = cpu[c] /\ k = context[c] /\ j = job[c] /\ r = raised[c]
        /\ j.state = "running" /\ c # 0 /\ FromJob(k, j, r) /\ r.vector \in Nat
        /\ r.rip # CODE_SEGMENT /\ s \in Seq(Nat) /\ Handling(p, k.fault_info, r, s)
  BY <1>1, AtHandler
<1>3. PICK q : q = Iretq(p)
  OBVIOUS
<1>10. PICK i : i = k.fault_info
  OBVIOUS
<1>4. PICK last : last = LastHandler(r.vector)
  OBVIOUS
<1>5. /\ q \in Registers
      /\ (InHandlers(q.rip) /\ Handling(q, i, r, s)) \/ Handled(q, i, r, s)
  <2>1. p.rip = IretAt(h)
    BY <1>1, <1>2
  <2>2. Handling(p, i, r, s)
    BY <1>2, <1>10
  <2> QED
    BY <1>2, <1>3, <2>1, <2>2, IretHandles
<1>6. /\ cpu' = [cpu EXCEPT ![c] = q] /\ context' = context /\ job' = job
      /\ UNCHANGED <<slots, serving, loaded, raised>>
  BY <1>2, <1>3 DEF HandlerReturns, BootKeeps
<1>7. Runs(c, q, k, j, r)
  <2>1. CASE Handling(q, i, r, s)
    BY <1>2, <1>10, <2>1 DEF Runs, InFault
  <2>2. CASE Handled(q, i, r, s) /\ last = 13
    <3>1. q.rip = r.rip + 2 /\ q.stack = s /\ q.rax = "dead"
      BY <1>4, <2>2 DEF Handled, Leads
    <3> QED
      BY <1>2, <3>1, ResumeFine
  <2>3. CASE Handled(q, i, r, s) /\ last # 13
    BY <1>2, <1>4, <2>3 DEF Runs, Handled, Leads
  <2> QED
    BY <1>5, <2>1, <2>2, <2>3
<1>8. CoreFine(c, q, k, j, r)
  BY <1>2, <1>7 DEF CoreFine
<1>9. Uses(p, j) => Uses(q, j)
  BY <1>1, <1>2, HandlerPlaces, Places DEF Uses
<1> QED
  BY <1>2, <1>5, <1>6, <1>8, <1>9, CoreGoesOn, CoreSame

LEMMA RecoverKeeps ==
  ASSUME SlotInv, CoreInv, NEW c \in Cores, RecoverCore(c)
  PROVE  CoreInv'
<1>1. PICK p \in Registers, k \in Contexts, j \in Jobs, r \in Exceptions :
        p = cpu[c] /\ k = context[c] /\ j = job[c] /\ r = raised[c] /\ CoreFine(c, p, k, j, r)
  BY CoreIs
<1>2. p.rip = Recovery /\ j.state = "running"
  BY <1>1, AtPlaces, Places DEF RecoverCore, At
<1>3. PICK q : q = [p EXCEPT !.rip = MainLoop, !.stack = <<>>]
  OBVIOUS
<1>4. q \in Registers /\ q.rip = MainLoop /\ q.stack = <<>>
  <2>1. MainLoop \in Nat
    BY DEF MainLoop
  <2>5. <<>> \in Seq(Nat)
    OBVIOUS
  <2>2. PICK empty \in Seq(Nat) : empty = <<>>
    BY <2>5
  <2>3. q = [p EXCEPT !.rip = MainLoop, !.stack = empty]
    BY <1>3, <2>2
  <2>4. q \in Registers /\ q.rip = MainLoop /\ q.stack = empty
    BY <2>1, <2>3 DEF Registers
  <2> QED
    BY <2>2, <2>4
<1>5. PICK j1 : j1 = [j EXCEPT !.state = "aborted"]
  OBVIOUS
<1>6. j1 \in Jobs /\ j1.state = "aborted" /\ j1.asked = j.asked /\ j1.used = j.used
  BY <1>5 DEF Jobs
<1>7. /\ cpu' = [cpu EXCEPT ![c] = q] /\ context' = context /\ job' = [job EXCEPT ![c] = j1]
      /\ UNCHANGED <<slots, serving, loaded, raised>>
  BY <1>1, <1>3, <1>5 DEF RecoverCore, Recover, BootKeeps
<1>8. CoreFine(c, q, k, j1, r)
  BY <1>4, <1>6 DEF CoreFine
<1>9. Uses(p, j) => Uses(q, j1)
  BY <1>1, <1>2, <1>6, Places DEF Uses
<1> QED
  BY <1>1, <1>4, <1>6, <1>7, <1>8, <1>9, CoreGoesOn, CoreSame

\* A core in machine code.
LEMMA AtCode ==
  ASSUME CoreInv, NEW c \in Cores, InCode(c)
  PROVE  \E p \in Registers, k \in Contexts, j \in Jobs, r \in Exceptions :
           /\ p = cpu[c] /\ k = context[c] /\ j = job[c] /\ r = raised[c]
           /\ j.state = "running" /\ p.stack \in StacksAt(Code) /\ TestRight(k, j)
           /\ p.rip \in {Code, Code + 2}
<1>1. PICK p \in Registers, k \in Contexts, j \in Jobs, r \in Exceptions :
        p = cpu[c] /\ k = context[c] /\ j = job[c] /\ r = raised[c] /\ CoreFine(c, p, k, j, r)
  BY CoreIs
<1>2. p.rip \in {Code, Code + 2} /\ p.rip # MainLoop
  BY <1>1, Places DEF InCode
<1> QED
  BY <1>1, <1>2, AtPlaces

LEMMA CodeReturnsKeeps ==
  ASSUME SlotInv, CoreInv, NEW c \in Cores, CodeReturns(c)
  PROVE  CoreInv'
<1>1. PICK p \in Registers, k \in Contexts, j \in Jobs, r \in Exceptions :
        /\ p = cpu[c] /\ k = context[c] /\ j = job[c] /\ r = raised[c]
        /\ j.state = "running" /\ p.stack \in StacksAt(Code) /\ TestRight(k, j)
        /\ p.rip \in {Code, Code + 2}
  BY AtCode DEF CodeReturns
<1>2. PICK back \in {RestoreUpdate, StubReturn} : back = p.stack[1]
  BY <1>1, JobStacks
<1>3. Behind(p.stack, 1) = JobStack
  BY <1>1, JobStacks
<1>4. PICK q : q = [p EXCEPT !.rip = back, !.stack = JobStack]
  OBVIOUS
<1>5. q \in Registers /\ q.rip = back /\ q.stack = JobStack
  <2>1. back \in Nat
    BY DEF RestoreUpdate, StubReturn
  <2>2. JobStack \in Seq(Nat)
    BY JobStacks
  <2> QED
    BY <1>4, <2>1, <2>2 DEF Registers
<1>6. /\ cpu' = [cpu EXCEPT ![c] = q] /\ context' = context /\ job' = job
      /\ UNCHANGED <<slots, serving, loaded, raised>>
  <2>1. cpu' = [cpu EXCEPT ![c] = [p EXCEPT !.rip = p.stack[1], !.stack = Behind(p.stack, 1)]]
    BY <1>1 DEF CodeReturns
  <2> QED
    BY <1>2, <1>3, <1>4, <2>1 DEF CodeReturns, BootKeeps
<1>7. CoreFine(c, q, k, j, r)
  <2>1. InStub(q, k, j)
    BY <1>1, <1>5, Places DEF InStub
  <2> QED
    BY <1>1, <2>1 DEF CoreFine, Runs
<1>8. Uses(p, j) => Uses(q, j)
  BY <1>1, Places DEF Uses
<1> QED
  BY <1>1, <1>5, <1>6, <1>7, <1>8, CoreGoesOn, CoreSame

LEMMA CodeRaisesKeeps ==
  ASSUME SlotInv, CoreInv, NEW c \in Cores, CodeRaises(c)
  PROVE  CoreInv'
<1>1. PICK p \in Registers, k \in Contexts, j \in Jobs, r \in Exceptions :
        /\ p = cpu[c] /\ k = context[c] /\ j = job[c] /\ r = raised[c]
        /\ j.state = "running" /\ p.stack \in StacksAt(Code) /\ TestRight(k, j)
        /\ p.rip \in {Code, Code + 2}
  BY AtCode DEF CodeRaises, At, InCode
<1>2. p.rip = Code
  BY <1>1 DEF CodeRaises, At
<1>3. PICK v \in Nat : Raises(c, v)
  BY Contents DEF CodeRaises
<1>4. PICK x : x = [vector |-> v, rip |-> p.rip, depth |-> Len(p.stack)]
  OBVIOUS
<1>5. PICK q : q = IF c = 0 THEN FaultOnCore0(p, v) ELSE Fault(p, v)
  OBVIOUS
<1>6. /\ cpu' = [cpu EXCEPT ![c] = q] /\ raised' = [raised EXCEPT ![c] = x]
      /\ UNCHANGED <<slots, serving, loaded, context, job>>
  BY <1>1, <1>3, <1>4, <1>5 DEF CodeRaises, Raises, BootKeeps
<1>7. FromJob(k, j, x)
  BY <1>1, <1>2, <1>4 DEF FromJob
<1>8. q \in Registers /\ x \in Exceptions /\ CoreFine(c, q, k, j, x)
  BY <1>1, <1>2, <1>4, <1>5, <1>7, RaisesFine
<1>9. Uses(p, j) => Uses(q, j)
  BY <1>2, Places DEF Uses
<1>10. PICK l \in {NULL} \cup Accepted : l = loaded[c]
  BY CoreIs
<1>11. /\ context' = [context EXCEPT ![c] = k] /\ job' = [job EXCEPT ![c] = j]
       /\ loaded' = [loaded EXCEPT ![c] = l] /\ UNCHANGED <<slots, serving>>
  BY <1>1, <1>6, <1>10, CoreSame
<1> QED
  BY <1>1, <1>6, <1>8, <1>9, <1>11, CoreUpdate

LEMMA CodeAppliesKeeps ==
  ASSUME SlotInv, CoreInv, NEW c \in Cores, CodeApplies(c)
  PROVE  CoreInv'
<1>1. PICK p \in Registers, k \in Contexts, j \in Jobs, r \in Exceptions :
        /\ p = cpu[c] /\ k = context[c] /\ j = job[c] /\ r = raised[c]
        /\ j.state = "running" /\ p.stack \in StacksAt(Code) /\ TestRight(k, j)
        /\ p.rip \in {Code, Code + 2}
  BY AtCode DEF CodeApplies, At, InCode
<1>2. p.rip = Code
  BY <1>1 DEF CodeApplies, At
<1>3. PICK u : Wrmsr(c, u)
  BY DEF CodeApplies
<1>4. \A x : x.vector = 13 /\ x.rip = p.rip => FromJob(k, j, x)
  BY <1>1, <1>2 DEF FromJob
<1>5. \A q : q.rip = p.rip + 2 /\ q.stack = p.stack /\ q.rax = "address" => Runs(c, q, k, j, r)
  BY <1>1, <1>2 DEF Runs
<1>6. PICK q \in Registers, x \in Exceptions, l \in {NULL} \cup Accepted :
        /\ cpu' = [cpu EXCEPT ![c] = q] /\ raised' = [raised EXCEPT ![c] = x]
        /\ loaded' = [loaded EXCEPT ![c] = l] /\ CoreFine(c, q, k, j, x)
  BY <1>1, <1>2, <1>3, <1>4, <1>5, WrmsrFine
<1>7. context' = context /\ job' = job /\ UNCHANGED <<slots, serving>>
  BY DEF CodeApplies, BootKeeps
<1>8. Uses(p, j) => Uses(q, j)
  BY <1>2, Places DEF Uses
<1> QED
  BY <1>1, <1>6, <1>7, <1>8, CoreUpdate, CoreSame

LEMMA CodeGoesOnKeeps ==
  ASSUME SlotInv, CoreInv, NEW c \in Cores, CodeGoesOn(c)
  PROVE  CoreInv'
<1>1. PICK p \in Registers, k \in Contexts, j \in Jobs, r \in Exceptions :
        /\ p = cpu[c] /\ k = context[c] /\ j = job[c] /\ r = raised[c]
        /\ j.state = "running" /\ p.stack \in StacksAt(Code) /\ TestRight(k, j)
        /\ p.rip \in {Code, Code + 2}
  BY AtCode DEF CodeGoesOn, At, InCode
<1>2. PICK q : q = [p EXCEPT !.rip = Code]
  OBVIOUS
<1>3. q \in Registers /\ q.rip = Code /\ q.stack = p.stack
  BY <1>2 DEF Registers, Code
<1>4. /\ cpu' = [cpu EXCEPT ![c] = q] /\ context' = context /\ job' = job
      /\ UNCHANGED <<slots, serving, loaded, raised>>
  BY <1>1, <1>2 DEF CodeGoesOn, Jump, BootKeeps
<1>5. CoreFine(c, q, k, j, r)
  BY <1>1, <1>3 DEF CoreFine, Runs
<1>6. Uses(p, j) => Uses(q, j)
  BY <1>1, Places DEF Uses
<1> QED
  BY <1>1, <1>3, <1>4, <1>5, <1>6, CoreGoesOn, CoreSame

\* Whatever a core does by itself.
LEMMA CoreStepKeeps ==
  ASSUME SlotInv, CoreInv, NEW c \in Cores, CoreMoves(c) \/ CodeStep(c)
  PROVE  CoreInv'
<1>1. CASE StartJob(c) \/ Apply(c) \/ StoreResult(c) \/ CallMachineCode(c)
  BY <1>1, StartKeeps, ApplyKeeps, StoreResultKeeps, CallKeeps
<1>2. CASE Restore(c) \/ AfterRestore(c) \/ FinishJob(c)
  BY <1>2, RestoreKeeps, AfterRestoreKeeps, FinishJobKeeps
<1>3. CASE HandlerRuns(c) \/ HandlerReturns(c) \/ RecoverCore(c)
  BY <1>3, HandlerRunsKeeps, HandlerReturnsKeeps, RecoverKeeps
<1>4. CASE CodeStep(c)
  BY <1>4, CodeReturnsKeeps, CodeRaisesKeeps, CodeAppliesKeeps, CodeGoesOnKeeps DEF CodeStep
<1> QED
  BY <1>1, <1>2, <1>3, <1>4 DEF CoreMoves

-----------------------------------------------------------------------------
(* The steps of core 0 that are not about its job. *)

LEMMA CoreInvBegins == Init => CoreInv
<1> SUFFICES ASSUME Init PROVE CoreInv
  OBVIOUS
<1>1. PICK p : p = [rip |-> MainLoop, stack |-> <<>>, rax |-> "other", r9 |-> "other"]
  OBVIOUS
<1>2. p \in Registers /\ p.rip = MainLoop /\ p.stack = <<>>
  <2>1. MainLoop \in Nat
    BY DEF MainLoop
  <2>2. <<>> \in Seq(Nat)
    OBVIOUS
  <2>3. PICK empty \in Seq(Nat) : empty = <<>>
    BY <2>2
  <2>4. p = [rip |-> MainLoop, stack |-> empty, rax |-> "other", r9 |-> "other"]
    BY <1>1, <2>3
  <2> QED
    BY <2>1, <2>3, <2>4 DEF Registers
<1>3. PICK k : k = [func |-> "none", restore |-> FALSE, ucode |-> 0, code |-> 0,
                    ret_gpf_value |-> "zero", fault_info |-> NoFault]
  OBVIOUS
<1>4. k \in Contexts /\ k.func = "none"
  BY <1>3, TwoSlots DEF Contexts, NoFault, Report
<1>5. NoJob \in Jobs /\ NotRaised \in Exceptions
  BY DEF NoJob, Jobs, Unused, Use, NotRaised, Exceptions
<1>6. /\ cpu = [c \in Cores |-> p] /\ context = [c \in Cores |-> k]
      /\ job = [c \in Cores |-> NoJob] /\ raised = [c \in Cores |-> NotRaised]
      /\ loaded = [c \in Cores |-> NULL] /\ boot = "init"
  BY <1>1, <1>3 DEF Init
<1>7. CoreTypes
  BY <1>2, <1>4, <1>5, <1>6 DEF CoreTypes
<1>8. \A c : CoreFine(c, p, k, NoJob, NotRaised)
  BY <1>2 DEF CoreFine, NoJob
<1>9. CoresFine /\ CodeThere /\ UseInv
  BY <1>4, <1>6, <1>8 DEF CoresFine, CodeThere, UseInv
<1> QED
  BY <1>7, <1>9 DEF CoreInv

LEMMA CoresLeft ==
  ASSUME CoreInv, UNCHANGED cores, boot' # "wait",
         \A s \in CodeSlots : machine_codes[s].machine_code # NULL =>
                                machine_codes'[s].machine_code # NULL
  PROVE  CoreInv'
<1>1. UNCHANGED <<cpu, loaded, context, job, raised>>
  BY DEF cores
<1>2. CoreTypes' /\ CoresFine'
  BY <1>1 DEF CoreInv, CoreTypes, CoresFine
<1>3. \A c \in Cores : context[c].code \in CodeSlots
  BY DEF CoreInv, CoreTypes, Contexts
<1>4. CodeThere'
  BY <1>1, <1>3 DEF CoreInv, CodeThere
<1>5. UseInv'
  BY DEF UseInv
<1> QED
  BY <1>2, <1>4, <1>5 DEF CoreInv

LEMMA ImageStays ==
  ASSUME SlotInv, SendCode
  PROVE  \A s \in CodeSlots : machine_codes[s].machine_code # NULL =>
                                machine_codes'[s].machine_code # NULL
<1>1. req \in Request /\ req.op = "send_code" /\ req.slot \in CodeSlots
  BY DEF SlotInv, Serves, SendCode, Requested
<1>2. req.code # NULL
  BY <1>1, RequestIs, Contents
<1>3. PICK memory \in IF machine_codes[req.slot].machine_code = NULL
                      THEN Images ELSE {machine_codes[req.slot].machine_code} :
        machine_codes' = [machine_codes EXCEPT ![req.slot] =
          [machine_code |-> IF req.length = 0 THEN memory ELSE req.code,
           length |-> req.length]]
  BY DEF SendCode
<1>4. memory # NULL
  BY <1>3, Contents
<1>5. DOMAIN machine_codes = CodeSlots
  BY DEF SlotInv, SlotTypes
<1> QED
  BY <1>1, <1>2, <1>3, <1>4, <1>5

LEMMA ReceiveLeaves ==
  ASSUME SlotInv, Receive
  PROVE  boot' # "wait" /\ UNCHANGED <<cores, slots>>
<1>1. PICK r \in Request : boot' = r.op
  BY DEF Receive
<1> QED
  BY <1>1, RequestIs DEF Receive, CoresKeep, Requested

\* A job is queued on a free core, for slots that hold what is asked for.
LEMMA QueueFine ==
  ASSUME SlotInv, CoreInv, QueueJob
  PROVE  CoreInv'
<1>1. PICK c : c = req.core
  OBVIOUS
<1>2. /\ req \in Request /\ req.op = boot /\ req.op \in {"apply", "test", "execute"}
      /\ ~Missing /\ ~Busy(c) /\ (req.op = "apply" => req.slot \in Slots)
  BY <1>1 DEF QueueJob, IsJob, SlotInv, Serves, Requested
<1>3. /\ c \in Cores
      /\ req.op \in {"apply", "test"} => req.slot \in Slots /\ req.restore \in BOOLEAN
      /\ req.op \in {"test", "execute"} => /\ req.code \in CodeSlots
                                           /\ machine_codes[req.code].machine_code # NULL
  <2>1. c \in Cores /\ (req.op \in {"apply", "test"} => req.restore \in BOOLEAN)
    BY <1>1, <1>2, CoreZero DEF Request
  <2>2. req.op = "test" => req.slot \in Slots
    BY <1>2 DEF Missing, UcodeMissing
  <2>3. req.op \in {"test", "execute"} => ~CodeMissing
    BY <1>2 DEF Missing
  <2>4. req.op \in {"test", "execute"} => /\ req.code \in CodeSlots
                                          /\ machine_codes[req.code].machine_code # NULL
    BY <2>3 DEF CodeMissing, CodeEmpty
  <2> QED
    BY <1>2, <2>1, <2>2, <2>4
<1>4. PICK p \in Registers, k \in Contexts, j \in Jobs, r \in Exceptions :
        p = cpu[c] /\ k = context[c] /\ j = job[c] /\ r = raised[c] /\ CoreFine(c, p, k, j, r)
  BY <1>3, CoreIs
<1>5. p.rip = MainLoop /\ p.stack = <<>>
  BY <1>2, <1>4 DEF Busy, CoreFine
<1>6. PICK k1 : k1 = [func |-> req.op,
                      restore |-> IF req.op = "execute" THEN FALSE ELSE req.restore,
                      ucode |-> IF req.op = "execute" THEN k.ucode ELSE req.slot,
                      code |-> IF req.op = "apply" THEN k.code ELSE req.code,
                      ret_gpf_value |-> "zero", fault_info |-> k.fault_info]
  OBVIOUS
<1>7. /\ k1 \in Contexts /\ k1.func = req.op
      /\ k1.func # "execute" => k1.ucode = req.slot
      /\ k1.func # "apply" => k1.code = req.code
  BY <1>2, <1>3, <1>6 DEF Contexts
<1>8. PICK asked \in Use : asked = Asked(req)
  <2>1. req.op # "execute" => ucodes[req.slot].ucode \in {NULL} \cup SUBSET Bits
    BY <1>2, <1>3 DEF SlotInv, SlotTypes, Contained
  <2>2. req.op # "apply" => machine_codes[req.code].machine_code \in {NULL} \cup Images
    BY <1>2, <1>3 DEF SlotInv, SlotTypes
  <2>3. Asked(req) \in Use
    BY <2>1, <2>2 DEF Asked, Use
  <2> QED
    BY <2>3
<1>9. PICK j1 : j1 = [state |-> "queued", asked |-> asked, used |-> Unused]
  OBVIOUS
<1>10. j1 \in Jobs /\ j1.state = "queued" /\ j1.asked = asked /\ j1.used = Unused
  BY <1>9 DEF Jobs, Unused, Use
<1>11. /\ context' = [context EXCEPT ![c] = k1] /\ job' = [job EXCEPT ![c] = j1]
       /\ UNCHANGED <<slots, cpu, loaded, raised, req>>
  BY <1>1, <1>4, <1>6, <1>8, <1>9 DEF QueueJob, Queue
<1>12. CoreFine(c, p, k1, j1, r)
  BY <1>2, <1>5, <1>7, <1>10 DEF CoreFine
<1>13. /\ context \in [Cores -> Contexts] /\ job \in [Cores -> Jobs]
       /\ context' \in [Cores -> Contexts] /\ job' \in [Cores -> Jobs]
       /\ context'[c] = k1 /\ job'[c] = j1
       /\ \A d \in Cores : d # c => context'[d] = context[d] /\ job'[d] = job[d]
  <2>1. context \in [Cores -> Contexts] /\ job \in [Cores -> Jobs]
    BY DEF CoreInv, CoreTypes
  <2> QED
    BY <1>3, <1>7, <1>10, <1>11, <2>1
<1>14. CoreTypes'
  BY <1>11, <1>13 DEF CoreInv, CoreTypes
<1>15. CoresFine'
  <2>1. \A d \in Cores : CoreFine(d, cpu[d], context'[d], job'[d], raised[d])
    BY <1>4, <1>12, <1>13 DEF CoreInv, CoresFine
  <2> QED
    BY <1>11, <2>1 DEF CoresFine
<1>16. CodeThere'
  <2>1. ASSUME NEW d \in Cores, context'[d].func \in {"test", "execute"}
        PROVE  machine_codes[context'[d].code].machine_code # NULL
    <3>1. CASE d = c
      BY <1>2, <1>3, <1>7, <1>13, <2>1, <3>1
    <3>2. CASE d # c
      BY <1>13, <2>1, <3>2 DEF CoreInv, CodeThere
    <3> QED
      BY <3>1, <3>2
  <2> QED
    BY <1>11, <2>1 DEF CodeThere, slots
<1>17. UseInv'
  <2>1. j1.asked = [ucode |-> IF k1.func = "execute" THEN NULL ELSE ucodes[k1.ucode].ucode,
                    code |-> IF k1.func = "apply" THEN NULL
                             ELSE machine_codes[k1.code].machine_code]
    BY <1>7, <1>8, <1>10 DEF Asked
  <2>2. Uses(p, j1)
    BY <1>10 DEF Uses, Unused
  <2>3. cpu'[c] = p /\ req'.core = c /\ ucodes' = ucodes /\ machine_codes' = machine_codes
    BY <1>1, <1>4, <1>11 DEF slots
  <2> QED
    BY <1>2, <1>7, <1>10, <1>13, <2>1, <2>2, <2>3 DEF UseInv
<1> QED
  BY <1>14, <1>15, <1>16, <1>17 DEF CoreInv

LEMMA EndsFine ==
  ASSUME SlotInv, CoreInv, JobEnds
  PROVE  CoreInv'
<1>1. PICK c \in Cores : c = req.core
  BY CoreZero DEF SlotInv, Serves, JobEnds, Request
<1>2. PICK p \in Registers, k \in Contexts, j \in Jobs, r \in Exceptions :
        p = cpu[c] /\ k = context[c] /\ j = job[c] /\ r = raised[c] /\ CoreFine(c, p, k, j, r)
  BY CoreIs
<1>3. p.rip = MainLoop /\ p.stack = <<>>
  BY <1>1, <1>2 DEF JobEnds, Busy, CoreFine
<1>4. NoJob \in Jobs /\ NotRaised \in Exceptions
  BY DEF NoJob, Jobs, Unused, Use, NotRaised, Exceptions
<1>5. /\ job' = [job EXCEPT ![c] = NoJob] /\ raised' = [raised EXCEPT ![c] = NotRaised]
      /\ boot' = "idle" /\ UNCHANGED <<slots, cpu, loaded, context>>
  BY <1>1 DEF JobEnds, Reply
<1>6. CoreFine(c, p, k, NoJob, NotRaised)
  BY <1>3 DEF CoreFine, NoJob
<1>7. /\ job' \in [Cores -> Jobs] /\ raised' \in [Cores -> Exceptions]
      /\ job'[c] = NoJob /\ raised'[c] = NotRaised
      /\ \A d \in Cores : d # c => job'[d] = job[d] /\ raised'[d] = raised[d]
  BY <1>4, <1>5 DEF CoreInv, CoreTypes
<1>8. CoreTypes'
  BY <1>5, <1>7 DEF CoreInv, CoreTypes
<1>9. CoresFine'
  <2>1. \A d \in Cores : CoreFine(d, cpu[d], context[d], job'[d], raised'[d])
    BY <1>2, <1>6, <1>7 DEF CoreInv, CoresFine
  <2> QED
    BY <1>5, <2>1 DEF CoresFine
<1>10. CodeThere' /\ UseInv'
  BY <1>5 DEF CoreInv, CodeThere, UseInv, slots
<1> QED
  BY <1>8, <1>9, <1>10 DEF CoreInv

LEMMA CoreInvStep == SlotInv /\ CoreInv /\ [Next]_vars => CoreInv'
<1> SUFFICES ASSUME SlotInv, CoreInv, [Next]_vars PROVE CoreInv'
  OBVIOUS
<1>1. CASE Receive
  BY <1>1, ReceiveLeaves, CoresLeft DEF slots
<1>2. CASE BootMoves
  <2>1. CASE \/ Search0 \/ EnsureSlot0 \/ RefuseShort \/ SendUcodeFails \/ SendUcode
             \/ SendCodeFails \/ FlipBitsFails \/ CopyToSlot1 \/ FlipBit \/ FlipBitsDone
             \/ RefuseJob \/ WaitTimesOut \/ Strays
    <3>1. boot' # "wait" /\ UNCHANGED <<cores, machine_codes>>
      BY <2>1 DEF Search0, EnsureSlot0, RefuseShort, SendUcodeFails, SendUcode, SendCodeFails,
                  FlipBitsFails, CopyToSlot1, FlipBit, FlipBitsDone, RefuseJob, WaitTimesOut,
                  Strays, EnsureSlot0Stray, SendUcodeStray, SendCodeStray, FlipBitsStray,
                  ApplyStray, Stray, Refuse, Reply, CoresKeep, slots, serving
    <3> QED
      BY <3>1, CoresLeft
  <2>2. CASE SendCode
    <3>1. boot' # "wait" /\ UNCHANGED cores
      BY <2>2 DEF SendCode, Reply, CoresKeep
    <3> QED
      BY <2>2, <3>1, ImageStays, CoresLeft
  <2> QED
    BY <1>2, <2>1, <2>2, QueueFine, EndsFine DEF BootMoves, Strays
<1>3. ASSUME NEW c \in Cores, CoreMoves(c) \/ CodeStep(c) PROVE CoreInv'
  BY <1>3, CoreStepKeeps
<1>4. CASE UNCHANGED vars
  <2>1. UNCHANGED <<cpu, loaded, context, job, raised, ucodes, machine_codes, boot, req>>
    BY <1>4 DEF vars, cores, slots, serving
  <2>2. CoreTypes' /\ CoresFine' /\ CodeThere'
    BY <2>1 DEF CoreInv, CoreTypes, CoresFine, CodeThere
  <2>3. UseInv'
    BY <2>1 DEF CoreInv, UseInv, Uses
  <2> QED
    BY <2>2, <2>3 DEF CoreInv
<1> QED
  BY <1>1, <1>2, <1>3, <1>4 DEF Next

LEMMA UcodeInvariant == Spec => [](SlotInv /\ CoreInv)
<1> QED
  BY SlotsBegin, SlotsStep, CoreInvBegins, CoreInvStep, PTL DEF Spec

-----------------------------------------------------------------------------
\* Every variable keeps its type: no handler leads an AP to an address that is
\* not the program's, ret_gpf_value holds nothing but what wrmsr left in rax,
\* and only what the processor accepts is loaded.
THEOREM UcodeTypes == Spec => []TypeOK
<1>1. SlotInv /\ CoreInv => TypeOK
  <2> SUFFICES ASSUME SlotInv, CoreInv PROVE TypeOK
    OBVIOUS
  <2>1. my_cpuid \in Cpuids \cup {0} /\ search \in Search
    BY DEF SlotInv, SlotTypes, SearchInv
  <2>2. /\ \A s \in Slots : /\ ucodes[s].ucode \in {NULL} \cup SUBSET Bits
                           /\ ucodes[s].length \in 0 .. UpdateBytes
        /\ \A s \in CodeSlots : /\ machine_codes[s].machine_code \in {NULL} \cup Images
                               /\ machine_codes[s].length \in {0, 1}
    BY DEF SlotInv, SlotTypes, Contained
  <2>3. ASSUME NEW c \in Cores
        PROVE  /\ cpu[c].rip \in {MainLoop, DummyLoop, Recovery, ApplyUpdate, Applied,
                                 RestoreUpdate, Restored, CallCode, StubReturn, Code,
                                 Code + 2} \cup Entry(0) .. IretAt(Fallback)
               /\ cpu[c].rax \in {"address", "dead", "ticks", "other"}
               /\ context[c].ret_gpf_value \in {"zero", "address", "dead"}
               /\ loaded[c] \in {NULL} \cup Accepted
               /\ job[c].state \in {"none", "queued", "running", "done", "aborted"}
    <3>1. PICK p \in Registers, k \in Contexts, j \in Jobs, r \in Exceptions :
            /\ p = cpu[c] /\ k = context[c] /\ j = job[c] /\ r = raised[c]
            /\ CoreFine(c, p, k, j, r)
      BY CoreIs
    <3>2. /\ p.rax \in {"address", "dead", "ticks", "other"}
          /\ k.ret_gpf_value \in {"zero", "address", "dead"}
          /\ j.state \in {"none", "queued", "running", "done", "aborted"}
      BY DEF Registers, Contexts, Jobs
    <3>3. \/ p.rip \in {MainLoop, DummyLoop, Recovery, ApplyUpdate, Applied, RestoreUpdate,
                        Restored, CallCode, StubReturn, Code, Code + 2}
          \/ InHandlers(p.rip)
      BY <3>1, InFaultPlace DEF CoreFine, Runs, InStub
    <3> QED
      BY <3>1, <3>2, <3>3, CoreIs DEF InHandlers
  <2>4. boot \in {"init", "idle", "short", "send_ucode", "flip_bits", "flip", "send_code",
                  "apply", "test", "execute", "wait", "stray"}
    BY DEF SlotInv, SlotTypes, Requested
  <2> QED
    BY <2>1, <2>2, <2>3, <2>4 DEF TypeOK
<1> QED
  BY <1>1, UcodeInvariant, PTL

\* Core 0 waits for its answer before it serves the next message, so nothing
\* changes a slot between the request and the job's last access.
THEOREM JobsUseRequest == Spec => []JobUsesRequest
<1>1. SlotInv /\ CoreInv => JobUsesRequest
  <2> SUFFICES ASSUME SlotInv, CoreInv, boot = "wait", ~Busy(req.core)
               PROVE  JobUsesRequest
    BY DEF JobUsesRequest
  <2>1. PICK c \in Cores : c = req.core
    BY CoreZero DEF SlotInv, Serves, Request
  <2>2. PICK p \in Registers, k \in Contexts, j \in Jobs, r \in Exceptions :
          p = cpu[c] /\ k = context[c] /\ j = job[c] /\ r = raised[c] /\ CoreFine(c, p, k, j, r)
    BY CoreIs
  <2>3. j.state \notin {"queued", "running"} /\ Uses(p, j)
    BY <2>1, <2>2 DEF Busy, CoreInv, UseInv
  <2>4. p.rip # ApplyUpdate
    BY <2>2, <2>3, Places DEF CoreFine
  <2>5. j.used.ucode = j.asked.ucode /\ j.used.code \in {NULL, j.asked.code}
    BY <2>3, <2>4 DEF Uses
  <2> QED
    BY <2>1, <2>2, <2>5 DEF JobUsesRequest
<1> QED
  BY <1>1, UcodeInvariant, PTL

\* The machine code of a test has run if and only if the processor has taken
\* the update, and ret_gpf_value says which.
THEOREM CodeRunsOnlyIfAccepted == Spec => []CodeRunsIfAccepted
<1>1. CoreInv => CodeRunsIfAccepted
  <2> SUFFICES ASSUME CoreInv, NEW c \in Cores, context[c].func = "test", job[c].state = "done"
               PROVE  /\ (job[c].used.code # NULL) = (job[c].used.ucode \in Accepted)
                      /\ (context[c].ret_gpf_value = "dead") = ~(job[c].used.ucode \in Accepted)
    BY DEF CodeRunsIfAccepted
  <2>1. TestRight(context[c], job[c])
    BY CoreIs DEF CoreFine
  <2> QED
    BY <2>1 DEF TestRight, Taken
<1> QED
  BY <1>1, UcodeInvariant, PTL

-----------------------------------------------------------------------------
(* What a fault comes to. *)

\* The handler of its own vector is the last one an ordinary fault leads through.
LEMMA LastIs ==
  ASSUME NEW v \in Ordinary
  PROVE  LastHandler(v) = v /\ fault_number(v) = v
<1>1. v \in 1 .. 15 /\ v # 8
  BY DEF Ordinary
<1>2. WithinLimit(v)
  BY <1>1 DEF WithinLimit, idt_limit
<1> QED
  BY <1>1, <1>2 DEF LastHandler, Delivered, fault_number, Fallback

\* Only an iretq leaves the handlers.
LEMMA LeavesByIret ==
  ASSUME SlotInv, CoreInv, [Next]_vars, NEW c \in Cores,
         InHandlers(cpu[c].rip), ~InHandlers(cpu'[c].rip)
  PROVE  HandlerReturns(c)
<1>1. cpu'[c] # cpu[c]
  OBVIOUS
<1>2. PICK d \in Cores : CoreMoves(d) \/ CodeStep(d)
  <2>1. CASE Receive \/ BootMoves \/ UNCHANGED vars
    BY <1>1, <2>1 DEF Receive, BootMoves, Search0, EnsureSlot0, EnsureSlot0Stray,
         RefuseShort, SendUcodeFails, SendUcode, SendUcodeStray, SendCodeFails, SendCode,
         SendCodeStray, FlipBitsFails, FlipBitsStray, CopyToSlot1, FlipBit, FlipBitsDone,
         RefuseJob, ApplyStray, QueueJob, Queue, JobEnds, WaitTimesOut, Stray, Refuse,
         CoresKeep, cores, vars
  <2> QED
    BY <2>1 DEF Next
<1>3. d = c
  BY <1>1, <1>2 DEF CoreInv, CoreTypes, CoreMoves, CodeStep, StartJob, Apply, StoreResult,
       CallMachineCode, Restore, AfterRestore, FinishJob, HandlerRuns, HandlerReturns,
       RecoverCore, CodeReturns, CodeRaises, CodeApplies, CodeGoesOn, Wrmsr, Raises, Jump
<1>4. ~HandlerRuns(c)
  <2> SUFFICES ASSUME HandlerRuns(c) PROVE FALSE
    OBVIOUS
  <2>1. PICK h \in 0 .. Fallback : cpu[c].rip = Entry(h)
    BY DEF HandlerRuns, At
  <2>2. HandlerOf(cpu[c].rip) = h /\ InHandlers(IretAt(h))
    BY <2>1, HandlerPlaces
  <2>3. cpu'[c] = HandlerBody(cpu[c])
    BY DEF HandlerRuns, CoreInv, CoreTypes
  <2>4. HandlerBody(cpu[c]).rip = IretAt(h)
    BY <2>2, CoreIs DEF HandlerBody, Patch, PopsErrorCode, Registers
  <2> QED
    BY <2>2, <2>3, <2>4
<1>5. /\ ~StartJob(c) /\ ~Apply(c) /\ ~StoreResult(c) /\ ~CallMachineCode(c) /\ ~Restore(c)
      /\ ~AfterRestore(c) /\ ~FinishJob(c) /\ ~RecoverCore(c) /\ ~CodeStep(c)
  BY Places DEF StartJob, Apply, StoreResult, CallMachineCode, Restore, AfterRestore, FinishJob,
       RecoverCore, CodeStep, CodeReturns, CodeRaises, CodeApplies, CodeGoesOn, InCode, At
<1> QED
  BY <1>2, <1>3, <1>4, <1>5 DEF CoreMoves

\* An exception of a vector from 1 to 15, except the double fault, is recorded by
\* its number and the address where it happened; a #GP goes on behind the
\* instruction, everything else in the recovery, with the stack there was.
THEOREM FaultsEndRight == Spec => FaultOutcome
<1> DEFINE Outcome(c) ==
      LET r == raised[c] IN
      InHandlers(cpu[c].rip) /\ ~InHandlers(cpu'[c].rip) /\ r.vector \in Ordinary =>
         /\ context[c].fault_info = [occured |-> TRUE, number |-> r.vector, rip |-> r.rip]
         /\ Len(cpu'[c].stack) = r.depth
         /\ IF r.vector = 13
            THEN cpu'[c].rip = r.rip + 2 /\ cpu'[c].rax = "dead"
            ELSE cpu'[c].rip = Recovery
<1>1. SlotInv /\ CoreInv /\ [Next]_vars => \A c \in Cores : Outcome(c)
  <2> SUFFICES ASSUME SlotInv, CoreInv, [Next]_vars, NEW c \in Cores,
                      InHandlers(cpu[c].rip), ~InHandlers(cpu'[c].rip),
                      raised[c].vector \in Ordinary
               PROVE  Outcome(c)
    OBVIOUS
  <2>1. HandlerReturns(c)
    BY LeavesByIret
  <2>2. PICK h \in 0 .. Fallback : cpu[c].rip = IretAt(h)
    BY <2>1 DEF HandlerReturns, At
  <2>3. PICK p \in Registers, k \in Contexts, j \in Jobs, r \in Exceptions,
             s \in StacksAt(raised[c].rip) :
          /\ p = cpu[c] /\ k = context[c] /\ j = job[c] /\ r = raised[c]
          /\ j.state = "running" /\ c # 0 /\ FromJob(k, j, r) /\ r.vector \in Nat
          /\ r.rip # CODE_SEGMENT /\ s \in Seq(Nat) /\ Handling(p, k.fault_info, r, s)
    BY <2>2, AtHandler
  <2>4. PICK q : q = Iretq(p)
    OBVIOUS
  <2>5. PICK i : i = k.fault_info
    OBVIOUS
  <2>6. (InHandlers(q.rip) /\ Handling(q, i, r, s)) \/ Handled(q, i, r, s)
    <3>1. p.rip = IretAt(h) /\ Handling(p, i, r, s)
      BY <2>2, <2>3, <2>5
    <3> QED
      BY <2>3, <2>4, <3>1, IretHandles
  <2>7. cpu'[c] = q
    BY <2>1, <2>3, <2>4 DEF HandlerReturns, CoreInv, CoreTypes
  <2>8. PICK last : last = LastHandler(r.vector)
    OBVIOUS
  <2>9. /\ q.rip = Leads(last, r.rip) /\ q.stack = s /\ Len(s) = r.depth
        /\ q.rax = IF last = 13 THEN "dead" ELSE "other"
        /\ i = [occured |-> TRUE, number |-> fault_number(last), rip |-> r.rip]
    BY <2>6, <2>7, <2>8 DEF Handled
  <2>10. last = r.vector /\ fault_number(last) = r.vector
    BY <2>3, <2>8, LastIs
  <2>11. i = [occured |-> TRUE, number |-> r.vector, rip |-> r.rip]
    BY <2>9, <2>10
  <2>12. IF r.vector = 13 THEN q.rip = r.rip + 2 /\ q.rax = "dead" ELSE q.rip = Recovery
    BY <2>9, <2>10 DEF Leads
  <2> QED
    BY <2>3, <2>5, <2>7, <2>9, <2>11, <2>12
<1>2. SlotInv /\ CoreInv /\ [Next]_vars => [\A c \in Cores : Outcome(c)]_vars
  BY <1>1
<1> QED
  BY <1>2, UcodeInvariant, PTL DEF Spec, FaultOutcome
=============================================================================
