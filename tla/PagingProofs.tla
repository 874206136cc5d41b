----------------------------- MODULE PagingProofs -----------------------------
(***************************************************************************)
(* Theorems about Paging: what the client is told of page tables of any    *)
(* size is what is in them, and starting an AP leaves every table in use   *)
(* as it was.                                                              *)
(***************************************************************************)
EXTENDS Paging, SequenceLemmas

-----------------------------------------------------------------------------
(* The inductive invariant. *)

Addresses == 0 .. LastPage - 1
Page == [0 .. PageEntries - 1 -> [addr : Addresses, present : BOOLEAN]]
Started == {c \in Aps : cr3[c] # 0}

\* Those in use at the beginning are as they were, and each AP that was started
\* has five behind them.
MemoryInv ==
  /\ memory \in [0 .. LastPage -> Page]
  /\ cr3 \in [Contexts -> Addresses] /\ cr3[0] = Root
  /\ free \in BasePages .. LastPage
  /\ \A c \in Started : BasePages <= cr3[c] /\ cr3[c] + 5 <= free
  /\ \A p \in 0 .. BasePages - 1 : memory[p] = Tables[p]

\* The tables of an AP are still what create_minimal_paging wrote.
TablesInv ==
  \A c \in Started :
    LET pdpt == memory[Root][0].addr IN
    /\ memory[cr3[c]] = [k \in 0 .. PageEntries - 1 |->
                           Pml4Entry(memory[Root][k], k, cr3[c] + 1)]
    /\ memory[cr3[c] + 1] = [k \in 0 .. PageEntries - 1 |->
                               PdptEntry(memory[pdpt][k], k)]

\* The types the other parts do not imply.
TypeInv ==
  /\ requests \in 0 .. MaxRequests
  /\ expected \in [answer : Answers, entries : Seq(Report)]
  /\ ap \in [Aps -> {"off", "coming", "started"}]
  /\ phase \in {"idle", "start", "table", "stray"} /\ base \in Addresses
  /\ starting \in Aps \cup {0} /\ (phase = "start" => starting \in Aps)
  /\ count \in {0, PageEntries, TwoPages} /\ level \in 0 .. 4 /\ i \in 0 .. count
  /\ payload \in Seq(Report)
  /\ packets \in Seq([entries : Seq(Report), last : BOOLEAN])
  /\ answer \in Answers \cup {"failed"}

\* The entries sent so far.
Sent == FlattenSeq([k \in 1 .. Len(packets) |-> packets[k].entries])

\* What is expected of send_table is the table it works on.
TableInv ==
  /\ requests > 0 /\ expected.answer = "entries" /\ count # 0 /\ level # 0
  /\ Len(expected.entries) = count
  /\ \A k \in 1 .. count :
       expected.entries[k] =
         [entry |-> Entry(memory, base, k - 1), position |-> k - 1, level |-> level]

\* What was sent and what is in the payload buffer are its first i entries; the
\* packets are full, and the buffer holds what is left over.
PacketsInv ==
  /\ Glue(Sent, payload) = SubSeq(expected.entries, 1, i)
  /\ \A k \in 1 .. Len(packets) :
       ~packets[k].last /\ Len(packets[k].entries) = PerPacket
  /\ IF i = 0 THEN packets = <<>> /\ payload = <<>>
              ELSE Len(payload) = ((i - 1) % PerPacket) + 1

SendInv ==
  /\ phase = "table" => TableInv /\ PacketsInv
  /\ AnswerExact

IInv == TypeInv /\ MemoryInv /\ TablesInv /\ SendInv

-----------------------------------------------------------------------------
(* Sequences. *)

\* A function on 1 .. n is a sequence.
LEMMA FunctionIsSeq ==
  ASSUME NEW S, NEW n \in Nat, NEW f \in [1 .. n -> S]
  PROVE  f \in Seq(S) /\ Len(f) = n
  OBVIOUS

\* What Append adds, and where.
LEMMA Appended ==
  ASSUME NEW S, NEW s \in Seq(S), NEW e \in S, NEW t, t = Append(s, e)
  PROVE  /\ t \in Seq(S) /\ Len(t) = Len(s) + 1 /\ t[Len(s) + 1] = e
         /\ \A k \in 1 .. Len(s) : t[k] = s[k]
  OBVIOUS

\* The beginning of a sequence grows by its next element.
LEMMA BeginningGrows ==
  ASSUME NEW S, NEW x \in Seq(S), NEW n \in Nat, n + 1 <= Len(x)
  PROVE  /\ SubSeq(x, 1, n) \in Seq(S)
         /\ SubSeq(x, 1, n + 1) = Append(SubSeq(x, 1, n), x[n + 1])
<1>1. \A k \in 1 .. n + 1 : x[k] \in S
  BY ElementOfSeq
<1>2. PICK a \in Seq(S) : /\ a = SubSeq(x, 1, n) /\ Len(a) = n
                          /\ \A k \in 1 .. n : a[k] = x[k]
  <2>1. \A k \in 1 .. n : x[k] \in S
    BY <1>1
  <2>2. /\ SubSeq(x, 1, n) \in Seq(S)
        /\ Len(SubSeq(x, 1, n)) = IF 1 <= n THEN n - 1 + 1 ELSE 0
        /\ \A k \in 1 .. n - 1 + 1 : SubSeq(x, 1, n)[k] = x[1 + k - 1]
    BY <2>1, SubSeqProperties
  <2>3. Len(SubSeq(x, 1, n)) = n
    BY <2>2
  <2>4. \A k \in 1 .. n : SubSeq(x, 1, n)[k] = x[k]
    <3>1. \A k \in 1 .. n : k \in 1 .. n - 1 + 1 /\ 1 + k - 1 = k
      OBVIOUS
    <3> QED
      BY <2>2, <3>1
  <2> QED
    BY <2>2, <2>3, <2>4, Zenon
<1>3. PICK b \in Seq(S) : /\ b = SubSeq(x, 1, n + 1) /\ Len(b) = n + 1
                          /\ \A k \in 1 .. n + 1 : b[k] = x[k]
  <2>1. PICK m \in Nat : m = n + 1
    OBVIOUS
  <2>2. \A k \in 1 .. m : x[k] \in S
    BY <1>1, <2>1
  <2>3. /\ SubSeq(x, 1, m) \in Seq(S)
        /\ Len(SubSeq(x, 1, m)) = IF 1 <= m THEN m - 1 + 1 ELSE 0
        /\ \A k \in 1 .. m - 1 + 1 : SubSeq(x, 1, m)[k] = x[1 + k - 1]
    BY <2>2, SubSeqProperties
  <2>4. Len(SubSeq(x, 1, m)) = m
    BY <2>1, <2>3
  <2>5. \A k \in 1 .. m : SubSeq(x, 1, m)[k] = x[k]
    <3>1. \A k \in 1 .. m : k \in 1 .. m - 1 + 1 /\ 1 + k - 1 = k
      OBVIOUS
    <3> QED
      BY <2>3, <3>1
  <2> QED
    BY <2>1, <2>3, <2>4, <2>5, Zenon
<1>4. PICK e \in S : e = x[n + 1]
  BY <1>1
<1>5. PICK c \in Seq(S) : /\ c = Append(a, e) /\ Len(c) = n + 1 /\ c[n + 1] = e
                          /\ \A k \in 1 .. n : c[k] = a[k]
  <2>1. PICK c : c = Append(a, e)
    OBVIOUS
  <2>2. /\ c \in Seq(S) /\ Len(c) = Len(a) + 1 /\ c[Len(a) + 1] = e
        /\ \A k \in 1 .. Len(a) : c[k] = a[k]
    BY <2>1, Appended
  <2> QED
    BY <1>2, <2>1, <2>2
<1>6. \A k \in 1 .. n + 1 : c[k] = b[k]
  <2>1. \A k \in 1 .. n + 1 : k = n + 1 \/ k \in 1 .. n
    OBVIOUS
  <2> QED
    BY <1>2, <1>3, <1>4, <1>5, <2>1
<1>7. c = b
  BY <1>3, <1>5, <1>6, SeqEqual
<1> QED
  BY <1>2, <1>3, <1>4, <1>5, <1>7

\* Quotient and remainder.
LEMMA Division ==
  ASSUME NEW m \in Nat \ {0}, NEW x \in Nat
  PROVE  x \div m \in Nat /\ x % m \in 0 .. m - 1 /\ x = m * (x \div m) + (x % m)
<1>1. x = m * (x \div m) + (x % m)
  OBVIOUS
<1>2. x \div m \in Nat
  OBVIOUS
<1>3. x % m \in 0 .. m - 1
  OBVIOUS
<1> QED
  BY <1>1, <1>2, <1>3

\* How the number of entries in the buffer follows from that of the entries
\* written: at the multiples of the packet size it is full.
LEMMA FillLevel ==
  ASSUME NEW m \in Nat \ {0}, NEW n \in Nat \ {0}
  PROVE  /\ (n - 1) % m \in 0 .. m - 1
         /\ n % m = 0 => (n - 1) % m = m - 1
         /\ n % m # 0 => ((n - 1) % m) + 1 = n % m
<1>1. PICK x \in Nat : x = n - 1
  OBVIOUS
<1>2. PICK q \in Nat : q = x \div m
  BY Division
<1>3. PICK r \in 0 .. m - 1 : r = x % m /\ x = m * q + r
  BY <1>2, Division
<1>4. CASE r = m - 1
  <2>1. n = m * (q + 1)
    BY <1>1, <1>3, <1>4
  <2>2. n % m = 0
    BY <2>1
  <2> QED
    BY <1>1, <1>3, <1>4, <2>2
<1>5. CASE r # m - 1
  <2>1. n = m * q + (r + 1) /\ r + 1 \in 0 .. m - 1
    BY <1>1, <1>3, <1>5
  <2>2. n % m = r + 1
    BY <2>1
  <2> QED
    BY <1>1, <1>3, <1>5, <2>2
<1> QED
  BY <1>4, <1>5

-----------------------------------------------------------------------------
(* Pages and entries. *)

USE PagingSizes

\* A page is a number, and what core 0 can name is followed by one more.
LEMMA PageNumbers ==
  /\ LastPage \in Nat /\ BasePages <= LastPage /\ 0 \in Contexts
  /\ Addresses \subseteq 0 .. LastPage /\ Addresses \subseteq Nat
  /\ 0 .. BasePages - 1 \subseteq Addresses
  /\ \A p \in Addresses : p + 1 \in 0 .. LastPage
<1>1. PICK l \in Nat : l = LastPage /\ BasePages <= l
  BY DEF LastPage
<1> HIDE DEF LastPage
<1> QED
  BY <1>1 DEF Addresses, Contexts

\* The PML4 of core 0, and the PDPT that maps this program.
LEMMA FirstTables ==
  /\ Root \in 0 .. BasePages - 1 /\ 0 \in 0 .. PageEntries - 1
  /\ Tables[Root][0].addr \in 0 .. BasePages - 1
<1>1. Root \in 0 .. BasePages - 1 /\ 0 \in 0 .. PageEntries - 1
  BY DEF Root
<1>2. Tables[Root] \in [0 .. PageEntries - 1 -> Entries]
  BY <1>1, FirmwareTables, PageNumbers
<1>3. Tables[Root][0] \in Entries
  BY <1>1, <1>2
<1>4. Tables[Root][0].addr \in 0 .. LastPage - 1
  BY <1>3 DEF Entries
<1> QED
  BY <1>1, <1>4, FirmwareTables, PageNumbers

\* An index of a table of two pages is one of the page, or of the one behind.
LEMMA TwoHalves ==
  ASSUME NEW k \in 0 .. TwoPages - 1
  PROVE  /\ k \div PageEntries \in {0, 1} /\ k % PageEntries \in 0 .. PageEntries - 1
         /\ k < PageEntries => k \div PageEntries = 0 /\ k % PageEntries = k
<1>1. PICK n \in Nat \ {0} : n = PageEntries
  OBVIOUS
<1>2. k \in 0 .. 2 * n - 1
  BY <1>1 DEF TwoPages
<1>3. CASE k < n
  <2>1. k \div n = 0 /\ k % n = k
    BY <1>2, <1>3
  <2> QED
    BY <1>1, <1>2, <1>3, <2>1
<1>4. CASE ~(k < n)
  <2>1. k \div n = 1 /\ k % n = k - n
    BY <1>2, <1>4
  <2> QED
    BY <1>1, <1>2, <1>4, <2>1
<1> QED
  BY <1>3, <1>4

\* Whatever is read as an entry of a table is one, also behind a table.
LEMMA EntryType ==
  ASSUME MemoryInv, NEW p \in Addresses, NEW k \in 0 .. TwoPages - 1
  PROVE  Entry(memory, p, k) \in [addr : Addresses, present : BOOLEAN]
<1>1. PICK h \in {0, 1} : h = k \div PageEntries
  BY TwoHalves
<1>2. PICK r \in 0 .. PageEntries - 1 : r = k % PageEntries
  BY TwoHalves
<1>3. p + h \in 0 .. LastPage
  BY PageNumbers
<1>4. memory[p + h] \in Page
  BY <1>3 DEF MemoryInv
<1>5. memory[p + h][r] \in [addr : Addresses, present : BOOLEAN]
  BY <1>4 DEF Page
<1> QED
  BY <1>1, <1>2, <1>5 DEF Entry, PageOf

\* Behind an entry is a page.
LEMMA BehindType ==
  ASSUME MemoryInv, NEW p \in Addresses, NEW k \in 0 .. TwoPages - 1
  PROVE  Behind(p, k) \in Addresses
<1>1. 0 \in Addresses
  BY PageNumbers
<1> QED
  BY <1>1, EntryType DEF Behind

-----------------------------------------------------------------------------
(* The way of a request through the tables. *)

\* Walk is defined by recursion over four tables; this is the function.
LEMMA WalkIs ==
  ASSUME NEW root, NEW at
  PROVE  \A l \in 1 .. 4 : Walk(root, at)[5 - l] = Table(l, root, at)
<1> DEFINE body(f, n) == IF n = 1 THEN root
                         ELSE IF f[n - 1] = 0 THEN 0
                         ELSE Entry(memory, f[n - 1], at[n - 1]).addr
           W == CHOOSE f : f = [n \in 1 .. 4 |-> body(f, n)]
           g == [n \in 1 .. 4 |-> Table(5 - n, root, at)]
<1>1. /\ g[1] = root /\ g[2] = get_pdpt_at(root, at)
      /\ g[3] = get_pd_at(root, at) /\ g[4] = get_pt_at(root, at)
  BY DEF Table
<1>2. /\ g[2] = Behind(g[1], at[1]) /\ g[3] = Behind(g[2], at[2])
      /\ g[4] = Behind(g[3], at[3])
  BY <1>1 DEF get_pdpt_at, get_pd_at, get_pt_at
<1>3. ASSUME NEW n \in 1 .. 4
      PROVE  g[n] = body(g, n)
  <2> HIDE DEF g
  <2>1. n = 1 \/ n = 2 \/ n = 3 \/ n = 4
    OBVIOUS
  <2> QED
    BY <1>1, <1>2, <2>1 DEF Behind
<1>4. g = [n \in 1 .. 4 |-> body(g, n)]
  <2>1. g = [n \in 1 .. 4 |-> g[n]]
    OBVIOUS
  <2> HIDE DEF g, body
  <2> QED
    BY <1>3, <2>1
<1>5. W = [n \in 1 .. 4 |-> body(W, n)]
  <2> HIDE DEF g, body
  <2> QED
    BY <1>4
<1>6. W = Walk(root, at)
  BY DEF Walk
<1> HIDE DEF W
<1>7. /\ W[1] = root /\ W[2] = Behind(W[1], at[1])
      /\ W[3] = Behind(W[2], at[2]) /\ W[4] = Behind(W[3], at[3])
  BY <1>5 DEF Behind
<1>8. \A l \in 1 .. 4 : l = 1 \/ l = 2 \/ l = 3 \/ l = 4
  OBVIOUS
<1> QED
  BY <1>6, <1>7, <1>8 DEF Table, get_pdpt_at, get_pd_at, get_pt_at

\* The tables an index inside its table leads to are pages.
LEMMA TableType ==
  ASSUME MemoryInv, NEW c \in Contexts, NEW at, NEW l \in 1 .. 4,
         \A n \in 1 .. 4 - l : Passes(at, n)
  PROVE  Table(l, cr3[c], at) \in Addresses
<1> USE DEF Table, get_pdpt_at, get_pd_at, get_pt_at
<1>1. \A n \in 1 .. 4 - l : at[n] \in 0 .. TwoPages - 1
  BY DEF Passes, TwoPages
<1>2. cr3[c] \in Addresses
  BY DEF MemoryInv
<1>3. l <= 3 => get_pdpt_at(cr3[c], at) \in Addresses
  BY <1>1, <1>2, BehindType
<1>4. l <= 2 => get_pd_at(cr3[c], at) \in Addresses
  BY <1>1, <1>3, BehindType
<1>5. l <= 1 => get_pt_at(cr3[c], at) \in Addresses
  BY <1>1, <1>4, BehindType
<1>6. l = 1 \/ l = 2 \/ l = 3 \/ l = 4
  OBVIOUS
<1> QED
  BY <1>2, <1>3, <1>4, <1>5, <1>6

\* The number of entries of a table of level l, and what the client should
\* get of one.
Size(l) == IF l = 4 THEN PageEntries ELSE TwoPages
One(c, at, l, k) ==
  [entry |-> Entry(memory, Table(l, cr3[c], at), k), position |-> k, level |-> l]

\* The first index that names no entry decides.
LEMMA FirstDecides ==
  ASSUME NEW c \in Contexts, NEW at, NEW l \in 1 .. 4,
         \A n \in 1 .. 4 - l : Passes(at, n), ~Passes(at, 5 - l)
  PROVE  /\ at[5 - l] = CurrentTable =>
              Expected(c, at) =
                [answer |-> "entries",
                 entries |-> [k \in 1 .. Size(l) |-> One(c, at, l, k - 1)]]
         /\ at[5 - l] = PreviousEntry /\ l < 4 =>
              Expected(c, at) =
                [answer |-> "entries",
                 entries |-> <<One(c, at, l + 1, at[4 - l])>>]
         /\ at[5 - l] # CurrentTable /\ ~(at[5 - l] = PreviousEntry /\ l < 4) =>
              Expected(c, at) = NoEntries(OutOfRange(l))
<1> DEFINE Span(n) == IF n = 1 THEN PageEntries ELSE TwoPages
           Deciding == {n \in 1 .. 4 : at[n] \notin 0 .. Span(n) - 1}
           d == CHOOSE n \in Deciding : \A k \in Deciding : n <= k
           E(n, k) == [entry |-> Entry(memory, Walk(cr3[c], at)[n], k), position |-> k,
                       level |-> 5 - n]
<1>1. PICK m \in 1 .. 4 : m = 5 - l
  OBVIOUS
<1>2. m \in Deciding /\ \A n \in Deciding : m <= n
  BY <1>1 DEF Passes
<1>3. d = m
  <2> HIDE DEF Deciding
  <2>1. Deciding \subseteq 1 .. 4
    BY DEF Deciding
  <2>2. d \in Deciding /\ \A k \in Deciding : d <= k
    BY <1>2
  <2> HIDE DEF d
  <2> QED
    BY <1>2, <2>1, <2>2
<1>4. Deciding # {}
  BY <1>2
<1>5. Expected(c, at) =
        IF Deciding = {} THEN [answer |-> "entries", entries |-> <<E(4, at[4])>>]
        ELSE CASE at[d] = CurrentTable ->
                    [answer |-> "entries", entries |-> [k \in 1 .. Span(d) |-> E(d, k - 1)]]
               [] at[d] = PreviousEntry /\ d > 1 ->
                    [answer |-> "entries", entries |-> <<E(d - 1, at[d - 1])>>]
               [] OTHER -> NoEntries(<<"pml4", "pdpt", "pd", "pt">>[d])
  BY DEF Expected
<1> HIDE DEF Deciding, d
<1>6. Expected(c, at) =
        CASE at[m] = CurrentTable ->
               [answer |-> "entries", entries |-> [k \in 1 .. Span(m) |-> E(m, k - 1)]]
          [] at[m] = PreviousEntry /\ m > 1 ->
               [answer |-> "entries", entries |-> <<E(m - 1, at[m - 1])>>]
          [] OTHER -> NoEntries(<<"pml4", "pdpt", "pd", "pt">>[m])
  BY <1>3, <1>4, <1>5
<1>7. Span(m) = Size(l) /\ \A k : E(m, k) = One(c, at, l, k)
  BY <1>1, WalkIs DEF Size, One
<1>8. m > 1 => m - 1 = 4 - l /\ l + 1 \in 1 .. 4 /\ m - 1 = 5 - (l + 1)
  BY <1>1
<1>9. m > 1 => \A k : E(m - 1, k) = One(c, at, l + 1, k)
  BY <1>8, WalkIs DEF One
<1>10. <<"pml4", "pdpt", "pd", "pt">>[m] = OutOfRange(l)
  BY <1>1 DEF OutOfRange
<1>11. CurrentTable # PreviousEntry
  BY DEF CurrentTable, PreviousEntry
<1> HIDE DEF Span, E
<1>12. at[m] = CurrentTable =>
         Expected(c, at) = [answer |-> "entries",
                            entries |-> [k \in 1 .. Size(l) |-> One(c, at, l, k - 1)]]
  BY <1>6, <1>7, <1>11
<1>13. at[m] = PreviousEntry /\ l < 4 =>
         Expected(c, at) = [answer |-> "entries",
                            entries |-> <<One(c, at, l + 1, at[4 - l])>>]
  BY <1>1, <1>6, <1>8, <1>9, <1>11
<1>14. at[m] # CurrentTable /\ ~(at[m] = PreviousEntry /\ l < 4) =>
         Expected(c, at) = NoEntries(OutOfRange(l))
  BY <1>1, <1>6, <1>10
<1> QED
  BY <1>1, <1>12, <1>13, <1>14

\* Where none does, the page table's entry is meant.
LEMMA NoneDecides ==
  ASSUME NEW c \in Contexts, NEW at, \A n \in 1 .. 4 : Passes(at, n)
  PROVE  Expected(c, at) = [answer |-> "entries", entries |-> <<One(c, at, 1, at[4])>>]
<1>1. {n \in 1 .. 4 : at[n] \notin 0 .. (IF n = 1 THEN PageEntries ELSE TwoPages) - 1} = {}
  BY DEF Passes
<1>2. Walk(cr3[c], at)[4] = Table(1, cr3[c], at)
  BY WalkIs
<1> QED
  BY <1>1, <1>2 DEF Expected, One

-----------------------------------------------------------------------------
(* The pages: the proof. *)

LEMMA MemoryInit == Init => MemoryInv /\ TablesInv
<1> SUFFICES ASSUME Init PROVE MemoryInv /\ TablesInv
  OBVIOUS
<1>1. Started = {}
  BY DEF Init, Started, Contexts, Aps
<1>2. memory \in [0 .. LastPage -> Page]
  BY FirmwareTables DEF Init, Page, Entries, Addresses
<1>3. cr3 \in [Contexts -> Addresses] /\ cr3[0] = Root
  BY PageNumbers, FirstTables DEF Init
<1>4. free \in BasePages .. LastPage
  BY PageNumbers DEF Init
<1> QED
  BY <1>1, <1>2, <1>3, <1>4 DEF MemoryInv, TablesInv, Init

\* Where five pages are left.
LEMMA PagesLeft ==
  ASSUME MemoryInv, free + 5 <= LastPage
  PROVE  /\ free \in Nat /\ BasePages <= free /\ free + 5 <= LastPage
         /\ free \in Addresses /\ free + 1 \in Addresses /\ free # 0
<1>1. PICK l \in Nat : l = LastPage
  BY PageNumbers
<1> QED
  BY <1>1 DEF MemoryInv, Addresses

\* What create_minimal_paging writes: five pages behind those in use, the first
\* two of which the AP's tables begin with.
LEMMA TablesCopied ==
  ASSUME MemoryInv, StartAp
  PROVE  /\ memory' \in [0 .. LastPage -> Page]
         /\ \A p \in 0 .. LastPage : p < free => memory'[p] = memory[p]
         /\ memory'[free] = [k \in 0 .. PageEntries - 1 |->
                               Pml4Entry(memory[Root][k], k, free + 1)]
         /\ memory'[free + 1] = [k \in 0 .. PageEntries - 1 |->
                                   PdptEntry(memory[memory[Root][0].addr][k], k)]
<1> USE DEF PdptPage
<1>1. PICK f \in Nat : f = free /\ BasePages <= f /\ f + 5 <= LastPage
  BY PagesLeft DEF StartAp
<1>2. PICK l \in Nat : l = LastPage
  BY PageNumbers
<1>3. Root \in Addresses /\ 0 \in 0 .. PageEntries - 1 /\ 0 \in 0 .. TwoPages - 1
  BY PageNumbers, FirstTables DEF TwoPages
<1>4. PICK t \in Addresses : t = memory[Root][0].addr
  <2>1. memory[Root] \in Page
    BY <1>3, PageNumbers DEF MemoryInv
  <2>2. memory[Root][0] \in [addr : Addresses, present : BOOLEAN]
    BY <1>3, <2>1 DEF Page
  <2> QED
    BY <2>2
<1>5. PICK d \in Addresses : d = get_pd_at(Root, <<0, 0>>)
  BY <1>3, BehindType DEF get_pd_at, get_pdpt_at
<1> DEFINE Pdpt(half) == [k \in 0 .. PageEntries - 1 |->
                            PdptEntry(memory[t + half][k], half * PageEntries + k)]
           Pml4 == [k \in 0 .. PageEntries - 1 |-> Pml4Entry(memory[Root][k], k, f + 1)]
<1>6. memory' = [memory EXCEPT
          ![f] = [k \in DOMAIN @ |-> Pml4Entry(memory[Root][k], k, f + 1)],
          ![f + 1] = Pdpt(0), ![f + 2] = Pdpt(1),
          ![f + 3] = memory[d], ![f + 4] = memory[d + 1]]
  <2>1. f + 1 + 1 = f + 2
    OBVIOUS
  <2>2. t = get_pdpt_at(Root, <<0>>)
    <3>1. Root + 0 = Root /\ Root # 0
      BY DEF Root
    <3>2. 0 \div PageEntries = 0 /\ 0 % PageEntries = 0
      BY <1>3, TwoHalves
    <3>3. Entry(memory, Root, 0) = memory[Root][0]
      BY <3>1, <3>2 DEF Entry, PageOf
    <3> QED
      BY <1>4, <3>1, <3>3 DEF get_pdpt_at, Behind
  <2> QED
    BY <1>1, <1>5, <2>1, <2>2 DEF StartAp
<1>7. ASSUME NEW h \in {0, 1}
      PROVE  Pdpt(h) \in Page
  <2>1. t + h \in 0 .. LastPage
    BY PageNumbers
  <2>2. memory[t + h] \in Page
    BY <2>1 DEF MemoryInv
  <2>3. \A k \in 0 .. PageEntries - 1 : memory[t + h][k] \in [addr : Addresses, present : BOOLEAN]
    BY <2>2 DEF Page
  <2>4. ASSUME NEW k \in 0 .. PageEntries - 1
        PROVE  PdptEntry(memory[t + h][k], h * PageEntries + k) \in [addr : Addresses, present : BOOLEAN]
    <3>1. PICK e \in [addr : Addresses, present : BOOLEAN] : e = memory[t + h][k]
      BY <2>3
    <3>2. [e EXCEPT !.present = FALSE] \in [addr : Addresses, present : BOOLEAN]
      OBVIOUS
    <3> QED
      BY <3>1, <3>2 DEF PdptEntry
  <2> QED
    BY <2>4 DEF Page
<1>8. Pml4 \in Page
  <2>1. memory[Root] \in Page /\ f + 1 \in Addresses
    BY <1>1, <1>2, <1>3, PageNumbers DEF MemoryInv, Addresses
  <2>2. \A k \in 0 .. PageEntries - 1 : memory[Root][k] \in [addr : Addresses, present : BOOLEAN]
    BY <2>1 DEF Page
  <2>3. ASSUME NEW k \in 0 .. PageEntries - 1
        PROVE  Pml4Entry(memory[Root][k], k, f + 1) \in [addr : Addresses, present : BOOLEAN]
    <3>1. PICK e \in [addr : Addresses, present : BOOLEAN] : e = memory[Root][k]
      BY <2>2
    <3>2. /\ [e EXCEPT !.present = FALSE] \in [addr : Addresses, present : BOOLEAN]
          /\ [e EXCEPT !.addr = f + 1] \in [addr : Addresses, present : BOOLEAN]
      BY <2>1
    <3> QED
      BY <3>1, <3>2 DEF Pml4Entry
  <2> QED
    BY <2>3 DEF Page
<1>9. /\ f \in 0 .. l /\ f + 1 \in 0 .. l /\ f + 2 \in 0 .. l /\ f + 3 \in 0 .. l
      /\ f + 4 \in 0 .. l
  BY <1>1, <1>2
<1>10. memory[d] \in Page /\ memory[d + 1] \in Page
  BY PageNumbers DEF MemoryInv
<1>11. memory \in [0 .. l -> Page]
  BY <1>2 DEF MemoryInv
<1>12. [k \in DOMAIN memory[f] |-> Pml4Entry(memory[Root][k], k, f + 1)] = Pml4
  <2>1. memory[f] \in Page
    BY <1>9, <1>11
  <2>2. DOMAIN memory[f] = 0 .. PageEntries - 1
    BY <2>1 DEF Page
  <2> QED
    BY <2>2
<1>13. Pdpt(0) = [k \in 0 .. PageEntries - 1 |-> PdptEntry(memory[t][k], k)]
  BY PageNumbers
<1>14. PICK p0 \in Page : p0 = Pdpt(0)
  BY <1>7
<1>15. PICK p1 \in Page : p1 = Pdpt(1)
  BY <1>7
<1>16. PICK p4 \in Page : p4 = Pml4
  BY <1>8
<1>17. PICK d0 \in Page : d0 = memory[d]
  BY <1>10
<1>18. PICK d1 \in Page : d1 = memory[d + 1]
  BY <1>10
<1>19. memory' = [memory EXCEPT ![f] = p4, ![f + 1] = p0, ![f + 2] = p1,
                                ![f + 3] = d0, ![f + 4] = d1]
  BY <1>6, <1>12, <1>14, <1>15, <1>16, <1>17, <1>18
<1> HIDE DEF Pdpt, Pml4
<1>20. memory' \in [0 .. l -> Page]
  BY <1>9, <1>11, <1>19
<1>21. \A p \in 0 .. l : p < f => memory'[p] = memory[p]
  BY <1>9, <1>11, <1>19
<1>22. memory'[f] = p4 /\ memory'[f + 1] = p0
  BY <1>9, <1>11, <1>19
<1>23. memory'[f + 1] = [k \in 0 .. PageEntries - 1 |-> PdptEntry(memory[t][k], k)]
  BY <1>13, <1>14, <1>22
<1>24. memory'[f] = [k \in 0 .. PageEntries - 1 |-> Pml4Entry(memory[Root][k], k, f + 1)]
  BY <1>16, <1>22 DEF Pml4
<1> QED
  BY <1>1, <1>2, <1>4, <1>20, <1>21, <1>23, <1>24

\* So the tables of the other cores stay as they are, and those that a core was
\* given before.
LEMMA StartKeepsTables ==
  ASSUME IInv, StartAp
  PROVE  MemoryInv' /\ TablesInv'
<1> USE DEF IInv
<1>1. PICK f \in Nat : /\ f = free /\ BasePages <= f /\ f + 5 <= LastPage
                      /\ f \in Addresses /\ f # 0
  BY PagesLeft DEF StartAp
<1>2. PICK c \in Aps : c = starting
  BY DEF TypeInv, StartAp, TakesLock
<1>3. c \in Contexts /\ c # 0
  BY DEF Aps
<1>4. cr3' = [cr3 EXCEPT ![c] = f] /\ free' = f + 5
  BY <1>1, <1>2 DEF StartAp
<1>5. /\ cr3' \in [Contexts -> Addresses] /\ cr3'[0] = Root /\ cr3'[c] = f
      /\ \A d \in Contexts : d # c => cr3'[d] = cr3[d]
  BY <1>1, <1>3, <1>4, PageNumbers DEF MemoryInv
<1>6. \A d \in Started : cr3[d] \in Nat /\ BasePages <= cr3[d] /\ cr3[d] + 5 <= f
  BY <1>1, PageNumbers DEF MemoryInv, Started, Aps
<1>7. PICK l \in Nat : l = LastPage
  BY PageNumbers
<1>8. /\ memory' \in [0 .. l -> Page]
      /\ \A p \in 0 .. l : p < f => memory'[p] = memory[p]
      /\ memory'[f] = [k \in 0 .. PageEntries - 1 |-> Pml4Entry(memory[Root][k], k, f + 1)]
      /\ memory'[f + 1] = [k \in 0 .. PageEntries - 1 |->
                             PdptEntry(memory[memory[Root][0].addr][k], k)]
  BY <1>1, <1>7, TablesCopied
<1>9. \A p \in 0 .. BasePages - 1 : memory'[p] = memory[p]
  BY <1>1, <1>7, <1>8
<1>10. memory'[Root] = memory[Root]
  BY <1>9, FirstTables
<1>11. PICK t \in 0 .. BasePages - 1 : t = memory[Root][0].addr
  BY FirstTables DEF MemoryInv
<1>12. memory'[Root][0].addr = t /\ memory'[t] = memory[t]
  BY <1>9, <1>10, <1>11
<1>13. MemoryInv'
  <2>1. \A d \in Started' : BasePages <= cr3'[d] /\ cr3'[d] + 5 <= free'
    <3>1. \A d \in Started' : d = c \/ (d \in Started /\ cr3'[d] = cr3[d])
      BY <1>5 DEF Started, Aps
    <3>2. \A d \in Started : BasePages <= cr3[d] /\ cr3[d] + 5 <= f + 5
      BY <1>6, <1>1
    <3> QED
      BY <1>1, <1>4, <1>5, <3>1, <3>2
  <2>2. \A p \in 0 .. BasePages - 1 : memory'[p] = Tables[p]
    BY <1>9 DEF MemoryInv
  <2>3. free' \in BasePages .. LastPage
    BY <1>1, <1>4, <1>7
  <2> QED
    BY <1>5, <1>7, <1>8, <2>1, <2>2, <2>3 DEF MemoryInv
<1>14. ASSUME NEW d \in Started'
       PROVE  /\ memory'[cr3'[d]] = [k \in 0 .. PageEntries - 1 |->
                                       Pml4Entry(memory[Root][k], k, cr3'[d] + 1)]
              /\ memory'[cr3'[d] + 1] = [k \in 0 .. PageEntries - 1 |->
                                           PdptEntry(memory[t][k], k)]
  <2>1. CASE d = c
    BY <1>5, <1>8, <1>11, <2>1
  <2>2. CASE d # c
    <3>1. d \in Started /\ cr3'[d] = cr3[d]
      BY <1>5, <2>2 DEF Started, Aps
    <3>2. PICK r \in Nat : r = cr3[d] /\ r + 5 <= f
      BY <1>6, <3>1
    <3>3. memory'[r] = memory[r] /\ memory'[r + 1] = memory[r + 1]
      BY <1>1, <1>7, <1>8, <3>2
    <3> QED
      BY <1>11, <3>1, <3>2, <3>3 DEF TablesInv
  <2> QED
    BY <2>1, <2>2
<1>15. TablesInv'
  BY <1>10, <1>12, <1>14 DEF TablesInv
<1> QED
  BY <1>13, <1>15

\* Nothing else touches the tables.
LEMMA PagesKept ==
  ASSUME MemoryInv, TablesInv, UNCHANGED paging
  PROVE  MemoryInv' /\ TablesInv'
<1>1. memory' = memory /\ free' = free /\ cr3' = cr3 /\ Started' = Started
  BY DEF paging, Started
<1> QED
  BY <1>1 DEF MemoryInv, TablesInv

\* An AP reaches what its tables lead to, and these are core 0's below Low and
\* unmapped elsewhere.
LEMMA MinimalIs ==
  ASSUME MemoryInv, TablesInv
  PROVE  MinimalMapping
<1> SUFFICES ASSUME NEW c \in Aps, cr3[c] # 0,
                    NEW i4 \in 0 .. PageEntries - 1, NEW i3 \in 0 .. PageEntries - 1
             PROVE  Reach(cr3[c], i4, i3) =
                      IF i4 = 0 /\ i3 < Low THEN Reach(Root, i4, i3) ELSE Unmapped
  BY DEF MinimalMapping
<1>1. c \in Started
  BY DEF Started
<1>2. PICK r \in Addresses : r = cr3[c]
  BY DEF MemoryInv, Aps
<1>3. \A k \in 0 .. PageEntries - 1 : k \in 0 .. TwoPages - 1
  BY DEF TwoPages
<1>4. \A p, k : k \in 0 .. PageEntries - 1 /\ p \in Nat => Entry(memory, p, k) = memory[p][k]
  <2> TAKE p, k
  <2> HAVE k \in 0 .. PageEntries - 1 /\ p \in Nat
  <2>1. k \div PageEntries = 0 /\ k % PageEntries = k
    BY <1>3, TwoHalves
  <2>2. p + 0 = p
    OBVIOUS
  <2> QED
    BY <2>1, <2>2 DEF Entry, PageOf
<1>5. Root \in Addresses /\ Root \in Nat /\ r \in Nat /\ r + 1 \in Nat
  BY PageNumbers, FirstTables
<1>6. 0 \in 0 .. PageEntries - 1
  OBVIOUS
<1> DEFINE root(k) == memory[Root][k]
<1>7. \A k \in 0 .. PageEntries - 1 : root(k) \in [addr : Addresses, present : BOOLEAN]
  <2>1. memory[Root] \in Page
    BY <1>5, PageNumbers DEF MemoryInv
  <2> QED
    BY <2>1 DEF Page
<1>8. PICK t \in Addresses : t = root(0).addr
  BY <1>6, <1>7
<1>9. t \in Nat /\ t \in 0 .. LastPage
  BY PageNumbers
<1>10. PICK e \in [addr : Addresses, present : BOOLEAN] : e = memory[t][i3]
  <2>1. memory[t] \in Page
    BY <1>9 DEF MemoryInv
  <2> QED
    BY <2>1 DEF Page
<1>11. Entry(memory, r, i4) = Pml4Entry(root(i4), i4, r + 1)
  <2>1. memory[r] = [k \in 0 .. PageEntries - 1 |-> Pml4Entry(memory[Root][k], k, r + 1)]
    BY <1>1, <1>2, Zenon DEF TablesInv
  <2>2. memory[r][i4] = Pml4Entry(memory[Root][i4], i4, r + 1)
    BY <2>1, Zenon
  <2> QED
    BY <1>4, <1>5, <2>2
<1>12. Entry(memory, r + 1, i3) = PdptEntry(e, i3)
  <2>1. memory[r + 1] = [k \in 0 .. PageEntries - 1 |->
                           PdptEntry(memory[memory[Root][0].addr][k], k)]
    BY <1>1, <1>2, Zenon DEF TablesInv
  <2>2. memory[r + 1][i3] = PdptEntry(memory[t][i3], i3)
    BY <1>8, <2>1, Zenon
  <2> QED
    BY <1>4, <1>5, <1>10, <2>2
<1>13. Entry(memory, Root, i4) = root(i4)
  BY <1>4, <1>5
<1>14. Entry(memory, t, i3) = e
  BY <1>4, <1>9, <1>10
<1>15. Unmapped # 0
  BY DEF Unmapped
<1>16. CASE i4 # 0
  <2>1. PICK x \in [addr : Addresses, present : BOOLEAN] : x = root(i4)
    BY <1>7
  <2>2. Entry(memory, r, i4) = [x EXCEPT !.present = FALSE]
    BY <1>11, <1>16, <2>1 DEF Pml4Entry
  <2>3. Entry(memory, r, i4).present = FALSE
    BY <2>2
  <2> QED
    BY <1>2, <1>16, <2>3 DEF Reach
<1>17. CASE i4 = 0
  <2>1. PICK x \in [addr : Addresses, present : BOOLEAN] : x = root(0)
    BY <1>6, <1>7
  <2>2. Entry(memory, r, i4) = [x EXCEPT !.addr = r + 1]
    BY <1>11, <1>17, <2>1 DEF Pml4Entry
  <2>3. Entry(memory, r, i4).addr = r + 1 /\ Entry(memory, r, i4).present = x.present
    BY <2>2
  <2>4. Reach(r, i4, i3) =
          IF x.present /\ PdptEntry(e, i3).present THEN PdptEntry(e, i3).addr ELSE Unmapped
    BY <1>12, <2>3 DEF Reach
  <2>5. Reach(Root, i4, i3) = IF x.present /\ e.present THEN e.addr ELSE Unmapped
    BY <1>8, <1>13, <1>14, <1>17, <2>1 DEF Reach
  <2>6. CASE i3 < Low
    BY <1>2, <1>17, <2>4, <2>5, <2>6 DEF PdptEntry
  <2>7. CASE ~(i3 < Low)
    <3>1. PdptEntry(e, i3).present = FALSE
      BY <2>7 DEF PdptEntry
    <3> QED
      BY <1>2, <2>4, <2>7, <3>1
  <2> QED
    BY <2>6, <2>7
<1> QED
  BY <1>16, <1>17

-----------------------------------------------------------------------------
(* The answers: the proof. *)

LEMMA SendInit == Init => TypeInv /\ SendInv
<1> SUFFICES ASSUME Init PROVE TypeInv /\ SendInv
  OBVIOUS
<1>1. base \in Addresses
  BY PageNumbers, FirstTables DEF Init
<1> QED
  BY <1>1 DEF Init, TypeInv, SendInv, AnswerExact, Answers

\* One entry in one packet, the last.
LEMMA OnePacket ==
  ASSUME NEW e \in Report, NEW ps, ps = <<[entries |-> <<e>>, last |-> TRUE]>>
  PROVE  /\ FlattenSeq([k \in 1 .. Len(ps) |-> ps[k].entries]) = <<e>>
         /\ \A k \in 1 .. Len(ps) :
              /\ ps[k].last <=> k = Len(ps)
              /\ IF ps[k].last THEN Len(ps[k].entries) \in 1 .. PerPacket
                               ELSE Len(ps[k].entries) = PerPacket
         /\ ps \in Seq([entries : Seq(Report), last : BOOLEAN])
<1> DEFINE s == [k \in 1 .. Len(ps) |-> ps[k].entries]
<1>1. Len(ps) = 1 /\ ps[1] = [entries |-> <<e>>, last |-> TRUE]
  OBVIOUS
<1>2. s = Append(<<>>, <<e>>)
  <2>1. Append(<<>>, <<e>>) = <<<<e>>>>
    OBVIOUS
  <2>2. Len(s) = 1 /\ s[1] = <<e>> /\ s \in Seq(Seq(Report))
    <3>1. PICK R : R = Seq(Report)
      OBVIOUS
    <3>2. PICK r \in R : r = <<e>>
      <4>1. <<e>> \in Seq(Report)
        OBVIOUS
      <4> QED
        BY <3>1, <4>1
    <3>3. PICK n \in Nat : n = Len(ps) /\ n = 1
      BY <1>1
    <3>4. \A k \in 1 .. n : ps[k].entries = r
      BY <1>1, <3>2, <3>3
    <3>5. PICK f \in [1 .. n -> R] : f = s
      BY <3>3, <3>4
    <3>6. f \in Seq(R) /\ Len(f) = n
      BY FunctionIsSeq
    <3>7. f[1] = r
      BY <3>3, <3>4, <3>5
    <3> HIDE DEF s
    <3> QED
      BY <3>1, <3>2, <3>3, <3>5, <3>6, <3>7
  <2> QED
    BY <2>1, <2>2
<1>3. <<>> \in Seq(Seq(Report)) /\ <<e>> \in Seq(Report)
  OBVIOUS
<1>4. FlattenSeq(s) = FlattenSeq(<<>>) \o <<e>>
  BY <1>2, <1>3, FlatAppend
<1>5. FlattenSeq(<<>>) = <<>>
  BY DEF FlattenSeq
<1>6. FlattenSeq(s) = <<e>>
  BY <1>4, <1>5
<1> HIDE DEF s
<1>7. \A k \in 1 .. Len(ps) :
        /\ ps[k].last <=> k = Len(ps)
        /\ IF ps[k].last THEN Len(ps[k].entries) \in 1 .. PerPacket
                         ELSE Len(ps[k].entries) = PerPacket
  <2>1. ps[1].last = TRUE /\ Len(ps[1].entries) = 1 /\ 1 \in 1 .. PerPacket
    BY <1>1
  <2>2. \A k \in 1 .. Len(ps) : k = 1
    BY <1>1
  <2> QED
    BY <1>1, <2>1, <2>2
<1>8. ps \in Seq([entries : Seq(Report), last : BOOLEAN])
  <2>1. PICK p \in [entries : Seq(Report), last : BOOLEAN] :
          p = [entries |-> <<e>>, last |-> TRUE]
    BY <1>3
  <2>2. ps = <<p>>
    BY <2>1
  <2> QED
    BY <2>2
<1> QED
  BY <1>6, <1>7, <1>8 DEF s

\* No packet is sent with a status.
LEMMA NoPacket ==
  FlattenSeq([k \in 1 .. Len(<<>>) |-> <<>>[k].entries]) = <<>>
<1>1. Len([k \in 1 .. Len(<<>>) |-> <<>>[k].entries]) = 0
  OBVIOUS
<1> QED
  BY <1>1 DEF FlattenSeq

\* What core 0 reads where there is no memory is no answer.
LEMMA GoneAstray ==
  ASSUME TypeInv, Astray, UNCHANGED <<ap, starting>>, requests' \in 0 .. MaxRequests,
         expected' \in [answer : Answers, entries : Seq(Report)]
  PROVE  TypeInv' /\ SendInv'
<1>1. phase' = "stray" /\ UNCHANGED <<base, count, level, i, payload, packets, answer>>
  BY DEF Astray, sending, result
<1>2. TypeInv'
  BY <1>1 DEF TypeInv
<1>3. SendInv'
  BY <1>1 DEF SendInv, AnswerExact
<1> QED
  BY <1>2, <1>3

\* A request is counted.
LEMMA Received ==
  ASSUME TypeInv, NEW wanted, Receive(wanted)
  PROVE  /\ phase = "idle" /\ expected' = wanted /\ UNCHANGED <<ap, starting>>
         /\ requests' \in 0 .. MaxRequests /\ requests' > 0 /\ memory' = memory
  BY DEF TypeInv, Receive, paging

\* A status answers as expected, or the answer cannot be sent.
LEMMA StatusSent ==
  ASSUME TypeInv, NEW wanted \in [answer : Answers, entries : Seq(Report)],
         Receive(wanted), NEW code, SendStatus(code),
         \/ code = "failed"
         \/ code \in Answers /\ wanted = NoEntries(code)
  PROVE  TypeInv' /\ SendInv'
<1>1. /\ packets' = <<>> /\ answer' = code
      /\ UNCHANGED <<phase, base, count, level, i, payload>>
  BY DEF SendStatus, sending
<1>2. code \in Answers \cup {"failed"}
  OBVIOUS
<1>3. /\ phase = "idle" /\ expected' = wanted /\ UNCHANGED <<ap, starting>>
      /\ requests' \in 0 .. MaxRequests
  BY Received
<1>4. TypeInv'
  BY <1>1, <1>2, <1>3 DEF TypeInv
<1>5. FlattenSeq([k \in 1 .. Len(packets') |-> packets'[k].entries]) = <<>>
  BY <1>1, NoPacket
<1>6. \A k \in 1 .. Len(packets') : FALSE
  BY <1>1
<1>7. AnswerExact'
  <2>1. code # "failed" => expected'.answer = code /\ expected'.entries = <<>>
    BY <1>3 DEF NoEntries
  <2> QED
    BY <1>1, <1>5, <1>6, <2>1 DEF AnswerExact
<1>8. phase' = "idle"
  BY <1>1, <1>3
<1> QED
  BY <1>4, <1>7, <1>8 DEF SendInv

\* What stands for a status in expected.
LEMMA StatusType ==
  ASSUME NEW code \in Answers
  PROVE  NoEntries(code) \in [answer : Answers, entries : Seq(Report)]
<1>1. <<>> \in Seq(Report)
  OBVIOUS
<1> QED
  BY <1>1 DEF NoEntries

\* What is reported of an entry of a table.
LEMMA OneType ==
  ASSUME MemoryInv, NEW p \in Addresses, NEW k \in 0 .. TwoPages - 1, NEW l \in 1 .. 4
  PROVE  [entry |-> Entry(memory, p, k), position |-> k, level |-> l] \in Report
<1>1. PICK e \in [addr : Addresses, present : BOOLEAN] : e = Entry(memory, p, k)
  BY EntryType
<1>2. e \in Entries
  BY DEF Entries, Addresses
<1> QED
  BY <1>1, <1>2 DEF Report

\* So does an entry.
LEMMA EntrySent ==
  ASSUME TypeInv, MemoryInv,
         NEW p \in Addresses, NEW k \in 0 .. TwoPages - 1, NEW l \in 1 .. 4,
         SendEntry(p, k, l), NEW wanted, Receive(wanted),
         wanted = [answer |-> "entries",
                   entries |-> <<[entry |-> Entry(memory, p, k), position |-> k,
                                  level |-> l]>>]
  PROVE  TypeInv' /\ SendInv'
<1>1. PICK r \in Report : r = [entry |-> Entry(memory, p, k), position |-> k, level |-> l]
  BY OneType
<1>2. wanted = [answer |-> "entries", entries |-> <<r>>] /\ <<r>> \in Seq(Report)
  BY <1>1
<1>3. wanted \in [answer : Answers, entries : Seq(Report)]
  BY <1>2 DEF Answers
<1>4. /\ phase = "idle" /\ expected' = wanted /\ UNCHANGED <<ap, starting>>
      /\ requests' \in 0 .. MaxRequests
  BY Received
<1>5. CASE SendStatus("failed")
  BY <1>3, <1>5, StatusSent
<1>6. CASE Astray
  BY <1>3, <1>4, <1>6, GoneAstray
<1>7. CASE ~SendStatus("failed") /\ ~Astray
  <2>1. /\ packets' = <<[entries |-> <<r>>, last |-> TRUE]>>
        /\ answer' = "entries" /\ UNCHANGED <<phase, base, count, level, i, payload>>
    BY <1>1, <1>7 DEF SendEntry, sending
  <2>2. /\ FlattenSeq([n \in 1 .. Len(packets') |-> packets'[n].entries]) = <<r>>
        /\ \A n \in 1 .. Len(packets') :
             /\ packets'[n].last <=> n = Len(packets')
             /\ IF packets'[n].last THEN Len(packets'[n].entries) \in 1 .. PerPacket
                                    ELSE Len(packets'[n].entries) = PerPacket
        /\ packets' \in Seq([entries : Seq(Report), last : BOOLEAN])
    <3>1. PICK ps : ps = packets'
      OBVIOUS
    <3>2. ps = <<[entries |-> <<r>>, last |-> TRUE]>>
      BY <2>1, <3>1
    <3> HIDE <2>1
    <3> QED
      BY <3>1, <3>2, OnePacket
  <2>3. TypeInv'
    BY <1>3, <1>4, <2>1, <2>2 DEF TypeInv, Answers
  <2>4. expected'.answer = "entries" /\ expected'.entries = <<r>>
    BY <1>2, <1>4
  <2>5. AnswerExact'
    BY <2>1, <2>2, <2>4 DEF AnswerExact
  <2>6. phase' = "idle"
    BY <1>4, <2>1
  <2> QED
    BY <2>3, <2>5, <2>6 DEF SendInv
<1> QED
  BY <1>5, <1>6, <1>7

\* send_table begins with an empty payload buffer.
LEMMA TableBegun ==
  ASSUME TypeInv, MemoryInv,
         NEW p \in Addresses, NEW n \in {PageEntries, TwoPages}, NEW l \in 1 .. 4,
         SendTable(p, n, l), NEW wanted, Receive(wanted),
         wanted = [answer |-> "entries",
                      entries |-> [k \in 1 .. n |->
                        [entry |-> Entry(memory, p, k - 1), position |-> k - 1,
                         level |-> l]]]
  PROVE  TypeInv' /\ SendInv'
<1>1. /\ phase' = "table" /\ base' = p /\ count' = n /\ level' = l
      /\ i' = 0 /\ payload' = <<>> /\ packets' = <<>> /\ answer' = "none"
      /\ memory' = memory /\ expected' = wanted /\ UNCHANGED <<ap, starting>>
      /\ requests' \in 0 .. MaxRequests /\ requests' > 0
  BY Received DEF SendTable
<1>2. n \in Nat \ {0} /\ n - 1 <= TwoPages - 1 /\ TwoPages \in Nat
  BY DEF TwoPages
<1>3. PICK r \in [1 .. n -> Report] :
        r = [k \in 1 .. n |-> [entry |-> Entry(memory, p, k - 1), position |-> k - 1,
                               level |-> l]]
  <2>1. \A k \in 1 .. n : k - 1 \in 0 .. TwoPages - 1
    BY <1>2
  <2> QED
    BY <2>1, OneType
<1>4. r \in Seq(Report) /\ Len(r) = n
  BY <1>2
<1>5. expected'.answer = "entries" /\ expected'.entries = r
      /\ expected' \in [answer : Answers, entries : Seq(Report)]
  BY <1>1, <1>3, <1>4 DEF Answers
<1>6. TypeInv'
  BY <1>1, <1>2, <1>5 DEF TypeInv, Answers
<1>7. \A k \in 1 .. n : r[k] = [entry |-> Entry(memory, p, k - 1), position |-> k - 1,
                                level |-> l]
  BY <1>3
<1>8. TableInv'
  BY <1>1, <1>2, <1>4, <1>5, <1>7 DEF TableInv
<1>9. Sent' = <<>>
  BY <1>1, NoPacket DEF Sent
<1>10. Glue(Sent', payload') = SubSeq(r, 1, 0)
  <2>1. SubSeq(r, 1, 0) = <<>>
    BY <1>4
  <2> QED
    BY <1>1, <1>9, <2>1 DEF Glue
<1>11. PacketsInv'
  BY <1>1, <1>5, <1>10 DEF PacketsInv
<1>12. AnswerExact'
  BY <1>1 DEF AnswerExact
<1> QED
  BY <1>6, <1>8, <1>11, <1>12 DEF SendInv

\* What is expected is an answer, whatever the tables hold.
LEMMA ExpectedType ==
  ASSUME MemoryInv, NEW c \in Contexts, NEW at \in Index \X Index \X Index \X Index
  PROVE  Expected(c, at) \in [answer : Answers, entries : Seq(Report)]
<1>1. "entries" \in Answers /\ \A l \in 1 .. 4 : OutOfRange(l) \in Answers
  BY DEF OutOfRange, Answers
<1>2. ASSUME NEW l \in 1 .. 4, \A n \in 1 .. 4 - l : Passes(at, n), NEW k \in 0 .. TwoPages - 1
      PROVE  One(c, at, l, k) \in Report
  <2>1. PICK p \in Addresses : p = Table(l, cr3[c], at)
    BY <1>2, TableType
  <2> QED
    BY <1>2, <2>1, OneType DEF One
<1>3. ASSUME NEW l \in 1 .. 4, \A n \in 1 .. 4 - l : Passes(at, n), ~Passes(at, 5 - l)
      PROVE  Expected(c, at) \in [answer : Answers, entries : Seq(Report)]
  <2>1. CASE at[5 - l] = CurrentTable
    <3>1. PICK n \in Nat : n = Size(l) /\ n <= TwoPages /\ TwoPages \in Nat
      BY DEF Size, TwoPages
    <3>2. \A k \in 1 .. n : One(c, at, l, k - 1) \in Report
      <4>1. \A k \in 1 .. n : k - 1 \in 0 .. TwoPages - 1
        BY <3>1
      <4> QED
        BY <1>2, <1>3, <4>1
    <3>3. PICK r \in [1 .. n -> Report] : r = [k \in 1 .. n |-> One(c, at, l, k - 1)]
      BY <3>2
    <3>4. r \in Seq(Report)
      BY FunctionIsSeq
    <3>5. Expected(c, at) = [answer |-> "entries", entries |-> r]
      BY <1>3, <2>1, <3>1, <3>3, FirstDecides
    <3> QED
      BY <1>1, <3>4, <3>5
  <2>2. CASE at[5 - l] = PreviousEntry /\ l < 4
    <3>1. l + 1 \in 1 .. 4 /\ 4 - l \in 1 .. 4 - l /\ \A n \in 1 .. 4 - (l + 1) : n \in 1 .. 4 - l
      BY <2>2
    <3>2. PICK k \in 0 .. TwoPages - 1 : k = at[4 - l]
      <4>1. Passes(at, 4 - l)
        BY <1>3, <3>1
      <4> QED
        BY <4>1 DEF Passes, TwoPages
    <3>3. PICK r \in Report : r = One(c, at, l + 1, at[4 - l])
      BY <1>2, <1>3, <3>1, <3>2
    <3>4. Expected(c, at) = [answer |-> "entries", entries |-> <<r>>]
      BY <1>3, <2>2, <3>3, FirstDecides
    <3> QED
      BY <1>1, <3>4
  <2>3. CASE at[5 - l] # CurrentTable /\ ~(at[5 - l] = PreviousEntry /\ l < 4)
    <3>1. Expected(c, at) = NoEntries(OutOfRange(l))
      BY <1>3, <2>3, FirstDecides
    <3> QED
      BY <1>1, <3>1, StatusType
  <2> QED
    BY <2>1, <2>2, <2>3
<1>4. ASSUME \A n \in 1 .. 4 : Passes(at, n)
      PROVE  Expected(c, at) \in [answer : Answers, entries : Seq(Report)]
  <2>1. PICK k \in 0 .. TwoPages - 1 : k = at[4]
    BY <1>4 DEF Passes, TwoPages
  <2>2. PICK r \in Report : r = One(c, at, 1, at[4])
    BY <1>2, <1>4, <2>1
  <2>3. Expected(c, at) = [answer |-> "entries", entries |-> <<r>>]
    BY <1>4, <2>2, NoneDecides
  <2> QED
    BY <1>1, <2>3
<1>5. \/ \A n \in 1 .. 4 : Passes(at, n)
      \/ \E l \in 1 .. 4 : ~Passes(at, 5 - l) /\ \A n \in 1 .. 4 - l : Passes(at, n)
  <2>1. CASE ~Passes(at, 1)
    <3>1. 4 \in 1 .. 4 /\ 5 - 4 = 1 /\ \A n \in 1 .. 4 - 4 : FALSE
      OBVIOUS
    <3> QED
      BY <2>1, <3>1
  <2>2. CASE Passes(at, 1) /\ ~Passes(at, 2)
    <3>1. 3 \in 1 .. 4 /\ 5 - 3 = 2 /\ \A n \in 1 .. 4 - 3 : n = 1
      OBVIOUS
    <3> QED
      BY <2>2, <3>1
  <2>3. CASE Passes(at, 1) /\ Passes(at, 2) /\ ~Passes(at, 3)
    <3>1. 2 \in 1 .. 4 /\ 5 - 2 = 3 /\ \A n \in 1 .. 4 - 2 : n = 1 \/ n = 2
      OBVIOUS
    <3> QED
      BY <2>3, <3>1
  <2>4. CASE Passes(at, 1) /\ Passes(at, 2) /\ Passes(at, 3) /\ ~Passes(at, 4)
    <3>1. 1 \in 1 .. 4 /\ 5 - 1 = 4 /\ \A n \in 1 .. 4 - 1 : n = 1 \/ n = 2 \/ n = 3
      OBVIOUS
    <3> QED
      BY <2>4, <3>1
  <2>5. CASE Passes(at, 1) /\ Passes(at, 2) /\ Passes(at, 3) /\ Passes(at, 4)
    <3>1. \A n \in 1 .. 4 : n = 1 \/ n = 2 \/ n = 3 \/ n = 4
      OBVIOUS
    <3> QED
      BY <2>5, <3>1
  <2> QED
    BY <2>1, <2>2, <2>3, <2>4, <2>5
<1> QED
  BY <1>3, <1>4, <1>5

\* The cases of handle_get_paging_info are those of Expected.
LEMMA GetAnswers ==
  ASSUME IInv, NEW c \in Contexts, NEW at \in Index \X Index \X Index \X Index, Get(c, at)
  PROVE  TypeInv' /\ SendInv'
<1>1. TypeInv /\ MemoryInv
  BY DEF IInv
<1>2. PICK wanted \in [answer : Answers, entries : Seq(Report)] : wanted = Expected(c, at)
  BY <1>1, ExpectedType
<1>3. /\ Receive(wanted) /\ expected' = wanted /\ UNCHANGED <<ap, starting>>
      /\ requests' \in 0 .. MaxRequests
  <2>1. Receive(wanted)
    BY <1>2 DEF Get
  <2> QED
    BY <1>1, <2>1, Received
<1>4. \A n \in 1 .. 4 : at[n] \in Index
  OBVIOUS
<1>5. /\ CurrentTable \notin Nat /\ PreviousEntry \notin Nat /\ CurrentTable # PreviousEntry
      /\ \A x \in Index : x \in Nat \/ x = CurrentTable \/ x = PreviousEntry
  BY DEF CurrentTable, PreviousEntry, Index, IndexBeyond, TwoPages
<1>6. ASSUME NEW l \in 1 .. 4, \A n \in 1 .. 4 - l : Passes(at, n),
             ~Passes(at, 5 - l), SendStatus(OutOfRange(l)),
             at[5 - l] # CurrentTable, ~(at[5 - l] = PreviousEntry /\ l < 4)
      PROVE  TypeInv' /\ SendInv'
  <2>1. wanted = NoEntries(OutOfRange(l))
    BY <1>2, <1>6, FirstDecides
  <2>2. OutOfRange(l) \in Answers
    BY DEF OutOfRange, Answers
  <2> QED
    BY <1>1, <1>3, <1>6, <2>1, <2>2, StatusSent
<1>7. ASSUME NEW l \in 1 .. 4, \A n \in 1 .. 4 - l : Passes(at, n),
             ~Passes(at, 5 - l), at[5 - l] = CurrentTable,
             SendTable(Table(l, cr3[c], at), Size(l), l)
      PROVE  TypeInv' /\ SendInv'
  <2>1. PICK p \in Addresses : p = Table(l, cr3[c], at)
    BY <1>1, <1>7, TableType
  <2>2. PICK n \in {PageEntries, TwoPages} : n = Size(l)
    BY DEF Size
  <2>3. wanted = [answer |-> "entries",
                   entries |-> [k \in 1 .. n |->
                     [entry |-> Entry(memory, p, k - 1), position |-> k - 1,
                      level |-> l]]]
    <3>1. Expected(c, at) = [answer |-> "entries",
                             entries |-> [k \in 1 .. Size(l) |-> One(c, at, l, k - 1)]]
      BY <1>7, FirstDecides
    <3> QED
      BY <1>2, <2>1, <2>2, <3>1 DEF One
  <2>4. SendTable(p, n, l)
    BY <1>7, <2>1, <2>2
  <2> QED
    BY <1>1, <1>3, <2>3, <2>4, TableBegun
<1>8. ASSUME NEW l \in 1 .. 3, \A n \in 1 .. 4 - l : Passes(at, n),
             ~Passes(at, 5 - l), at[5 - l] = PreviousEntry,
             SendEntry(Table(l + 1, cr3[c], at), at[4 - l], l + 1)
      PROVE  TypeInv' /\ SendInv'
  <2>1. l \in 1 .. 4 /\ l + 1 \in 1 .. 4 /\ l < 4 /\ 4 - l \in 1 .. 4 - l
        /\ \A n \in 1 .. 4 - (l + 1) : n \in 1 .. 4 - l
    OBVIOUS
  <2>2. PICK p \in Addresses : p = Table(l + 1, cr3[c], at)
    BY <1>1, <1>8, <2>1, TableType
  <2>3. PICK k \in 0 .. TwoPages - 1 : k = at[4 - l]
    <3>1. Passes(at, 4 - l)
      BY <1>8, <2>1
    <3> QED
      BY <3>1 DEF Passes, TwoPages
  <2>4. wanted = [answer |-> "entries", entries |-> <<One(c, at, l + 1, at[4 - l])>>]
    BY <1>2, <1>8, <2>1, FirstDecides
  <2> QED
    BY <1>1, <1>3, <1>8, <2>1, <2>2, <2>3, <2>4, EntrySent DEF One
<1>9. ASSUME \A n \in 1 .. 4 : Passes(at, n),
             SendEntry(Table(1, cr3[c], at), at[4], 1)
      PROVE  TypeInv' /\ SendInv'
  <2>1. PICK p \in Addresses : p = Table(1, cr3[c], at)
    BY <1>1, <1>9, TableType
  <2>2. PICK k \in 0 .. TwoPages - 1 : k = at[4]
    BY <1>9 DEF Passes, TwoPages
  <2>3. wanted = [answer |-> "entries", entries |-> <<One(c, at, 1, at[4])>>]
    BY <1>2, <1>9, NoneDecides
  <2>4. wanted = [answer |-> "entries",
                     entries |-> <<[entry |-> Entry(memory, p, k), position |-> k,
                                    level |-> 1]>>]
    BY <2>1, <2>2, <2>3 DEF One
  <2>5. SendEntry(p, k, 1)
    BY <1>9, <2>1, <2>2
  <2>6. 1 \in 1 .. 4
    OBVIOUS
  <2> QED
    BY <1>1, <1>3, <2>4, <2>5, <2>6, EntrySent
<1>10. CASE AtLevel4(cr3[c], at)
  <2>1. at[1] = CurrentTable \/ at[1] = PreviousEntry \/ at[1] >= PageEntries
    BY <1>10 DEF AtLevel4
  <2>2. at[1] \in Index
    BY <1>4
  <2>3. ~Passes(at, 1)
    BY <1>5, <2>1, <2>2 DEF Passes
  <2>4. Table(4, cr3[c], at) = cr3[c] /\ Size(4) = PageEntries
    BY DEF Table, Size
  <2>5. CASE at[1] = CurrentTable
    <3>1. ~(at[1] >= PageEntries)
      BY <2>5 DEF CurrentTable
    <3>2. SendTable(cr3[c], PageEntries, 4)
      BY <1>5, <1>10, <2>5, <3>1 DEF AtLevel4
    <3> QED
      BY <1>7, <1>10, <2>3, <2>4, <2>5, <3>2
  <2>6. CASE at[1] # CurrentTable
    <3>1. SendStatus(OutOfRange(4))
      BY <1>10, <2>6 DEF AtLevel4
    <3> QED
      BY <1>6, <1>10, <2>3, <2>6, <3>1
  <2> QED
    BY <2>5, <2>6
<1>11. ASSUME NEW n \in 2 .. 4, \A k \in 1 .. n - 1 : Passes(at, k),
              AtLevel(5 - n, cr3[c], at)
       PROVE  TypeInv' /\ SendInv'
  <2>1. PICK l \in 1 .. 3 : l = 5 - n /\ n = 5 - l /\ n - 1 = 4 - l
    OBVIOUS
  <2>2. \/ at[n] = CurrentTable /\ SendTable(Table(l, cr3[c], at), TwoPages, l)
        \/ at[n] = PreviousEntry
             /\ SendEntry(Table(l + 1, cr3[c], at), at[n - 1], l + 1)
        \/ at[n] >= TwoPages /\ SendStatus(OutOfRange(l))
        \/ at[n] \in 0 .. TwoPages - 1 /\ l = 1
             /\ SendEntry(Table(l, cr3[c], at), at[n], 1)
    BY <1>11, <2>1 DEF AtLevel
  <2>3. at[n] \in Index /\ l \in 1 .. 4 /\ l # 4
    BY <1>4, <2>1
  <2>4. Passes(at, n) <=> at[n] \in 0 .. TwoPages - 1
    BY DEF Passes
  <2>5. CASE at[n] = CurrentTable /\ SendTable(Table(l, cr3[c], at), TwoPages, l)
    <3>1. ~Passes(at, n)
      BY <1>5, <2>4, <2>5
    <3> QED
      BY <1>7, <1>11, <2>1, <2>3, <2>5, <3>1 DEF Size
  <2>6. CASE at[n] = PreviousEntry /\ SendEntry(Table(l + 1, cr3[c], at), at[n - 1], l + 1)
    <3>1. ~Passes(at, n)
      BY <1>5, <2>4, <2>6
    <3> QED
      BY <1>8, <1>11, <2>1, <2>3, <2>6, <3>1
  <2>7. CASE at[n] >= TwoPages /\ SendStatus(OutOfRange(l))
    <3>1. TwoPages \in Nat
      BY DEF TwoPages
    <3>2. at[n] # CurrentTable /\ at[n] # PreviousEntry
      BY <2>7, <3>1 DEF CurrentTable, PreviousEntry
    <3>3. ~Passes(at, n)
      BY <2>3, <2>4, <2>7, <3>1 DEF Index, CurrentTable, PreviousEntry, IndexBeyond
    <3> QED
      BY <1>6, <1>11, <2>1, <2>3, <2>7, <3>2, <3>3
  <2>8. CASE at[n] \in 0 .. TwoPages - 1 /\ l = 1 /\ SendEntry(Table(l, cr3[c], at), at[n], 1)
    <3>1. n = 4 /\ \A k \in 1 .. 4 : k = n \/ k \in 1 .. n - 1
      BY <2>1, <2>8
    <3>2. \A k \in 1 .. 4 : Passes(at, k)
      BY <1>11, <2>4, <2>8, <3>1
    <3> QED
      BY <1>9, <1>11, <2>8, <3>1, <3>2
  <2> QED
    BY <2>2, <2>5, <2>6, <2>7, <2>8
<1>12. CASE Astray
  BY <1>1, <1>3, <1>12, GoneAstray
<1>13. \/ AtLevel4(cr3[c], at) \/ Astray
       \/ \E n \in 2 .. 4 : (\A k \in 1 .. n - 1 : Passes(at, k)) /\ AtLevel(5 - n, cr3[c], at)
  BY DEF Get
<1> QED
  BY <1>10, <1>11, <1>12, <1>13

\* A refusal names its reason.
LEMMA Refused ==
  ASSUME IInv, GetShort \/ \E c \in Ids : GetRefused(c)
  PROVE  TypeInv' /\ SendInv'
<1>1. TypeInv
  BY DEF IInv
<1>2. ASSUME NEW code \in Refusals, Receive(NoEntries(code)), SendStatus(code)
      PROVE  TypeInv' /\ SendInv'
  <2>1. code \in Answers
    BY DEF Answers
  <2>2. PICK wanted \in [answer : Answers, entries : Seq(Report)] : wanted = NoEntries(code)
    BY <2>1, StatusType
  <2> QED
    BY <1>1, <1>2, <2>1, <2>2, StatusSent
<1>3. CASE GetShort
  BY <1>2, <1>3 DEF GetShort, Refusals
<1>4. ASSUME NEW c \in Ids, GetRefused(c)
      PROVE  TypeInv' /\ SendInv'
  <2>1. c \in Nat /\ c # 0
    BY <1>4 DEF Ids, GetRefused, started
  <2>2. c \in Contexts <=> c < MaxCoreCount
    BY <2>1 DEF Contexts
  <2>3. c \in Aps <=> c < MaxCoreCount /\ present(c)
    BY <2>1, <2>2 DEF Aps
  <2>4. CASE c >= MaxCoreCount /\ SendStatus("no_context")
    <3>1. Refusal(c) = "no_context"
      BY <2>1, <2>2, <2>3, <2>4 DEF Refusal
    <3> QED
      BY <1>2, <1>4, <2>4, <3>1 DEF GetRefused, Refusals
  <2>5. CASE c < MaxCoreCount /\ ~present(c) /\ SendStatus("absent")
    <3>1. Refusal(c) = "absent"
      BY <2>2, <2>3, <2>5 DEF Refusal
    <3> QED
      BY <1>2, <1>4, <2>5, <3>1 DEF GetRefused, Refusals
  <2>6. CASE c < MaxCoreCount /\ present(c) /\ SendStatus("not_started")
    <3>1. Refusal(c) = "not_started"
      BY <2>2, <2>3, <2>6 DEF Refusal
    <3> QED
      BY <1>2, <1>4, <2>6, <3>1 DEF GetRefused, Refusals
  <2> QED
    BY <1>4, <2>4, <2>5, <2>6 DEF GetRefused
<1> QED
  BY <1>3, <1>4

\* A packet that goes out appends its entries to those sent.
LEMMA PacketSent ==
  ASSUME TypeInv, NEW b \in BOOLEAN,
         packets' = Append(packets, [entries |-> payload, last |-> b])
  PROVE  /\ Sent \in Seq(Report) /\ Sent' = Glue(Sent, payload)
         /\ packets' \in Seq([entries : Seq(Report), last : BOOLEAN])
         /\ Len(packets') = Len(packets) + 1
         /\ packets'[Len(packets) + 1] = [entries |-> payload, last |-> b]
         /\ \A k \in 1 .. Len(packets) : packets'[k] = packets[k]
<1>1. PICK m \in Nat : m = Len(packets)
  BY DEF TypeInv
<1>2. PICK ps \in Seq([entries : Seq(Report), last : BOOLEAN]) : ps = packets
  BY DEF TypeInv
<1>3. PICK p \in [entries : Seq(Report), last : BOOLEAN] : p = [entries |-> payload, last |-> b]
  BY DEF TypeInv
<1>4. PICK qs \in Seq([entries : Seq(Report), last : BOOLEAN]) :
        /\ qs = packets' /\ Len(qs) = m + 1 /\ qs[m + 1] = p
        /\ \A k \in 1 .. m : qs[k] = ps[k]
  <2>1. PICK qs : qs = Append(ps, p)
    OBVIOUS
  <2>2. /\ qs \in Seq([entries : Seq(Report), last : BOOLEAN])
        /\ Len(qs) = Len(ps) + 1 /\ qs[Len(ps) + 1] = p
        /\ \A k \in 1 .. Len(ps) : qs[k] = ps[k]
    BY <2>1, Appended
  <2>3. packets' = qs
    BY <1>2, <1>3, <2>1
  <2> QED
    BY <1>1, <1>2, <2>2, <2>3
<1>5. /\ Len(qs) = m + 1 /\ qs[m + 1] = p
      /\ \A k \in 1 .. m : qs[k] = ps[k]
  BY <1>4
<1> DEFINE s == [k \in 1 .. m |-> ps[k].entries]
           t == [k \in 1 .. m + 1 |-> qs[k].entries]
<1>6. s \in Seq(Seq(Report)) /\ Len(s) = m
  <2>1. \A k \in 1 .. m : ps[k] \in [entries : Seq(Report), last : BOOLEAN]
    BY <1>1, <1>2, ElementOfSeq
  <2>2. \A k \in 1 .. m : ps[k].entries \in Seq(Report)
    BY <2>1
  <2>3. s \in [1 .. m -> Seq(Report)]
    BY <2>2
  <2> QED
    BY <2>3, FunctionIsSeq
<1>7. t = Append(s, payload)
  <2>1. payload \in Seq(Report) /\ p.entries = payload
    BY <1>3
  <2>2. PICK u \in Seq(Seq(Report)) :
          /\ u = Append(s, payload) /\ Len(u) = m + 1 /\ u[m + 1] = payload
          /\ \A k \in 1 .. m : u[k] = s[k]
    <3> HIDE DEF s
    <3>0. PICK R : R = Seq(Report)
      OBVIOUS
    <3>1. PICK a \in Seq(R) : a = s
      BY <1>6, <3>0
    <3>2. PICK v \in R : v = payload
      BY <2>1, <3>0
    <3>3. PICK u : u = Append(a, v)
      OBVIOUS
    <3>4. /\ u \in Seq(R) /\ Len(u) = Len(a) + 1 /\ u[Len(a) + 1] = v
          /\ \A k \in 1 .. Len(a) : u[k] = a[k]
      BY <3>3, Appended
    <3> QED
      BY <1>6, <3>0, <3>1, <3>2, <3>3, <3>4
  <2>3. Len(u) = m + 1 /\ u[m + 1] = payload /\ \A k \in 1 .. m : u[k] = s[k]
    BY <2>2
  <2>4. t[m + 1] = payload /\ \A k \in 1 .. m : t[k] = s[k]
    BY <1>5, <2>1
  <2>5. \A k \in 1 .. m + 1 : k = m + 1 \/ k \in 1 .. m
    OBVIOUS
  <2>6. u \in [1 .. m + 1 -> Seq(Report)]
    BY <2>2, LenProperties
  <2> HIDE DEF s, t
  <2>7. \A k \in 1 .. m + 1 : t[k] = u[k]
    BY <2>3, <2>4, <2>5
  <2>8. u = [k \in 1 .. m + 1 |-> u[k]]
    BY <2>2, <2>6
  <2>9. t = [k \in 1 .. m + 1 |-> t[k]]
    BY DEF t
  <2> QED
    BY <2>2, <2>7, <2>8, <2>9
<1>8. Sent = FlattenSeq(s) /\ Sent' = FlattenSeq(t)
  BY <1>1, <1>2, <1>4, <1>5 DEF Sent
<1> HIDE DEF s, t
<1>9. FlattenSeq(t) = FlattenSeq(s) \o payload
  BY <1>6, <1>7, FlatAppend DEF TypeInv
<1>10. Sent \in Seq(Report)
  BY <1>6, <1>8, FlatType
<1>11. Sent' = Glue(Sent, payload)
  BY <1>8, <1>9 DEF Glue
<1> QED
  BY <1>1, <1>2, <1>3, <1>4, <1>5, <1>10, <1>11

\* What goes into the payload buffer is the next entry expected.
LEMMA EntryWritten ==
  ASSUME IInv, TableEntry
  PROVE  TypeInv' /\ SendInv'
<1>1. /\ TypeInv /\ TableInv /\ PacketsInv /\ phase = "table" /\ MemoryInv
  BY DEF IInv, SendInv, TableEntry
<1>2. /\ i < count /\ i' = i + 1
      /\ UNCHANGED <<memory, ap, requests, expected, phase, starting, base, count, level,
                     answer>>
  BY DEF TableEntry, paging
<1>3. PICK n \in Nat : n = i
  BY <1>1 DEF TypeInv, TwoPages
<1>4. PICK x \in Seq(Report) : x = expected.entries
  BY <1>1 DEF TypeInv
<1>5. n + 1 \in 1 .. Len(x) /\ Len(x) = count
  BY <1>1, <1>2, <1>3, <1>4 DEF TableInv
<1>6. PICK e \in Report : /\ e = x[n + 1]
                          /\ e = [entry |-> Entry(memory, base, n), position |-> n,
                                  level |-> level]
  <2>1. x[n + 1] = [entry |-> Entry(memory, base, n), position |-> n, level |-> level]
    BY <1>1, <1>4, <1>5 DEF TableInv
  <2> QED
    BY <1>4, <1>5, <2>1
<1> DEFINE full == n % PerPacket = 0 /\ n # 0
<1>7. /\ payload' = IF full THEN <<e>> ELSE Append(payload, e)
      /\ packets' = IF full THEN Append(packets, [entries |-> payload, last |-> FALSE])
                            ELSE packets
  BY <1>3, <1>6 DEF TableEntry
<1>8. PICK p \in Seq(Report) : p = payload
  BY <1>1 DEF TypeInv
<1>9. n # 0 => Len(p) = ((n - 1) % PerPacket) + 1
  BY <1>1, <1>3, <1>8 DEF PacketsInv
<1>10. i' \in 0 .. count
  BY <1>2, <1>1 DEF TypeInv, TwoPages
<1>11. SubSeq(x, 1, n + 1) = Append(SubSeq(x, 1, n), e) /\ SubSeq(x, 1, n) \in Seq(Report)
  <2>1. n + 1 <= Len(x)
    BY <1>5
  <2> QED
    BY <1>6, <2>1, BeginningGrows
<1>12. Glue(Sent, p) = SubSeq(x, 1, n)
  BY <1>1, <1>3, <1>4, <1>8 DEF PacketsInv
<1>13. Sent \in Seq(Report)
  <2>1. PICK ps \in Seq([entries : Seq(Report), last : BOOLEAN]) : ps = packets
    BY <1>1 DEF TypeInv
  <2>2. PICK m \in Nat : m = Len(ps)
    OBVIOUS
  <2>3. \A k \in 1 .. m : ps[k] \in [entries : Seq(Report), last : BOOLEAN]
    BY <2>2, ElementOfSeq
  <2>4. \A k \in 1 .. m : ps[k].entries \in Seq(Report)
    BY <2>3
  <2>5. [k \in 1 .. m |-> ps[k].entries] \in [1 .. m -> Seq(Report)]
    BY <2>4
  <2>6. [k \in 1 .. m |-> ps[k].entries] \in Seq(Seq(Report))
    BY <2>5, FunctionIsSeq
  <2> QED
    BY <2>1, <2>2, <2>6, FlatType DEF Sent
<1>14. TableInv'
  BY <1>1, <1>2 DEF TableInv
<1>15. PICK m \in Nat \ {0} : m = PerPacket
  OBVIOUS
<1>16. CASE full
  <2>1. payload' = <<e>> /\ packets' = Append(packets, [entries |-> payload, last |-> FALSE])
    BY <1>7, <1>16
  <2>2. /\ Sent' = Glue(Sent, p)
        /\ packets' \in Seq([entries : Seq(Report), last : BOOLEAN])
        /\ Len(packets') = Len(packets) + 1
        /\ packets'[Len(packets) + 1] = [entries |-> payload, last |-> FALSE]
        /\ \A k \in 1 .. Len(packets) : packets'[k] = packets[k]
    BY <1>1, <1>8, <2>1, PacketSent
  <2>3. TypeInv'
    BY <1>1, <1>2, <1>10, <2>1, <2>2 DEF TypeInv
  <2>4. Len(p) = PerPacket
    <3>1. (n - 1) % m = m - 1
      BY <1>15, <1>16, FillLevel
    <3> QED
      BY <1>9, <1>15, <1>16, <3>1
  <2>5. n % PerPacket = 0
    BY <1>16
  <2>6. Glue(Sent', payload') = SubSeq(x, 1, n + 1)
    <3>1. SubSeq(x, 1, n) \in Seq(Report)
      BY <1>11
    <3>2. \A s \in Seq(Report) : s \o <<e>> = Append(s, e)
      OBVIOUS
    <3> QED
      BY <1>11, <1>12, <2>1, <2>2, <3>1, <3>2 DEF Glue
  <2>7. \A k \in 1 .. Len(packets') :
          ~packets'[k].last /\ Len(packets'[k].entries) = PerPacket
    <3>1. PICK l \in Nat : l = Len(packets)
      BY <1>1 DEF TypeInv
    <3>2. \A k \in 1 .. l + 1 : k = l + 1 \/ k \in 1 .. l
      OBVIOUS
    <3>3. \A k \in 1 .. l : ~packets'[k].last /\ Len(packets'[k].entries) = PerPacket
      BY <1>1, <2>2, <3>1 DEF PacketsInv
    <3>4. ~packets'[l + 1].last /\ Len(packets'[l + 1].entries) = PerPacket
      BY <1>8, <2>2, <2>4, <3>1
    <3> QED
      BY <2>2, <3>1, <3>2, <3>3, <3>4
  <2>8. i' = n + 1 /\ i' # 0 /\ Len(payload') = (((n + 1) - 1) % PerPacket) + 1
    <3>1. (n + 1) - 1 = n
      OBVIOUS
    <3>2. Len(<<e>>) = 1
      OBVIOUS
    <3> QED
      BY <1>2, <1>3, <2>1, <2>5, <3>1, <3>2
  <2>9. PacketsInv'
    BY <1>2, <1>4, <2>6, <2>7, <2>8 DEF PacketsInv
  <2>10. AnswerExact'
    BY <1>1, <1>2 DEF AnswerExact
  <2> QED
    BY <1>14, <2>3, <2>9, <2>10 DEF SendInv
<1>17. CASE ~full
  <2>1. payload' = Append(p, e) /\ packets' = packets /\ Sent' = Sent
    BY <1>7, <1>8, <1>17 DEF Sent
  <2>2. payload' \in Seq(Report) /\ Len(payload') = Len(p) + 1
    BY <2>1
  <2>3. TypeInv'
    BY <1>1, <1>2, <1>10, <2>1, <2>2 DEF TypeInv
  <2>4. i' = n + 1 /\ i' # 0
    BY <1>2, <1>3
  <2>5. Len(payload') = (((n + 1) - 1) % PerPacket) + 1
    <3>1. (n + 1) - 1 = n
      OBVIOUS
    <3>2. CASE n = 0
      <4>1. p = <<>> /\ 0 % m = 0
        BY <1>1, <1>3, <1>8, <3>2 DEF PacketsInv
      <4> QED
        BY <1>15, <2>2, <3>1, <3>2, <4>1
    <3>3. CASE n # 0
      <4>1. n % m # 0
        BY <1>15, <1>17, <3>3
      <4>2. ((n - 1) % m) + 1 = n % m
        BY <3>3, <4>1, FillLevel
      <4> QED
        BY <1>9, <1>15, <2>2, <3>1, <3>3, <4>2
    <3> QED
      BY <3>2, <3>3
  <2>6. Glue(Sent', payload') = SubSeq(x, 1, n + 1)
    <3>1. \A s \in Seq(Report) : s \o Append(p, e) = Append(s \o p, e)
      OBVIOUS
    <3> QED
      BY <1>11, <1>12, <1>13, <2>1, <3>1 DEF Glue
  <2>7. PacketsInv'
    BY <1>1, <1>2, <1>4, <2>1, <2>4, <2>5, <2>6 DEF PacketsInv
  <2>8. AnswerExact'
    BY <1>1, <1>2 DEF AnswerExact
  <2> QED
    BY <1>14, <2>3, <2>7, <2>8 DEF SendInv
<1> QED
  BY <1>16, <1>17

\* The last packet completes the table.
LEMMA TableSent ==
  ASSUME IInv, TableEnd
  PROVE  TypeInv' /\ SendInv'
<1>1. /\ TypeInv /\ TableInv /\ PacketsInv /\ i = count
      /\ phase' = "idle" /\ answer' = "entries"
      /\ packets' = Append(packets, [entries |-> payload, last |-> TRUE])
      /\ UNCHANGED <<memory, ap, requests, expected, starting, base, count, level, i, payload>>
  BY DEF IInv, SendInv, TableEnd, paging, sending
<1>2. PICK x \in Seq(Report) : x = expected.entries /\ Len(x) = count
  BY <1>1 DEF TypeInv, TableInv
<1>3. /\ Sent' = Glue(Sent, payload)
      /\ packets' \in Seq([entries : Seq(Report), last : BOOLEAN])
      /\ Len(packets') = Len(packets) + 1
      /\ packets'[Len(packets) + 1] = [entries |-> payload, last |-> TRUE]
      /\ \A k \in 1 .. Len(packets) : packets'[k] = packets[k]
  BY <1>1, PacketSent
<1>4. TypeInv'
  BY <1>1, <1>3 DEF TypeInv, Answers
<1>5. Sent' = x
  <2>1. SubSeq(x, 1, Len(x)) = x
    BY <1>2
  <2> QED
    BY <1>1, <1>2, <1>3, <2>1 DEF PacketsInv
<1>6. Len(payload) \in 1 .. PerPacket
  <2>1. PICK n \in Nat \ {0} : n = count
    BY <1>1 DEF TypeInv, TableInv, TwoPages
  <2>2. PICK m \in Nat \ {0} : m = PerPacket
    OBVIOUS
  <2>3. Len(payload) = ((n - 1) % m) + 1
    BY <1>1, <2>1, <2>2 DEF PacketsInv
  <2>4. (n - 1) % m \in 0 .. m - 1
    BY FillLevel
  <2> QED
    BY <2>2, <2>3, <2>4
<1>7. PICK l \in Nat : l = Len(packets)
  BY <1>1 DEF TypeInv
<1>8. ASSUME NEW k \in 1 .. l + 1
      PROVE  /\ packets'[k].last <=> k = l + 1
             /\ IF packets'[k].last THEN Len(packets'[k].entries) \in 1 .. PerPacket
                                    ELSE Len(packets'[k].entries) = PerPacket
  <2>1. CASE k = l + 1
    <3>1. packets'[k].last = TRUE /\ packets'[k].entries = payload
      BY <1>3, <1>7, <2>1
    <3> QED
      BY <1>6, <2>1, <3>1
  <2>2. CASE k # l + 1
    <3>1. k \in 1 .. l
      BY <2>2
    <3>2. packets'[k] = packets[k] /\ ~packets[k].last /\ Len(packets[k].entries) = PerPacket
      BY <1>1, <1>3, <1>7, <3>1 DEF PacketsInv
    <3> QED
      BY <2>2, <3>2
  <2> QED
    BY <2>1, <2>2
<1>9. expected'.answer = "entries" /\ expected'.entries = x
  BY <1>1, <1>2 DEF TableInv
<1>10. AnswerExact'
  <2>1. FlattenSeq([k \in 1 .. Len(packets') |-> packets'[k].entries]) = x
    BY <1>5 DEF Sent
  <2>2. \A k \in 1 .. Len(packets') :
          /\ packets'[k].last <=> k = Len(packets')
          /\ IF packets'[k].last THEN Len(packets'[k].entries) \in 1 .. PerPacket
                                 ELSE Len(packets'[k].entries) = PerPacket
    BY <1>3, <1>7, <1>8
  <2> QED
    BY <1>1, <1>9, <2>1, <2>2 DEF AnswerExact
<1> QED
  BY <1>1, <1>4, <1>10 DEF SendInv

-----------------------------------------------------------------------------
(* The theorems. *)

\* Starting a core sends nothing.
LEMMA NothingSent ==
  ASSUME IInv, Keeps, phase \in {"idle", "start"}, phase' \in {"idle", "start", "stray"},
         ap' \in [Aps -> {"off", "coming", "started"}],
         starting' \in Aps \cup {0}, phase' = "start" => starting' \in Aps
  PROVE  TypeInv' /\ SendInv'
<1>1. UNCHANGED <<requests, expected, base, count, level, i, payload, packets, answer>>
  BY DEF Keeps, sending, result
<1>2. TypeInv'
  BY <1>1 DEF IInv, TypeInv
<1>3. SendInv'
  BY <1>1 DEF IInv, SendInv, AnswerExact
<1> QED
  BY <1>2, <1>3

LEMMA Inductive ==
  ASSUME IInv, [Next]_vars
  PROVE  IInv'
<1> USE DEF IInv
<1>1. ap \in [Aps -> {"off", "coming", "started"}] /\ starting \in Aps \cup {0}
  BY DEF TypeInv
<1>2. ASSUME NEW c \in Aps, StartCheck(c)
      PROVE  IInv'
  <2>1. TypeInv' /\ SendInv'
    BY <1>1, <1>2, NothingSent DEF StartCheck
  <2> QED
    BY <1>2, <2>1, PagesKept DEF StartCheck
<1>3. ASSUME NEW c \in Aps, ApStarted(c)
      PROVE  IInv'
  <2>1. ap' \in [Aps -> {"off", "coming", "started"}]
    BY <1>1, <1>3 DEF ApStarted
  <2>2. UNCHANGED <<memory, requests, expected, phase, starting, base, count, level, i,
                    payload, packets, answer>>
    BY <1>3 DEF ApStarted, Keeps, paging, sending, result
  <2>3. TypeInv'
    BY <2>1, <2>2 DEF TypeInv
  <2>4. SendInv'
    BY <2>2 DEF SendInv, AnswerExact, TableInv, PacketsInv, Sent
  <2> QED
    BY <1>3, <2>3, <2>4, PagesKept DEF ApStarted
<1>4. CASE StartRefused
  <2>1. TypeInv' /\ SendInv'
    BY <1>1, <1>4, NothingSent DEF StartRefused
  <2> QED
    BY <1>4, <2>1, PagesKept DEF StartRefused
<1>5. CASE StartAp
  <2>1. ap' \in [Aps -> {"off", "coming", "started"}]
    BY <1>1, <1>5 DEF StartAp
  <2>2. TypeInv' /\ SendInv'
    BY <1>1, <1>5, <2>1, NothingSent DEF StartAp, TakesLock
  <2> QED
    BY <1>5, <2>2, StartKeepsTables
<1>6. CASE StartStray
  <2>1. TypeInv' /\ SendInv'
    BY <1>1, <1>6, NothingSent DEF StartStray, TakesLock
  <2> QED
    BY <1>6, <2>1, PagesKept DEF StartStray
<1>7. CASE GetShort \/ \E c \in Ids : GetRefused(c)
  <2>1. UNCHANGED paging
    BY <1>7 DEF GetShort, GetRefused, Receive
  <2> QED
    BY <1>7, <2>1, Refused, PagesKept
<1>8. ASSUME NEW c \in Contexts, NEW at \in Index \X Index \X Index \X Index, Get(c, at)
      PROVE  IInv'
  <2>1. UNCHANGED paging
    BY <1>8 DEF Get, Receive
  <2> QED
    BY <1>8, <2>1, GetAnswers, PagesKept
<1>9. CASE TableEntry
  <2>1. UNCHANGED paging
    BY <1>9 DEF TableEntry
  <2> QED
    BY <1>9, <2>1, EntryWritten, PagesKept
<1>10. CASE TableEnd
  <2>1. UNCHANGED paging
    BY <1>10 DEF TableEnd
  <2> QED
    BY <1>10, <2>1, TableSent, PagesKept
<1>11. CASE TableStray
  <2>1. UNCHANGED paging
    BY <1>11 DEF TableStray
  <2>2. TypeInv' /\ SendInv'
    BY <1>11, GoneAstray DEF TableStray, TypeInv
  <2> QED
    BY <2>1, <2>2, PagesKept
<1>12. CASE TableFails
  <2>1. UNCHANGED paging /\ answer' = "failed" /\ phase' = "idle"
    BY <1>12 DEF TableFails
  <2>2. TypeInv'
    BY <1>12, <2>1 DEF TableFails, TypeInv, sending
  <2>3. SendInv'
    BY <2>1 DEF SendInv, AnswerExact
  <2> QED
    BY <2>1, <2>2, <2>3, PagesKept
<1>13. CASE UNCHANGED vars
  <2>1. /\ UNCHANGED paging
        /\ UNCHANGED <<memory, ap, requests, expected, phase, starting, base, count, level,
                       i, payload, packets, answer>>
    BY <1>13 DEF vars, paging, sending, result
  <2>2. TypeInv'
    BY <2>1 DEF TypeInv
  <2>3. SendInv'
    BY <2>1 DEF SendInv, AnswerExact, TableInv, PacketsInv, Sent
  <2> QED
    BY <2>1, <2>2, <2>3, PagesKept
<1> QED
  BY <1>2, <1>3, <1>4, <1>5, <1>6, <1>7, <1>8, <1>9, <1>10, <1>11, <1>12, <1>13 DEF Next

LEMMA Invariant == Spec => []IInv
<1>1. Init => IInv
  BY MemoryInit, SendInit DEF IInv
<1> QED
  BY <1>1, Inductive, PTL DEF Spec

\* Every variable keeps its type, whatever the firmware's tables hold: core 0 reads
\* entries only from pages it can name, and is astray where these have no memory.
THEOREM PagingTypes == Spec => []TypeOK
<1>1. ASSUME IInv
      PROVE  TypeOK
  <2> USE <1>1 DEF IInv
  <2>1. memory \in [0 .. LastPage -> [0 .. PageEntries - 1 -> Entries]]
    BY DEF MemoryInv, Page, Entries, Addresses
  <2>2. cr3 \in [Contexts -> 0 .. LastPage - 1] /\ base \in 0 .. LastPage - 1
    BY DEF MemoryInv, TypeInv, Addresses
  <2>3. free \in BasePages .. LastPage
    BY DEF MemoryInv
  <2> QED
    BY <2>1, <2>2, <2>3 DEF TypeOK, TypeInv
<1> QED
  BY <1>1, Invariant, PTL

\* handle_get_paging_info, send_table and send_entry, for every request, every core,
\* tables that hold anything and every packet size: the client gets what it asked
\* for, whole, once and in order, or is told why not, unless a packet cannot be
\* sent or the way leads to where there is no memory.
THEOREM AnswersExact == Spec => []AnswerExact
<1>1. IInv => AnswerExact
  BY DEF IInv, SendInv
<1> QED
  BY <1>1, Invariant, PTL

\* create_minimal_paging: an AP maps what core 0 maps below Low, and nothing else.
THEOREM MinimalMappings == Spec => []MinimalMapping
<1>1. IInv => MinimalMapping
  BY MinimalIs DEF IInv
<1> QED
  BY <1>1, Invariant, PTL

\* Starting an AP, for the first time or again, writes only to pages no core uses
\* yet, as long as AllocatePages succeeds.
THEOREM UsedTablesKept == Spec => TablesInUseKept
<1>1. ASSUME IInv, [Next]_vars
      PROVE  [\A p \in 0 .. free - 1 : memory'[p] = memory[p]]_vars
  <2>1. ASSUME StartAp
        PROVE  \A p \in 0 .. free - 1 : memory'[p] = memory[p]
    <3>1. MemoryInv
      BY <1>1 DEF IInv
    <3>2. PICK l \in Nat : l = LastPage
      BY PageNumbers
    <3>3. PICK f \in Nat : f = free /\ f + 5 <= l
      BY <2>1, <3>1, <3>2, PagesLeft DEF StartAp
    <3>4. \A p \in 0 .. l : p < f => memory'[p] = memory[p]
      BY <2>1, <3>1, <3>2, <3>3, TablesCopied
    <3>5. \A p \in 0 .. f - 1 : p \in 0 .. l /\ p < f
      BY <3>3
    <3> QED
      BY <3>3, <3>4, <3>5
  <2>2. memory' = memory => \A p \in 0 .. free - 1 : memory'[p] = memory[p]
    OBVIOUS
  <2>3. StartAp \/ memory' = memory
    BY <1>1 DEF Next, StartCheck, StartRefused, StartStray, ApStarted, GetShort, GetRefused,
                Get, Receive, TableEntry, TableStray, TableEnd, TableFails, vars, paging
  <2> QED
    BY <2>1, <2>2, <2>3
<1> QED
  BY <1>1, Invariant, PTL DEF Spec, TablesInUseKept
=============================================================================
