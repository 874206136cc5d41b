------------------------------ MODULE MCPaging ------------------------------
(* Firmware tables for Paging: pages of two entries, page 1 the PML4.       *)
EXTENDS Paging

Page(first, second) == [k \in 0 .. 1 |-> IF k = 0 THEN first ELSE second]
To(page) == [addr |-> page, present |-> TRUE]
Not(page) == [addr |-> page, present |-> FALSE]

\* Some entries lead to page 0, to a page without memory (2), to one that
\* AllocatePages has still to give (8), back to tables, or to a page that is
\* no table (5).
MCTables ==
  [p \in 0 .. LastPage |->
     CASE p = 0 -> Page(To(2), Not(3))
       [] p = 1 -> Page(To(3), To(0))
       [] p = 2 -> Page(To(1), To(1))
       [] p = 3 -> Page(To(4), To(2))
       [] p = 4 -> Page(To(5), Not(8))
       [] p = 5 -> Page(Not(4), To(1))
       [] OTHER -> Page(Not(0), To(9))]
=============================================================================
