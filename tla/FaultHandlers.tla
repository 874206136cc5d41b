---------------------------- MODULE FaultHandlers ----------------------------
(***************************************************************************)
(* What a fault does to an AP: the interrupt descriptor table that         *)
(* init_fault_handlers_on_core fills (system/fault_handling.c), the        *)
(* handlers it points to (system/fault_handling_stubs.s) and, for core 0,  *)
(* gpf_handler (stubs.s).  Delivery of an exception and iretq are the      *)
(* processor's and modelled from its manual.                               *)
(*                                                                         *)
(* A processor is a record [rip, stack, rax, r9].  Addresses are numbers,  *)
(* so that "add $2" can lead where it leads; stack[1] is what RSP points   *)
(* to, and a value of RSP is the length of the stack.                      *)
(***************************************************************************)
LOCAL INSTANCE Integers
LOCAL INSTANCE Sequences

CODE_SEGMENT == 56
RFLAGS == 2
StackSegment == 48
ErrorCode == 0

MainLoop == 100         \* core_main_loop
DummyLoop == 110        \* dummy_loop
Recovery == 120         \* core_main_loop_stub_recovery

(***************************************************************************)
(* Handlers 0 to 21 and the fallback handler follow each other in memory.  *)
(* The last instruction of each is a two-byte iretq; the padding behind it *)
(* does nothing, so two bytes further is the next handler.                 *)
(***************************************************************************)
Fallback == 22
Entry(h) == 1000 + 4 * h
IretAt(h) == Entry(h) + 2
HandlerOf(rip) == (rip - 1000) \div 4
InHandlers(rip) == rip \in Entry(0) .. IretAt(Fallback)

proto_fault_handlers_count == 21
idt(v) == IF v < proto_fault_handlers_count THEN v ELSE Fallback

\* The limit is given in bytes, sixteen per vector.
idt_limit == 255
WithinLimit(v) == 16 * v + 15 <= idt_limit

PushesErrorCode(v) == v \in {8, 10, 11, 12, 13, 14, 17, 21, 29, 30}
PopsErrorCode(h) == h \in {10, 11, 12, 14, 17, 21}

Top(s, n) == SubSeq(s, Len(s) - n + 1, Len(s))
Behind(s, n) == SubSeq(s, n + 1, Len(s))

Interrupt(p, v) ==
  LET frame == <<p.rip, CODE_SEGMENT, RFLAGS, Len(p.stack), StackSegment>>
      code == IF PushesErrorCode(v) THEN <<ErrorCode>> ELSE <<>>
  IN [p EXCEPT !.stack = code \o frame \o @, !.rip = Entry(idt(v))]

\* A vector behind the limit of the table raises a #GP instead.
Fault(p, v) == Interrupt(p, IF WithinLimit(v) THEN v ELSE 13)

\* #GP on core 0 goes to gpf_handler, every other fault to the firmware.
FaultOnCore0(p, v) ==
  IF v = 13 THEN [p EXCEPT !.rip = @ + 2, !.rax = "dead"]
  ELSE [p EXCEPT !.rip = DummyLoop]

(***************************************************************************)
(* A handler up to its iretq: what it leaves on the stack and writes to    *)
(* the CoreFaultInfo.  The double fault handler leaves the error code's    *)
(* place on the stack, the #GP handler resumes behind a wrmsr.             *)
(***************************************************************************)
fault_number(h) == CASE h = 0 -> 1 [] h = Fallback -> 256 [] OTHER -> h

old_rip(p, h) == p.stack[IF PopsErrorCode(h) \/ h \in {8, 13} THEN 2 ELSE 1]

HandlerNotes(p) ==
  LET h == HandlerOf(p.rip) IN
  [occured |-> TRUE, number |-> fault_number(h), rip |-> old_rip(p, h)]

\* The last write of a handler: the words of the frame it removes, the RIP it
\* puts in their place.
Patch(p, words, rip, rax) ==
  [p EXCEPT !.rip = IretAt(HandlerOf(@)), !.rax = rax,
            !.stack = <<rip>> \o Behind(@, words)]

\* Mutant: the #GP handler resumes at the instruction that faulted.
HandlerBody_SameInstruction(p) ==
  LET h == HandlerOf(p.rip) IN
  CASE h = 8 -> Patch(p, 1, DummyLoop, "other")
    [] h = 13 -> Patch(p, 2, p.stack[2], "dead")
    [] PopsErrorCode(h) -> Patch(p, 2, Recovery, "other")
    [] OTHER -> Patch(p, 1, Recovery, "other")
\* Mutant: only the #GP handler removes the error code.
HandlerBody_LeavesErrorCode(p) ==
  LET h == HandlerOf(p.rip) IN
  CASE h = 8 -> Patch(p, 1, DummyLoop, "other")
    [] h = 13 -> Patch(p, 2, p.stack[2] + 2, "dead")
    [] OTHER -> Patch(p, 1, Recovery, "other")
HandlerBody(p) ==
  LET h == HandlerOf(p.rip) IN
  CASE h = 8 -> Patch(p, 1, DummyLoop, "other")
    [] h = 13 -> Patch(p, 2, p.stack[2] + 2, "dead")
    [] PopsErrorCode(h) -> Patch(p, 2, Recovery, "other")
    [] OTHER -> Patch(p, 1, Recovery, "other")

\* iretq refuses anything but a code segment in the second place.
Iretq(p) ==
  IF p.stack[2] = CODE_SEGMENT
  THEN [p EXCEPT !.rip = p.stack[1], !.stack = Top(@, p.stack[4])]
  ELSE Fault(p, 13)

\* core_main_loop_stub_recovery: RSP as it was when the main loop began.
Recover(p) == [p EXCEPT !.rip = MainLoop, !.stack = <<>>]
=============================================================================
