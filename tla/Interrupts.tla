----------------------------- MODULE Interrupts ------------------------------
(***************************************************************************)
(* The two interrupt controllers as irq.asm sets them up, and what idt.asm *)
(* has the CPU do with a vector. Lines 8 to 15 come through line 2. The    *)
(* controllers themselves are 8259As: a line is latched in irr, goes to    *)
(* isr when the CPU takes it, and blocks the lines after it until the      *)
(* handler acknowledges it.                                                *)
(***************************************************************************)
EXTENDS Integers

VARIABLES
  pic,      \* icw2: the first vector of each controller; irr, isr, imr: sets of lines
  idt,      \* from vectors to the line a handler is for, or to fault_handler
  int_flag  \* IF

fault_handler == -1

-----------------------------------------------------------------------------
(* Set up                                                                  *)

(* As the BIOS leaves them, whatever is latched.                           *)
BiosPic == [icw2 |-> <<8, 112>>, irr |-> {}, isr |-> {}, imr |-> {}]

(* ICW1 forgets what is latched or in service. The masks are 0xf8, 0xbf.   *)
REMAP_PICS ==
  [icw2 |-> <<32, 40>>, irr |-> {}, isr |-> {}, imr |-> (3 .. 7) \cup ((8 .. 15) \ {14})]

IDT_INIT ==
  [v \in (0 .. 30) \cup {32, 33, 36, 46} |->
    CASE v = 32 -> 0 [] v = 33 -> 1 [] v = 36 -> 4 [] v = 46 -> 14 [] OTHER -> fault_handler]

-----------------------------------------------------------------------------
(* An interrupt                                                            *)

Vector(line) == IF line < 8 THEN pic.icw2[1] + line ELSE pic.icw2[2] + line - 8

(* 0, 1, 2 with 8 to 15, 3 to 7.                                           *)
Rank(line) == IF line \in 3 .. 7 THEN line + 8 ELSE IF line >= 8 THEN line - 6 ELSE line

Deliverable(line) ==
  /\ int_flag
  /\ line \in pic.irr \ pic.imr
  /\ line >= 8 => 2 \notin pic.imr
  /\ \A other \in pic.irr \ pic.imr : Rank(line) <= Rank(other)
  /\ \A other \in pic.isr : Rank(line) < Rank(other)

(* An acknowledgement ends the first line in service of a controller.      *)
Ended(isr, lines) == isr \ {l \in isr \cap lines : \A m \in isr \cap lines : l <= m}

(* Definitions named ...Slip are the one that follows with a mistake in it;*)
(* the properties are checked to notice it.                                *)

(* IRQ0_HANDLER, IRQ1_HANDLER and IRQ4_HANDLER acknowledge the first       *)
(* controller, IRQ14_HANDLER both.                                         *)
AcknowledgedSlip(handler, isr) ==
  IF handler = 14 THEN Ended(isr, 8 .. 15) ELSE Ended(isr, 0 .. 7)
Acknowledged(handler, isr) ==
  IF handler = 14 THEN Ended(Ended(isr, 8 .. 15), 0 .. 7) ELSE Ended(isr, 0 .. 7)

InService(line) == pic.isr \cup {line} \cup IF line >= 8 THEN {2} ELSE {}

Raised(line) ==
  [icw2 |-> pic.icw2, irr |-> pic.irr \cup {line}, isr |-> pic.isr, imr |-> pic.imr]

(* The controllers after a handler has run from end to end: a gate of      *)
(* idt.asm keeps interrupts off meanwhile.                                 *)
Served(line) ==
  [icw2 |-> pic.icw2, irr |-> pic.irr \ {line},
   isr |-> Acknowledged(idt[Vector(line)], InService(line)), imr |-> pic.imr]

=============================================================================
