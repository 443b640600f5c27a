----------------------------- MODULE Interrupts -----------------------------
(***************************************************************************)
(* Interrupts from kernel_main()'s first step to a running system: the     *)
(* IDT, the two interrupt controllers as pic.c programs them, the stubs of *)
(* irq.asm, and irq_handler() with its acknowledgement.  Shell builds on   *)
(* what is shown here: that IRQ0 and IRQ1 keep reaching their handlers.    *)
(*                                                                         *)
(* The controllers and the processor's response to them are external: the  *)
(* line of the highest priority is served unless one of the same or a      *)
(* higher priority is in service; the slave's lines 8 to 15 come in        *)
(* through line 2 of the master; a request that is withdrawn in time is    *)
(* delivered as line 7 or 15 without being in service.                     *)
(***************************************************************************)
EXTENDS Integers

CONSTANTS
  Devices,   \* the lines that something is attached to
  MaxRaises  \* bound: how often devices raise a line

Line == 0..15
Slave == 8..15
Cascade == 2

ASSUME DevicesAssumption == Devices \subseteq Line \ {Cascade} /\ MaxRaises \in Nat

VARIABLES
  pc,          \* the step of kernel_main(), then "run", or "halted"
  enabled,     \* the interrupt flag
  idt,         \* the gates that are set
  routines,    \* irq_routines[]: the lines with a handler
  base,        \* the first vector of each controller
  mask, irr, in_service,  \* their registers
  serving,     \* the stage of the interrupt being served, "none" if none is
  int_no,      \* regs.int_no of it
  acked,       \* the line the controllers delivered
  raises       \* how often a line has been raised

pic == <<base, mask, irr, in_service>>
intvars == <<pc, enabled, idt, routines, pic, serving, int_no, acked, raises>>

\* What the BIOS leaves; the boot loader has cleared the interrupt flag.
IntInit ==
  /\ pc = "idt_install" /\ enabled = FALSE
  /\ idt = {} /\ routines = {}
  /\ base = [master |-> 8, slave |-> 112]
  /\ mask \in SUBSET Devices /\ irr = {} /\ in_service = {}
  /\ serving = "none" /\ int_no = 0 /\ acked = 0 /\ raises = 0

-----------------------------------------------------------------------------
(* kernel_main()                                                           *)

Boot(from, to) == pc = from /\ pc' = to /\ UNCHANGED <<serving, int_no, acked, raises>>

\* All entries are cleared and the table is loaded.
idt_install ==
  /\ Boot("idt_install", "isr_install") /\ idt' = {}
  /\ UNCHANGED <<enabled, routines, pic>>

isr_install ==
  /\ Boot("isr_install", "pic_remap")
  /\ idt' = idt \cup 0..31
  /\ UNCHANGED <<enabled, routines, pic>>

\* The initialisation command forgets what was requested or in service; the
\* masks are put back.
pic_remap(offset1, offset2) ==
  /\ Boot("pic_remap", "irq_install")
  /\ base' = [master |-> offset1, slave |-> offset2]
  /\ irr' = {} /\ in_service' = {}
  /\ UNCHANGED <<enabled, idt, routines, mask>>

\* Fault: the slave stays masked as it was.
irq_install_master ==
  /\ Boot("irq_install", "timer_install")
  /\ idt' = idt \cup 32..47
  /\ mask' = mask \cap Slave
  /\ UNCHANGED <<enabled, routines, base, irr, in_service>>

irq_install ==
  /\ Boot("irq_install", "timer_install")
  /\ idt' = idt \cup 32..47
  /\ mask' = {}
  /\ UNCHANGED <<enabled, routines, base, irr, in_service>>

InstallHandler(from, to, line) ==
  Boot(from, to) /\ routines' = routines \cup {line} /\ UNCHANGED <<enabled, idt, pic>>

timer_install == InstallHandler("timer_install", "keyboard_install", 0)
keyboard_install == InstallHandler("keyboard_install", "sti", 1)

\* Fault: interrupts are enabled before the keyboard's handler is installed.
StiEarly ==
  /\ pc \in {"keyboard_install", "sti"} /\ pc' = IF pc = "sti" THEN "run" ELSE pc
  /\ enabled' = (serving = "none")
  /\ UNCHANGED <<idt, routines, pic, serving, int_no, acked, raises>>

\* paging, the drive and the file system are set up in between, without
\* touching any of this.
Sti == Boot("sti", "run") /\ enabled' = TRUE /\ UNCHANGED <<idt, routines, pic>>

kernel_main ==
  \/ idt_install \/ isr_install \/ pic_remap(32, 40) \/ irq_install
  \/ timer_install \/ keyboard_install \/ Sti

-----------------------------------------------------------------------------
(* The devices, the controllers and the processor                          *)

Raise(line) ==
  /\ raises < MaxRaises /\ raises' = raises + 1
  /\ irr' = irr \cup {line}
  /\ UNCHANGED <<pc, enabled, idt, routines, base, mask, in_service, serving, int_no, acked>>

\* A slave's line has its priority within the slave, and line 2's in the master.
AtMaster(line) == IF line \in Slave THEN Cascade ELSE line
Before(a, b) == AtMaster(a) < AtMaster(b) \/ (AtMaster(a) = AtMaster(b) /\ a < b)
Open(line) == \A s \in in_service : AtMaster(line) < AtMaster(s)

\* The gate clears the interrupt flag and leads to the stub, which passes on
\* its number.  Without a gate, or at an exception's, the system is lost.
Deliver(line) ==
  LET vector == IF line \in Slave THEN base.slave + line - 8 ELSE base.master + line
  IN  /\ enabled /\ enabled' = FALSE
      /\ acked' = line
      /\ IF vector \in idt /\ vector >= 32
         THEN serving' = "handler" /\ int_no' = vector /\ UNCHANGED pc
         ELSE pc' = "lost" /\ UNCHANGED <<serving, int_no>>
      /\ UNCHANGED <<idt, routines, base, mask>>

Acknowledge ==
  \E line \in irr \ mask :
    /\ Open(line) /\ \A other \in irr \ mask : other # line => Before(line, other)
    /\ Deliver(line) /\ UNCHANGED raises
    /\ irr' = irr \ {line}
    /\ in_service' = in_service \cup {line, AtMaster(line)}

\* A line is raised and withdrawn too late.
Spurious ==
  /\ raises < MaxRaises /\ raises' = raises + 1
  /\ \/ Deliver(7) /\ UNCHANGED in_service
     \/ Open(Cascade) /\ Deliver(15) /\ in_service' = in_service \cup {Cascade}
  /\ UNCHANGED irr

-----------------------------------------------------------------------------
(* irq_common_stub and irq_handler()                                       *)

Serve(from, to) ==
  serving = from /\ serving' = to /\ UNCHANGED <<pc, idt, routines, base, mask, irr, raises>>

\* irq_routines[int_no - 32], if there is one; see Keyboard and Shell for
\* what the two handlers do.
RunHandler == Serve("handler", "eoi") /\ UNCHANGED <<enabled, in_service, int_no, acked>>

\* An end of interrupt clears the bit of the highest priority.
Ended(lines) == {l \in in_service \cap lines : \A m \in in_service \cap lines : l <= m}

\* Fault: the slave is not told.
EoiToMaster(irq) == in_service' = in_service \ Ended(Line \ Slave)

pic_send_eoi(irq) ==
  in_service' = in_service \ (Ended(Line \ Slave) \cup IF irq >= 8 THEN Ended(Slave) ELSE {})

SendEoi ==
  Serve("eoi", "iret") /\ pic_send_eoi(int_no - 32) /\ UNCHANGED <<enabled, int_no, acked>>

\* The sti in front of the iret takes effect behind it.
Iret ==
  /\ Serve("iret", "none")
  /\ enabled' = TRUE /\ int_no' = 0 /\ acked' = 0
  /\ UNCHANGED in_service

(***************************************************************************)
(* isr_common_stub and isr_handler().  The stub passes number and error    *)
(* code where the handler expects a pointer to them, so it looks in low    *)
(* memory for the number of the exception.  What it does with the one it   *)
(* finds is not modelled: interrupts are disabled and the program does not *)
(* get past the instruction at fault.                                      *)
(***************************************************************************)
isr_handler ==
  /\ pc = "run" /\ serving = "none" /\ pc' = "halted"
  /\ enabled' = FALSE
  /\ UNCHANGED <<idt, routines, pic, serving, int_no, acked, raises>>

\* The shell, or the loop at the end.
Loop == pc \in {"run", "halted"} /\ UNCHANGED intvars

Cpu == (serving = "none" /\ kernel_main) \/ Acknowledge \/ RunHandler \/ SendEoi \/ Iret

IntNext ==
  \/ Cpu \/ Spurious \/ isr_handler \/ Loop
  \/ \E line \in Devices : Raise(line)

(***************************************************************************)
(* Fairness: the processor goes on.  That devices of a high priority leave *)
(* it time for the others is the bound on raises.                          *)
(***************************************************************************)
IntSpec == IntInit /\ [][IntNext]_intvars /\ WF_intvars(Cpu)

-----------------------------------------------------------------------------
(* Properties                                                              *)

\* Every interrupt delivered, from the first one on, finds its gate and runs
\* the routine of the line that raised it, and the handlers of timer and
\* keyboard are in place by then: a keyboard interrupt served without reading
\* the scancode would be the last.
DispatchIsRight ==
  /\ pc # "lost"
  /\ serving # "none" => int_no - 32 = acked /\ {0, 1} \subseteq routines

\* Whenever interrupts are enabled, no line is left in service: nothing that
\* was served, spurious or not, of either controller, blocks those behind it.
AllAcknowledged == enabled => in_service = {}

\* A line requested while the system is up gets its turn.
RaisedIsServed ==
  \A line \in Devices :
    (pc = "run" /\ line \in irr) ~> (serving = "handler" /\ int_no = 32 + line) \/ pc = "halted"
=============================================================================
