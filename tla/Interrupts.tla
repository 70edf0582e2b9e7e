----------------------------- MODULE Interrupts -----------------------------
(***************************************************************************)
(* Interrupt delivery and the PS/2 keyboard driver: hardware/interrupts.c, *)
(* hardware/pic.c, driver/ps2/ps2keyboard.c, syscalls.c, and the part of   *)
(* kernel_main between sti and the user program, under kernel/src.         *)
(*                                                                         *)
(* Two things run: kernel_main (then the program it starts), and the       *)
(* handler that interrupts it.  External are the 8042 controller with the  *)
(* keyboard behind it and the 8259, both modelled from the ports the code  *)
(* touches: the controller shows one byte at a time in its output buffer   *)
(* and holds IRQ 1 up while it is full and interrupts are on; the 8259     *)
(* latches the rising edge and asks for no further interrupt until the     *)
(* one in service is acknowledged.  Every other line is masked (0xFD).     *)
(***************************************************************************)
EXTENDS Integers, Sequences

CONSTANTS
  MaxKeys,         \* bound: how many keys are typed
  EarlyKeys        \* whether keys may be typed before the driver is registered

ASSUME InterruptsAssumption ==
  /\ MaxKeys \in Nat
  /\ EarlyKeys \in BOOLEAN

VARIABLES
  main,            \* where kernel_main is
  vec,             \* the vector being handled, NoVector if none is
  hpc,             \* where interrupt_handler is
  IF_,             \* the CPU's interrupt flag
  handlers,        \* the vectors with an entry in interrupt_handers[]
  irr, isr,        \* IRQ 1 requested, IRQ 1 in service
  obf,             \* the controller's output buffer
  obdata,          \* the byte port 0x60 shows, also after it has been read
  response,        \* the controller's answer to command 0x20, until it is shown
  cfg,             \* its configuration: bit 0 (int) and bit 4 (disabled)
  pending,         \* bytes of the keyboard the controller has not taken
  keys             \* how many keys have been typed

vars == <<main, vec, hpc, IF_, handlers, irr, isr, obf, obdata, response, cfg,
          pending, keys>>

cpu == <<vec, hpc, IF_>>
kbc == <<obf, obdata, response, cfg, pending, keys>>

NoVector == -1
Breakpoint == 3
Irq1 == 33
SyscallVector == 128

Empty == "empty"

Init ==
  /\ main = "idt"
  /\ vec = NoVector /\ hpc = "none" /\ IF_ = FALSE
  /\ handlers = {}
  /\ irr = FALSE /\ isr = FALSE
  /\ obf = Empty /\ obdata = "key" /\ response = Empty
  /\ cfg \in [int : BOOLEAN, disabled : BOOLEAN]    \* whatever the BIOS left
  /\ pending = << >>
  /\ keys = 0

----------------------------------------------------------------------------
(* External: the 8042 and the 8259.                                        *)
Line(buffer, config) == buffer # Empty /\ config.int

\* The buffer or the configuration changes; a rising line is latched.
Show(buffer, config) ==
  /\ obf' = buffer
  /\ cfg' = config
  /\ irr' = (irr \/ (~Line(obf, cfg) /\ Line(buffer, config)))

type_key ==
  /\ keys < MaxKeys
  /\ EarlyKeys \/ Irq1 \in handlers
  /\ keys' = keys + 1
  /\ pending' = Append(pending, "key")
  /\ UNCHANGED <<main, handlers, isr, irr, obf, obdata, response, cfg, cpu>>

controller_answers ==
  /\ obf = Empty /\ response # Empty
  /\ Show(response, cfg)
  /\ obdata' = response /\ response' = Empty
  /\ UNCHANGED <<main, handlers, isr, pending, keys, cpu>>

controller_takes_byte ==
  /\ obf = Empty /\ response = Empty
  /\ pending # << >> /\ ~cfg.disabled
  /\ Show(Head(pending), cfg)
  /\ obdata' = Head(pending) /\ pending' = Tail(pending)
  /\ UNCHANGED <<main, handlers, isr, response, keys, cpu>>

controller == controller_answers \/ controller_takes_byte

\* The 8259 raises the interrupt and the CPU takes it through the gate of vector
\* 0x21, an interrupt gate: IF is cleared.
deliver ==
  /\ IF_ /\ vec = NoVector
  /\ irr /\ ~isr
  /\ irr' = FALSE /\ isr' = TRUE
  /\ vec' = Irq1 /\ hpc' = "dispatch" /\ IF_' = FALSE
  /\ UNCHANGED <<main, handlers, kbc>>

\* inb(DATA_PORT)
TakeByte == Show(Empty, cfg) /\ UNCHANGED <<obdata, response, pending, keys>>

----------------------------------------------------------------------------
(* kernel_main.                                                            *)
Running == vec = NoVector

Go(from, to) ==
  /\ Running
  /\ main = from /\ main' = to
  /\ UNCHANGED <<cpu, isr>>

\* install_idt with pic_remap: ICW1 clears the 8259's latches; then sti.
install_idt ==
  /\ Running
  /\ main = "idt" /\ main' = "syscalls"
  /\ handlers' = {}
  /\ irr' = FALSE /\ isr' = FALSE
  /\ IF_' = TRUE
  /\ UNCHANGED <<vec, hpc, kbc>>

\* register_interrupt_handler(0x80, syscall), and everything up to the drivers.
register_syscalls ==
  /\ Go("syscalls", "kb_register")
  /\ handlers' = handlers \cup {SyscallVector}
  /\ UNCHANGED <<irr, kbc>>

kb_register ==
  /\ Go("kb_register", "kb_drain")
  /\ handlers' = handlers \cup {Irq1}
  /\ UNCHANGED <<irr, kbc>>

\* while(inb(COMMAND_PORT) & 1) inb(DATA_PORT)
kb_drain ==
  /\ Go("kb_drain", IF obf # Empty THEN "kb_take" ELSE "kb_enable")
  /\ UNCHANGED <<handlers, irr, kbc>>

\* A mistaken loop: it waits for the buffer to become empty.
kb_take_waits ==
  /\ Go("kb_take", "kb_drain")
  /\ UNCHANGED <<handlers, irr, kbc>>

kb_take ==
  /\ Go("kb_take", "kb_drain")
  /\ TakeByte
  /\ UNCHANGED <<handlers>>

\* outb(COMMAND_PORT, 0xAE)
kb_enable ==
  /\ Go("kb_enable", "kb_ask")
  /\ Show(obf, [cfg EXCEPT !.disabled = FALSE])
  /\ UNCHANGED <<handlers, obdata, response, pending, keys>>

\* outb(COMMAND_PORT, 0x20)
kb_ask ==
  /\ Go("kb_ask", "kb_read")
  /\ response' = "cfg"
  /\ UNCHANGED <<handlers, irr, obf, obdata, cfg, pending, keys>>

\* inb(DATA_PORT).  Nothing waits for the answer: the port may still show an
\* older byte, and the answer comes up later as if it were a key.
kb_read ==
  /\ Go("kb_read", "kb_write")
  /\ TakeByte
  /\ UNCHANGED handlers

\* outb(COMMAND_PORT, 0x60); outb(DATA_PORT, (the byte read | 1) & ~0x10): the
\* two bits come out the same whatever byte it was.
kb_write ==
  /\ Go("kb_write", "kb_scan")
  /\ Show(obf, [int |-> TRUE, disabled |-> FALSE])
  /\ UNCHANGED <<handlers, obdata, response, pending, keys>>

\* outb(DATA_PORT, 0xF4): the keyboard acknowledges the command with a byte.
kb_scan ==
  /\ Go("kb_scan", "running")
  /\ pending' = Append(pending, "ack")
  /\ UNCHANGED <<handlers, irr, obf, obdata, response, cfg, keys>>

\* The program makes a system call, or meets an exception without error code.
trap(v) ==
  /\ Running
  /\ main = "running"
  /\ vec' = v /\ hpc' = "dispatch" /\ IF_' = FALSE
  /\ UNCHANGED <<main, handlers, irr, isr, kbc>>

kernel_main ==
  \/ install_idt \/ register_syscalls
  \/ kb_register \/ kb_drain \/ kb_take \/ kb_enable \/ kb_ask \/ kb_read
  \/ kb_write \/ kb_scan

----------------------------------------------------------------------------
(* interrupt_handler.                                                      *)
Handler(from, to) ==
  /\ vec # NoVector
  /\ hpc = from /\ hpc' = to
  /\ vec' = vec /\ IF_' = IF_

dispatch ==
  /\ Handler("dispatch", IF vec \in handlers THEN "call" ELSE "offset")
  /\ UNCHANGED <<main, handlers, irr, isr, kbc>>

\* handle_interrupt of ps2keyboard.c
handle_key ==
  /\ vec = Irq1
  /\ Handler("call", "confirm")
  /\ TakeByte
  /\ UNCHANGED <<main, handlers, isr>>

\* syscall(): handlers[eax] writes, or there is none and the kernel says so.
syscall ==
  /\ vec = SyscallVector
  /\ Handler("call", "confirm")
  /\ UNCHANGED <<main, handlers, irr, isr, kbc>>

\* A mistaken system call 80: the kernel goes on without sti.
kernel_switch_back_no_sti ==
  /\ vec = SyscallVector /\ hpc = "call"
  /\ vec' = NoVector /\ hpc' = "none" /\ IF_' = FALSE
  /\ main' = "kernel_mode"
  /\ UNCHANGED <<handlers, irr, isr, kbc>>

\* System call 80 never returns: sti, and the kernel spins in kernel_mode.
kernel_switch_back ==
  /\ vec = SyscallVector /\ hpc = "call"
  /\ vec' = NoVector /\ hpc' = "none" /\ IF_' = TRUE
  /\ main' = "kernel_mode"
  /\ UNCHANGED <<handlers, irr, isr, kbc>>

PIC_1_OFFSET == 32
PIC_2_END == 47

\* A mistaken range: the first vector is 0x22.
ConfirmsLate(v) == PIC_1_OFFSET + 2 <= v /\ v <= PIC_2_END

\* pic_confirm acknowledges these vectors; IRQ 1 is the only one that occurs.
Confirms(v) == PIC_1_OFFSET <= v /\ v <= PIC_2_END

pic_confirm ==
  /\ Handler("confirm", "offset")
  /\ isr' = (isr /\ ~Confirms(vec))
  /\ UNCHANGED <<main, handlers, irr, kbc>>

\* hardware_interrupt_offset is never assigned: the test holds for the exceptions
\* 0 to 15, and the acknowledgement ends whatever is in service.
hardware_interrupt_offset == 0

acknowledge ==
  /\ Handler("offset", "iret")
  /\ isr' = (isr /\ ~(/\ hardware_interrupt_offset <= vec
                      /\ vec < hardware_interrupt_offset + 16))
  /\ UNCHANGED <<main, handlers, irr, kbc>>

iret ==
  /\ vec # NoVector /\ hpc = "iret"
  /\ vec' = NoVector /\ hpc' = "none" /\ IF_' = TRUE
  /\ UNCHANGED <<main, handlers, irr, isr, kbc>>

interrupt_handler ==
  dispatch \/ handle_key \/ syscall \/ kernel_switch_back \/ pic_confirm
    \/ acknowledge \/ iret

----------------------------------------------------------------------------
Next ==
  \/ kernel_main
  \/ \E v \in {Breakpoint, SyscallVector} : trap(v)
  \/ interrupt_handler
  \/ deliver
  \/ type_key
  \/ controller

Spec == Init /\ [][Next]_vars

\* The CPU runs, and takes a pending interrupt between two instructions however
\* often the program traps; the controller passes on what it has.
FairSpec ==
  /\ Spec
  /\ WF_vars(kernel_main) /\ WF_vars(interrupt_handler)
  /\ SF_vars(deliver)
  /\ WF_vars(controller)

----------------------------------------------------------------------------
(***************************************************************************)
(* No interrupt stays in service behind the handler's back: when           *)
(* interrupt_handler has returned (or was left by kernel_switch_back) IRQ  *)
(* 1 has been acknowledged, so that the 8259 can raise it again.           *)
(***************************************************************************)
NothingLeftInService == isr => vec = Irq1

(***************************************************************************)
(* Once the driver is up, every byte the controller shows is read, also    *)
(* while the program makes system calls and after it has gone back to the  *)
(* kernel through one.                                                     *)
(***************************************************************************)
BytesAreRead ==
  (obf # Empty /\ main \in {"running", "kernel_mode"}) ~> (obf = Empty)

(***************************************************************************)
(* ps2_kb_enable returns, however the keys typed meanwhile race with its   *)
(* polling loop and with the handler it has just registered.               *)
(***************************************************************************)
EnableReturns == <>(main = "running")
=============================================================================
