------------------------------- MODULE Stage1 -------------------------------
(***************************************************************************)
(* The boot sector, bootloader/src/stage1/boot.asm: it reads stage 2 with  *)
(* the BIOS, three times if need be, and jumps to it.                      *)
(*                                                                         *)
(* The stack is modelled word by word, its top last: a word is the label a *)
(* call will return to or the name of the register that was saved.  What   *)
(* the code pushes and pops within one step (puts, lba_to_chs, the pusha   *)
(* around a call of the BIOS) is not seen.                                 *)
(***************************************************************************)
EXTENDS Integers, Sequences

CONSTANTS
  sectors_per_track,
  heads,
  Stage2Lba,         \* LBA of stage 2: 1
  Stage2Sectors,     \* its length: 20
  Retries            \* 3

ASSUME Stage1Assumption ==
  /\ sectors_per_track \in Nat \ {0} /\ heads \in Nat \ {0}
  /\ Stage2Lba \in Nat
  /\ Stage2Sectors \in Nat \ {0}
  /\ Retries \in Nat \ {0}

VARIABLES
  pc1,               \* the label the code is at
  stack,
  di,                \* the retries left
  cx_dh,             \* the cylinder, head and sector to read
  at500,             \* the sectors that were loaded to 0x500
  message            \* "Disk error" was printed

vars1 == <<pc1, stack, di, cx_dh, at500, message>>

\* What a word on the stack must be for ret to come back.
ReturnAddresses == {"after_read", "next_try"}

\* What is pushed: those, and the registers.
StackWords == ReturnAddresses \cup {"es", "ax", "bx", "cx", "dx", "sp", "bp", "si", "di"}

PUSHA == <<"ax", "cx", "dx", "bx", "sp", "bp", "si", "di">>

Dropped(n) == SubSeq(stack, 1, Len(stack) - n)

\* ret, with n words dropped before: to wherever the word on top points.
Ret(n) ==
  LET word == Dropped(n)[Len(stack) - n]
  IN  /\ pc1' = IF word \in ReturnAddresses THEN word ELSE "lost"
      /\ stack' = Dropped(n + 1)

lba_to_chs(lba) ==
  [cylinder |-> (lba \div sectors_per_track) \div heads,
   head |-> (lba \div sectors_per_track) % heads,
   sector |-> (lba % sectors_per_track) + 1]

\* External: the BIOS reads from there on.
LbaOf(chs) ==
  (chs.cylinder * heads + chs.head) * sectors_per_track + chs.sector - 1

Init1 ==
  /\ pc1 = "main"
  /\ stack = << >>
  /\ di = 0
  /\ cx_dh = lba_to_chs(0)
  /\ at500 = {}
  /\ message = FALSE

----------------------------------------------------------------------------
\* push es; int 13h; jc disk_error; pop es
test_read ==
  /\ pc1 = "main"
  /\ \/ pc1' = "read" /\ stack' = stack
     \/ pc1' = "disk_error" /\ stack' = Append(stack, "es")
  /\ UNCHANGED <<di, cx_dh, at500, message>>

disk_read ==
  /\ pc1 = "read"
  /\ stack' = stack \o <<"after_read", "ax", "bx", "cx", "dx", "di">>
  /\ cx_dh' = lba_to_chs(Stage2Lba)
  /\ di' = Retries
  /\ pc1' = "retry"
  /\ UNCHANGED <<at500, message>>

\* A mistaken end: the saved registers stay on the stack.
read_done_without_popa ==
  /\ pc1 = "retry"
  /\ at500' = LbaOf(cx_dh) .. LbaOf(cx_dh) + Stage2Sectors - 1
  /\ pc1' = "after_read"
  /\ stack' = stack
  /\ UNCHANGED <<di, cx_dh, message>>

read_done ==
  /\ pc1 = "retry"
  /\ at500' = LbaOf(cx_dh) .. LbaOf(cx_dh) + Stage2Sectors - 1
  /\ Ret(5)
  /\ UNCHANGED <<di, cx_dh, message>>

\* The read failed: popa, then call disk_reset, which starts with pusha.
read_failed ==
  /\ pc1 = "retry"
  /\ stack' = stack \o <<"next_try">> \o PUSHA
  /\ pc1' = "disk_reset"
  /\ UNCHANGED <<di, cx_dh, at500, message>>

disk_reset ==
  /\ pc1 = "disk_reset"
  /\ \/ Ret(Len(PUSHA))
     \/ pc1' = "disk_error" /\ stack' = stack
  /\ UNCHANGED <<di, cx_dh, at500, message>>

\* A mistaken loop: the retries are not counted.
next_try_uncounted ==
  /\ pc1 = "next_try"
  /\ pc1' = IF di = 0 THEN "disk_error" ELSE "retry"
  /\ UNCHANGED <<di, stack, cx_dh, at500, message>>

\* A mistaken loop: one try more.
next_try_below_zero ==
  /\ pc1 = "next_try"
  /\ di' = di - 1
  /\ pc1' = IF di - 1 < 0 THEN "disk_error" ELSE "retry"
  /\ UNCHANGED <<stack, cx_dh, at500, message>>

\* dec di; test di, di; jnz .retry; jmp disk_error
next_try ==
  /\ pc1 = "next_try"
  /\ di' = di - 1
  /\ pc1' = IF di - 1 = 0 THEN "disk_error" ELSE "retry"
  /\ UNCHANGED <<stack, cx_dh, at500, message>>

\* disk_read returns with the carry flag clear, or not at all.
enter_stage2 ==
  /\ pc1 = "after_read"
  /\ pc1' = "stage2"
  /\ UNCHANGED <<stack, di, cx_dh, at500, message>>

\* It is jumped to, not called: its ret takes what its jumper left on the stack.
disk_error ==
  /\ pc1 = "disk_error"
  /\ message' = TRUE
  /\ Ret(0)
  /\ UNCHANGED <<di, cx_dh, at500>>

Next1 ==
  \/ test_read \/ disk_read \/ read_done \/ read_failed \/ disk_reset
  \/ next_try \/ enter_stage2 \/ disk_error

TypeOK1 ==
  /\ pc1 \in {"main", "read", "retry", "disk_reset", "next_try", "after_read",
              "disk_error", "stage2", "lost"}
  /\ stack \in Seq(StackWords)
  /\ di \in 0 .. Retries
  /\ at500 \subseteq Nat
  /\ message \in BOOLEAN
=============================================================================
