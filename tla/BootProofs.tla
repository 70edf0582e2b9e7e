----------------------------- MODULE BootProofs -----------------------------
(***************************************************************************)
(* For every geometry of the disk, place and length of stage 2 and number  *)
(* of retries: the boot sector enters stage 2 with all of it in memory and *)
(* an empty stack.  However the keyboard controller's steps fall between   *)
(* those of enable_a20, the gate is opened unless a key came first.  And   *)
(* for every volume and every read that fails, no more of the kernel is    *)
(* loaded than there is room for; on a disk that holds the kernel, and     *)
(* with no read that fails, stage 2 jumps to the kernel's bytes.           *)
(***************************************************************************)
EXTENDS Boot, SequenceTheorems, FiniteSetTheorems, TLAPS

\* What disk_read pushes.
Frame == <<"after_read", "ax", "bx", "cx", "dx", "di">>

\* What the call of disk_reset adds to it.
ResetFrame == Frame \o <<"next_try">> \o PUSHA

\* The stack, the address and the loaded sectors at every label; disk_error finds a
\* saved register on top of the stack.
StackInv ==
  /\ stack \in Seq(StackWords)
  /\ pc1 \in {"main", "read", "after_read", "stage2"} => stack = << >>
  /\ pc1 \in {"retry", "next_try"} => stack = Frame
  /\ pc1 = "disk_reset" => stack = ResetFrame
  /\ pc1 = "disk_error" => Len(stack) > 0 /\ stack[Len(stack)] \notin ReturnAddresses
  /\ pc1 \in {"retry", "next_try", "disk_reset"} => cx_dh = lba_to_chs(Stage2Lba)
  /\ pc1 \in {"after_read", "stage2"} => at500 = Stage2Lba .. Stage2Lba + Stage2Sectors - 1
  /\ pc1 = "lost" => message

----------------------------------------------------------------------------
\* lba_to_chs names the sector it was given.
LEMMA ChsIsLba ==
  ASSUME NEW lba \in Nat
  PROVE  LbaOf(lba_to_chs(lba)) = lba
<1> DEFINE s == sectors_per_track
           h == heads
           t == lba \div s
<1>1. s \in Nat \ {0} /\ h \in Nat \ {0}
  BY Stage1Assumption
<1>2. t \in Nat /\ lba % s \in Nat /\ lba = s * t + (lba % s)
  BY <1>1
<1>3. t \div h \in Nat /\ t % h \in Nat /\ t = h * (t \div h) + (t % h)
  <2> HIDE DEF t, s, h
  <2> QED
    BY <1>1, <1>2
<1>4. LbaOf(lba_to_chs(lba)) = ((t \div h) * h + (t % h)) * s + (lba % s)
  <2>1. LbaOf(lba_to_chs(lba)) = ((t \div h) * h + (t % h)) * s + ((lba % s) + 1) - 1
    BY DEF LbaOf, lba_to_chs
  <2>2. ((t \div h) * h + (t % h)) * s \in Int
    <3> HIDE DEF t, s, h
    <3> QED
      BY <1>1, <1>3
  <2> HIDE DEF t, s, h
  <2> QED
    BY <1>2, <2>1, <2>2
<1> HIDE DEF t, s, h
<1>5. (t \div h) * h = h * (t \div h) /\ t * s = s * t
  BY <1>1, <1>2, <1>3
<1> QED
  BY <1>2, <1>3, <1>4, <1>5

----------------------------------------------------------------------------
LEMMA Frames ==
  /\ Frame \in Seq(StackWords) /\ Len(Frame) = 6
  /\ Frame[1] = "after_read" /\ Frame[6] = "di"
  /\ ResetFrame \in Seq(StackWords) /\ Len(ResetFrame) = 15
  /\ ResetFrame[7] = "next_try" /\ ResetFrame[15] = "di"
  /\ \A k \in 1 .. 6 : ResetFrame[k] = Frame[k]
  /\ Len(PUSHA) = 8
<1> DEFINE Call == <<"next_try">>
<1>1. Frame \in Seq(StackWords)
  BY DEF Frame, StackWords, ReturnAddresses
<1>2. Len(Frame) = 6 /\ Frame[1] = "after_read" /\ Frame[6] = "di"
  BY DEF Frame
<1>3. Call \in Seq(StackWords) /\ Len(Call) = 1 /\ Call[1] = "next_try"
  BY DEF StackWords, ReturnAddresses
<1>4. PUSHA \in Seq(StackWords)
  BY DEF PUSHA, StackWords, ReturnAddresses
<1>5. Len(PUSHA) = 8 /\ PUSHA[8] = "di"
  BY DEF PUSHA
<1>6. ResetFrame = (Frame \o Call) \o PUSHA
  BY DEF ResetFrame
<1> HIDE DEF Call
<1> DEFINE Called == Frame \o Call
<1>7. /\ Called \in Seq(StackWords) /\ Len(Called) = 7 /\ Called[7] = "next_try"
      /\ \A k \in 1 .. 6 : Called[k] = Frame[k]
  <2>1. /\ Called \in Seq(StackWords)
        /\ Len(Called) = Len(Frame) + Len(Call)
        /\ \A k \in 1 .. Len(Frame) + Len(Call) :
             Called[k] = IF k <= Len(Frame) THEN Frame[k] ELSE Call[k - Len(Frame)]
    BY <1>1, <1>3, ConcatProperties, Zenon
  <2> HIDE DEF Called
  <2> QED
    BY <1>2, <1>3, <2>1
<1> HIDE DEF Called
<1>8. /\ ResetFrame \in Seq(StackWords) /\ Len(ResetFrame) = 15
      /\ \A k \in 1 .. 15 : ResetFrame[k] = IF k <= 7 THEN Called[k] ELSE PUSHA[k - 7]
  <2>1. ResetFrame = Called \o PUSHA
    BY <1>6 DEF Called
  <2>2. /\ Called \o PUSHA \in Seq(StackWords)
        /\ Len(Called \o PUSHA) = Len(Called) + Len(PUSHA)
        /\ \A k \in 1 .. Len(Called) + Len(PUSHA) :
             (Called \o PUSHA)[k] = IF k <= Len(Called) THEN Called[k] ELSE PUSHA[k - Len(Called)]
    BY <1>4, <1>7, ConcatProperties, Zenon
  <2>3. Len(Called) = 7 /\ Len(PUSHA) = 8
    BY <1>5, <1>7
  <2>4. /\ ResetFrame \in Seq(StackWords)
        /\ Len(ResetFrame) = Len(Called) + Len(PUSHA)
        /\ \A k \in 1 .. Len(Called) + Len(PUSHA) :
             ResetFrame[k] = IF k <= Len(Called) THEN Called[k] ELSE PUSHA[k - Len(Called)]
    BY <2>1, <2>2, Zenon
  <2> QED
    BY <2>3, <2>4
<1> QED
  BY <1>1, <1>2, <1>5, <1>7, <1>8

\* Dropping words from the top.
LEMMA DropWords ==
  ASSUME stack \in Seq(StackWords), NEW n \in 0 .. Len(stack)
  PROVE  /\ Dropped(n) \in Seq(StackWords) /\ Len(Dropped(n)) = Len(stack) - n
         /\ \A k \in 1 .. Len(stack) - n : Dropped(n)[k] = stack[k]
BY DEF Dropped

\* The ret at the end of disk_read and of disk_reset.
LEMMA RetFromRead ==
  ASSUME stack = Frame, Ret(5)
  PROVE  pc1' = "after_read" /\ stack' = << >>
<1>1. stack \in Seq(StackWords) /\ Len(stack) = 6 /\ stack[1] = "after_read"
  BY Frames
<1>2. Dropped(5)[Len(stack) - 5] = "after_read"
  BY <1>1, DropWords
<1>3. Dropped(6) \in Seq(StackWords) /\ Len(Dropped(6)) = 0
  BY <1>1, DropWords
<1>4. Dropped(6) = << >>
  BY <1>3
<1> QED
  BY <1>2, <1>4 DEF Ret, ReturnAddresses

LEMMA RetFromReset ==
  ASSUME stack = ResetFrame, Ret(Len(PUSHA))
  PROVE  pc1' = "next_try" /\ stack' = Frame
<1>1. stack \in Seq(StackWords) /\ Len(stack) = 15 /\ stack[7] = "next_try" /\ Len(PUSHA) = 8
  BY Frames
<1>2. Dropped(8)[Len(stack) - 8] = "next_try"
  BY <1>1, DropWords
<1>3. /\ Dropped(9) \in Seq(StackWords) /\ Len(Dropped(9)) = 6
      /\ \A k \in 1 .. 6 : Dropped(9)[k] = stack[k]
  <2>1. 9 \in 0 .. Len(stack) /\ Len(stack) - 9 = 6
    BY <1>1
  <2> QED
    BY <1>1, <2>1, DropWords
<1>4. Dropped(9) = Frame
  <2>1. Frame \in Seq(StackWords) /\ Len(Frame) = 6 /\ \A k \in 1 .. 6 : Dropped(9)[k] = Frame[k]
    BY <1>3, Frames
  <2> QED
    BY <1>3, <2>1, SeqEqual
<1> QED
  BY <1>1, <1>2, <1>4 DEF Ret, ReturnAddresses

----------------------------------------------------------------------------
LEMMA Next1Inv ==
  ASSUME StackInv, Next1
  PROVE  StackInv'
<1>1. CASE test_read
  <2>1. stack = << >> /\ pc1 = "main"
    BY <1>1 DEF test_read, StackInv
  <2>2. CASE pc1' = "read" /\ stack' = stack
    BY <2>1, <2>2 DEF StackInv
  <2>3. CASE pc1' = "disk_error" /\ stack' = Append(stack, "es")
    <3>1. stack' \in Seq(StackWords) /\ Len(stack') = 1 /\ stack'[1] = "es"
      BY <2>1, <2>3 DEF StackWords
    <3> QED
      BY <2>3, <3>1 DEF StackInv, ReturnAddresses
  <2> QED
    BY <1>1, <2>2, <2>3 DEF test_read
<1>2. CASE disk_read
  <2>1. stack' = Frame
    BY <1>2 DEF disk_read, StackInv, Frame
  <2> QED
    BY <1>2, <2>1, Frames DEF disk_read, StackInv
<1>3. CASE read_done
  <2>1. stack = Frame /\ cx_dh = lba_to_chs(Stage2Lba) /\ Ret(5)
    BY <1>3 DEF read_done, StackInv
  <2>2. pc1' = "after_read" /\ stack' = << >>
    BY <2>1, RetFromRead
  <2>3. at500' = Stage2Lba .. Stage2Lba + Stage2Sectors - 1
    BY <1>3, <2>1, ChsIsLba, Stage1Assumption DEF read_done
  <2> QED
    BY <2>2, <2>3 DEF StackInv
<1>4. CASE read_failed
  <2>1. stack' = ResetFrame
    BY <1>4 DEF read_failed, StackInv, ResetFrame
  <2> QED
    BY <1>4, <2>1, Frames DEF read_failed, StackInv
<1>5. CASE disk_reset
  <2>1. CASE Ret(Len(PUSHA))
    <3>1. pc1' = "next_try" /\ stack' = Frame
      BY <1>5, <2>1, RetFromReset DEF disk_reset, StackInv
    <3> QED
      BY <1>5, <3>1, Frames DEF disk_reset, StackInv
  <2>2. CASE pc1' = "disk_error" /\ stack' = stack
    <3>1. stack' = ResetFrame
      BY <1>5, <2>2 DEF disk_reset, StackInv
    <3> QED
      BY <2>2, <3>1, Frames DEF StackInv, ReturnAddresses
  <2> QED
    BY <1>5, <2>1, <2>2 DEF disk_reset
<1>6. CASE next_try
  <2>1. /\ stack' = Frame /\ cx_dh' = lba_to_chs(Stage2Lba)
        /\ pc1' \in {"disk_error", "retry"}
    BY <1>6 DEF next_try, StackInv
  <2> QED
    BY <2>1, Frames DEF StackInv, ReturnAddresses
<1>7. CASE enter_stage2
  BY <1>7 DEF enter_stage2, StackInv
<1>8. CASE disk_error
  <2>1. /\ pc1 = "disk_error" /\ Len(stack) > 0 /\ stack[Len(stack)] \notin ReturnAddresses
        /\ stack \in Seq(StackWords)
    BY <1>8 DEF disk_error, StackInv
  <2>2. Dropped(0)[Len(stack) - 0] = stack[Len(stack)]
    <3>1. Len(stack) \in Nat \ {0} /\ 0 \in 0 .. Len(stack)
      BY <2>1
    <3>2. \A k \in 1 .. Len(stack) - 0 : Dropped(0)[k] = stack[k]
      BY <2>1, <3>1, DropWords
    <3> QED
      BY <3>1, <3>2
  <2>3. pc1' = "lost" /\ stack' = Dropped(1)
    BY <1>8, <2>1, <2>2 DEF disk_error, Ret
  <2>4. Dropped(1) \in Seq(StackWords)
    BY <2>1, DropWords
  <2> QED
    BY <1>8, <2>3, <2>4 DEF disk_error, StackInv
<1> QED
  BY <1>1, <1>2, <1>3, <1>4, <1>5, <1>6, <1>7, <1>8 DEF Next1

\* For every geometry, place and length of stage 2 and number of retries: stage 2 is
\* entered with all of it in memory and nothing left on the stack, and the boot sector
\* goes astray only after the message of disk_error.
THEOREM BootStage2EnteredWhole == Spec => []Stage2EnteredWhole
<1>1. Init => StackInv
  BY DEF Init, Init1, StackInv
<1>2. StackInv /\ [Next]_<<vars1, vars2>> => StackInv'
  <2> SUFFICES ASSUME StackInv, [Next]_<<vars1, vars2>> PROVE StackInv'
    OBVIOUS
  <2>1. CASE Next1
    BY <2>1, Next1Inv
  <2>2. CASE UNCHANGED vars1
    BY <2>2 DEF vars1, StackInv
  <2> QED
    BY <2>1, <2>2 DEF Next, entry
<1>3. StackInv => Stage2EnteredWhole
  BY DEF StackInv, Stage2EnteredWhole
<1> QED
  BY <1>1, <1>2, <1>3, PTL DEF Spec

----------------------------------------------------------------------------
(* The A20 gate.                                                           *)

Bytes == {"none", "port", "key"}

Commands == {"none", "disable", "read_control_output", "write_control_output", "data", "enable"}

ControllerType ==
  /\ kbc \in [command : Commands, out : Seq(Bytes), disabled : BOOLEAN, a20 : BOOLEAN,
              port : Bytes, typed : BOOLEAN]
  /\ al \in Bytes

Before == {"off", "disable", "read_control_output", "take_output"}

AfterA20 ==
  {"ata0m", "ata0s", "fat16_init", "divide_error", "root", "navigate_failed", "root_entry",
   "subdir", "kernel", "hang", "read_from_handle", "chunk", "hop"}

\* What enable_a20 and the controller have got to while no key is typed: the output
\* register holds the port's value exactly when it is waited for, and the command in
\* the input register is the one that was sent last.
Unspoiled ==
  /\ kbc.port = "port" /\ pc2 # "reset"
  /\ pc2 \notin Before => al = "port"
  /\ kbc.out = IF pc2 = "take_output" /\ kbc.command = "none" THEN <<"port">> ELSE << >>
  /\ kbc.command # "none" =>
       \/ pc2 = "read_control_output" /\ kbc.command = "disable"
       \/ pc2 = "take_output" /\ kbc.command = "read_control_output"
       \/ pc2 = "data" /\ kbc.command = "write_control_output"
       \/ pc2 = "enable" /\ kbc.command = "data"
       \/ pc2 = "protected_mode" /\ kbc.command = "enable"
  /\ pc2 \notin Before \cup {"write_control_output", "data"} =>
       kbc.a20 \/ (pc2 = "enable" /\ kbc.command = "data")

A20Inv == ControllerType /\ (kbc.typed \/ Unspoiled)

LEMMA StrayKeyInv ==
  ASSUME A20Inv, type_key
  PROVE  A20Inv'
<1>1. kbc' = [kbc EXCEPT !.out = Append(kbc.out, "key"), !.typed = TRUE] /\ al' = al
  BY DEF type_key
<1>2. Append(kbc.out, "key") \in Seq(Bytes)
  BY DEF A20Inv, ControllerType, Bytes
<1> QED
  BY <1>1, <1>2 DEF A20Inv, ControllerType

LEMMA ControllerInv ==
  ASSUME A20Inv, controller
  PROVE  A20Inv'
<1> DEFINE c == kbc.command
           disabled == IF c = "disable" THEN TRUE ELSE IF c = "enable" THEN FALSE ELSE kbc.disabled
           out == IF c = "read_control_output" THEN Append(kbc.out, kbc.port) ELSE kbc.out
           port == IF c = "data" THEN al ELSE kbc.port
           a20 == c = "data" \/ kbc.a20
<1>1. /\ c # "none" /\ al' = al
      /\ kbc' = [kbc EXCEPT !.command = "none", !.disabled = disabled, !.out = out, !.port = port,
                            !.a20 = a20]
      /\ pc2' = pc2 \/ (c = "data" /\ al # "port" /\ pc2' = "reset")
  BY DEF controller
<1>2. ControllerType
  BY DEF A20Inv
<1>3. disabled \in BOOLEAN /\ out \in Seq(Bytes) /\ port \in Bytes /\ a20 \in BOOLEAN
  <2>1. /\ kbc.out \in Seq(Bytes) /\ kbc.port \in Bytes /\ al \in Bytes
        /\ kbc.disabled \in BOOLEAN /\ kbc.a20 \in BOOLEAN
    BY <1>2 DEF ControllerType
  <2>2. Append(kbc.out, kbc.port) \in Seq(Bytes)
    BY <2>1, AppendProperties
  <2> QED
    BY <2>1, <2>2
<1>4. (c = "read_control_output" => out = Append(kbc.out, kbc.port))
      /\ (c # "read_control_output" => out = kbc.out)
      /\ (c = "data" => port = al /\ a20) /\ (c # "data" => port = kbc.port /\ a20 = kbc.a20)
  BY <1>2 DEF ControllerType
<1> HIDE DEF disabled, out, port, a20
<1>5. /\ kbc'.command = "none" /\ kbc'.out = out /\ kbc'.port = port /\ kbc'.a20 = a20
      /\ kbc'.typed = kbc.typed /\ ControllerType'
  BY <1>1, <1>2, <1>3 DEF ControllerType, Commands
<1>6. ASSUME Unspoiled PROVE Unspoiled'
  <2>1. c = "data" => al = "port"
    BY <1>6 DEF Unspoiled, Before
  <2>2. pc2' = pc2
    BY <1>1, <2>1
  <2>3. c = "read_control_output" => out = <<"port">>
    BY <1>1, <1>4, <1>6 DEF Unspoiled
  <2>4. kbc'.out = IF pc2' = "take_output" /\ kbc'.command = "none" THEN <<"port">> ELSE << >>
    BY <1>1, <1>4, <1>5, <1>6, <2>2, <2>3 DEF Unspoiled
  <2>5. kbc'.port = "port"
    BY <1>4, <1>5, <1>6, <2>1 DEF Unspoiled
  <2> QED
    BY <1>1, <1>4, <1>5, <1>6, <2>2, <2>4, <2>5 DEF Unspoiled, Before
<1> QED
  BY <1>5, <1>6 DEF A20Inv

LEMMA SendInv ==
  ASSUME A20Inv, NEW label, NEW command \in Commands \ {"none"}, NEW next,
         Send(label, command, next),
         \/ label = "disable" /\ command = "disable" /\ next = "read_control_output"
         \/ label = "read_control_output" /\ command = "read_control_output" /\ next = "take_output"
         \/ label = "write_control_output" /\ command = "write_control_output" /\ next = "data"
         \/ label = "data" /\ command = "data" /\ next = "enable"
         \/ label = "enable" /\ command = "enable" /\ next = "protected_mode"
  PROVE  A20Inv'
<1>1. /\ pc2 = label /\ pc2' = next /\ kbc.command = "none" /\ al' = al
      /\ kbc' = [kbc EXCEPT !.command = command]
  BY DEF Send
<1>2. ControllerType
  BY DEF A20Inv
<1>3. /\ kbc'.command = command /\ kbc'.out = kbc.out /\ kbc'.port = kbc.port
      /\ kbc'.a20 = kbc.a20 /\ kbc'.typed = kbc.typed /\ ControllerType'
  BY <1>1, <1>2 DEF ControllerType
<1>4. ASSUME Unspoiled PROVE Unspoiled'
  BY <1>1, <1>3, <1>4 DEF Unspoiled, Before
<1> QED
  BY <1>3, <1>4 DEF A20Inv

LEMMA TakeOutputInv ==
  ASSUME A20Inv, take_output
  PROVE  A20Inv'
<1>1. /\ pc2 = "take_output" /\ kbc.out # << >> /\ al' = Head(kbc.out)
      /\ kbc' = [kbc EXCEPT !.out = Tail(kbc.out)] /\ pc2' = "write_control_output"
  BY DEF take_output
<1>2. ControllerType
  BY DEF A20Inv
<1>3. Head(kbc.out) \in Bytes /\ Tail(kbc.out) \in Seq(Bytes)
  BY <1>1, <1>2 DEF ControllerType
<1>4. /\ kbc'.command = kbc.command /\ kbc'.out = Tail(kbc.out) /\ kbc'.port = kbc.port
      /\ kbc'.a20 = kbc.a20 /\ kbc'.typed = kbc.typed /\ ControllerType'
  BY <1>1, <1>2, <1>3 DEF ControllerType
<1>5. ASSUME Unspoiled PROVE Unspoiled'
  <2>1. kbc.command = "none" /\ kbc.out = <<"port">>
    BY <1>1, <1>5 DEF Unspoiled
  <2>2. al' = "port" /\ kbc'.out = << >>
    BY <1>1, <1>4, <2>1
  <2> QED
    BY <1>1, <1>4, <1>5, <2>1, <2>2 DEF Unspoiled, Before
<1> QED
  BY <1>4, <1>5 DEF A20Inv

\* Steps that do not touch the controller.
LEMMA QuietInv ==
  ASSUME A20Inv, UNCHANGED <<kbc, al>>,
         \/ pc2' = pc2
         \/ pc2 = "off" /\ pc2' = "disable"
         \/ pc2 = "protected_mode" /\ kbc.command = "none" /\ pc2' \in AfterA20
         \/ pc2 \in AfterA20 /\ pc2' \in AfterA20
  PROVE  A20Inv'
BY DEF A20Inv, ControllerType, Unspoiled, Before, AfterA20

\* stage2_main stays behind enable_a20.
LEMMA MainLabels ==
  ASSUME stage2_main
  PROVE  pc2 \in AfterA20 /\ pc2' \in AfterA20 /\ UNCHANGED <<kbc, al>>
<1>1. CASE fat16_read
  BY <1>1 DEF fat16_read, find_root_directory_entry, root_exhausted, open_directory_in_root,
     open_with_no_handle, next_cluster_of_subdir, find_entry_in_subdir, read_from_handle, read_chunk,
     next_cluster, read_returns, a20vars, AfterA20
<1>2. CASE fat16_init
  BY <1>2 DEF fat16_init, a20vars, AfterA20
<1>3. CASE identify_disk("master", "ata0m", "ata0s") \/ identify_disk("slave", "ata0s", "fat16_init")
  BY <1>3 DEF identify_disk, a20vars, AfterA20
<1> QED
  BY <1>1, <1>2, <1>3 DEF stage2_main

LEMMA StepA20Inv ==
  ASSUME A20Inv, [Next]_<<vars1, vars2>>
  PROVE  A20Inv'
<1>1. CASE UNCHANGED vars2
  BY <1>1, QuietInv DEF vars2, a20vars
<1>2. CASE entry
  BY <1>2, QuietInv DEF entry, a20vars
<1>3. CASE type_key
  BY <1>3, StrayKeyInv
<1>4. CASE controller
  BY <1>4, ControllerInv
<1>5. CASE enable_a20
  BY <1>5, SendInv, TakeOutputInv DEF enable_a20, Commands
<1>6. CASE protected_mode
  BY <1>6, QuietInv DEF protected_mode, a20vars, AfterA20
<1>7. CASE stage2_main
  BY <1>7, MainLabels, QuietInv
<1> QED
  BY <1>1, <1>2, <1>3, <1>4, <1>5, <1>6, <1>7 DEF Next, Next2

LEMMA InitA20Inv == Init => A20Inv
<1> SUFFICES ASSUME Init PROVE A20Inv
  OBVIOUS
<1>1. /\ pc2 = "off" /\ al = "none"
      /\ kbc = [command |-> "none", out |-> << >>, disabled |-> FALSE, a20 |-> FALSE,
                port |-> "port", typed |-> FALSE]
  BY DEF Init, Init2
<1> QED
  BY <1>1 DEF A20Inv, ControllerType, Unspoiled, Before, Bytes, Commands

\* However the controller's steps fall between those of enable_a20: unless a key came
\* first, protected mode is entered with the gate open, the output port as it was and
\* the CPU not reset.
THEOREM BootA20Opened == Spec => []A20Opened
<1>1. A20Inv => A20Opened
  BY DEF A20Inv, Unspoiled, Before, A20Opened
<1> QED
  BY <1>1, InitA20Inv, StepA20Inv, PTL DEF Spec

----------------------------------------------------------------------------
(* Types.                                                                  *)

Disks == {"master", "slave"}

EntryHandles == [cluster : Nat, offset : Nat, remaining : Int]

\* What stage 2 reads of a volume has its type, also when it is read where the volume
\* has nothing of the kind.
DiskTypes ==
  /\ machine \in Machines
  /\ default_disk # "none" => default_disk \in Disks /\ machine[default_disk] # NoDisk
  /\ bpb.bytes_per_sector \in Nat /\ bpb.sectors_per_cluster \in Nat
  /\ handle \in EntryHandles
  /\ filename \in {"none", "BOOT", "KERNEL0"}
  /\ faults \in 0 .. MaxFaults

\* What is loaded never exceeds what the kernel has room for.
ImageFits == \E S : image \in Seq(S) /\ Len(image) <= ksize

LEMMA Entered ==
  ASSUME NEW content, NEW pos, NEW any, NEW T, any \subseteq T, NEW r \in MayRead(content, pos, any),
         Readable => \A q \in DOMAIN content : content[q] \in T,
         faults \in 0 .. MaxFaults
  PROVE  r.value \in T /\ faults + r.bad \in 0 .. MaxFaults
<1> DEFINE good == Readable /\ pos \in DOMAIN content
<1>0. MaxFaults \in Nat
  BY Stage2Assumption
<1>1. CASE \E v \in any : r = [value |-> IF good THEN content[pos] ELSE v, bad |-> 0]
  BY <1>0, <1>1
<1>2. CASE faults < MaxFaults /\ \E v \in any : r = [value |-> v, bad |-> 1]
  BY <1>0, <1>2
<1> QED
  BY <1>1, <1>2 DEF MayRead

\* The directory entries and the entries of the FAT that may be read.
LEMMA EntryRead ==
  ASSUME DiskTypes, NEW pos, NEW r \in MayRead(Volume.entries, pos, AnyEntry)
  PROVE  /\ r.value.cluster \in Nat /\ r.value.size \in Nat
         /\ faults + r.bad \in 0 .. MaxFaults
<1> DEFINE T == [name : {"free", "end", "other", "BOOT", "KERNEL0", "none"},
                 attribute : SUBSET {"read_only", "hidden", "system", "volume", "subdir", "archive"},
                 cluster : Nat, size : Nat]
<1>1. AnyEntry \subseteq T
  BY DEF AnyEntry, DiskTypes
<1>2. DirEntries \subseteq T
  BY DEF DirEntries
<1>3. Readable => \A q \in DOMAIN Volume.entries : Volume.entries[q] \in T
  BY <1>2, Stage2Assumption DEF DiskTypes, Readable, Volume, Disks
<1>4. faults \in 0 .. MaxFaults
  BY DEF DiskTypes
<1>5. T = [name : {"free", "end", "other", "BOOT", "KERNEL0", "none"},
           attribute : SUBSET {"read_only", "hidden", "system", "volume", "subdir", "archive"},
           cluster : Nat, size : Nat]
  OBVIOUS
<1> HIDE DEF T
<1>6. r.value \in T /\ faults + r.bad \in 0 .. MaxFaults
  BY <1>1, <1>3, <1>4, Entered
<1> QED
  BY <1>5, <1>6

LEMMA FatRead ==
  ASSUME DiskTypes, NEW pos, NEW r \in MayRead(Volume.fat, pos, AnyCluster)
  PROVE  r.value \in Nat /\ faults + r.bad \in 0 .. MaxFaults
<1>1. AnyCluster \subseteq Nat
  BY Stage2Assumption DEF AnyCluster
<1>2. Readable => \A q \in DOMAIN Volume.fat : Volume.fat[q] \in Nat
  BY Stage2Assumption DEF DiskTypes, Readable, Volume, Disks
<1>3. faults \in 0 .. MaxFaults
  BY DEF DiskTypes
<1> QED
  BY <1>1, <1>2, <1>3, Entered

LEMMA BpbRead ==
  ASSUME DiskTypes, NEW r \in MayRead([pos \in {0} |-> Volume.bpb], 0, Bpbs)
  PROVE  r.value \in BootSectors /\ faults + r.bad \in 0 .. MaxFaults
<1> DEFINE content == [pos \in {0} |-> Volume.bpb]
<1>1. Bpbs \subseteq BootSectors
  BY Stage2Assumption
<1>2. Readable => \A q \in DOMAIN content : content[q] \in BootSectors
  BY Stage2Assumption DEF DiskTypes, Readable, Volume, Disks
<1>3. faults \in 0 .. MaxFaults
  BY DEF DiskTypes
<1> HIDE DEF content
<1>4. r \in MayRead(content, 0, Bpbs)
  BY DEF content
<1> QED
  BY <1>1, <1>2, <1>3, <1>4, Entered

LEMMA StoredBpb ==
  ASSUME NEW b \in BootSectors
  PROVE  /\ fat16_read_bpb(b).bytes_per_sector \in Nat
         /\ fat16_read_bpb(b).sectors_per_cluster \in Nat
<1>1. b.bytes_per_sector \in Nat /\ b.sectors_per_cluster \in Nat
      /\ SectorSize \in Nat
  BY Stage2Assumption DEF BootSectors
<1>2. CASE fat16_read_bpb(b) = ZeroBpb
  BY <1>2 DEF ZeroBpb
<1>3. CASE fat16_read_bpb(b) = [ZeroBpb EXCEPT !.bytes_per_sector = b.bytes_per_sector]
  BY <1>1, <1>3 DEF ZeroBpb
<1>4. CASE fat16_read_bpb(b) = [ZeroBpb EXCEPT !.bytes_per_sector = b.bytes_per_sector,
                                               !.sectors_per_cluster = b.sectors_per_cluster]
  BY <1>1, <1>4 DEF ZeroBpb
<1>5. CASE fat16_read_bpb(b) = [f \in DOMAIN ZeroBpb |-> b[f]]
  BY <1>1, <1>5 DEF ZeroBpb
<1> QED
  BY <1>2, <1>3, <1>4, <1>5 DEF fat16_read_bpb

LEMMA LeastOfThree ==
  ASSUME NEW a \in Int, NEW b \in Int, NEW c \in Int
  PROVE  LET n == Least({a, b, c}) IN n \in {a, b, c} /\ n <= a /\ n <= b /\ n <= c
<1>1. \E n \in {a, b, c} : \A m \in {a, b, c} : n <= m
  <2>1. CASE a <= b /\ a <= c
    BY <2>1
  <2>2. CASE b <= a /\ b <= c
    BY <2>2
  <2>3. CASE c <= a /\ c <= b
    BY <2>3
  <2> QED
    BY <2>1, <2>2, <2>3
<1> QED
  BY <1>1 DEF Least

\* A read gives the bytes of the disk but for those of some sectors, and counts these.
LEMMA ReadOf ==
  ASSUME NEW n \in Int, NEW r \in Reads(n)
  PROVE  \E bad :
           /\ IsFiniteSet(bad) /\ Cardinality(bad) \in Nat
           /\ faults + Cardinality(bad) <= MaxFaults /\ r.bad = Cardinality(bad)
           /\ r.bytes = [i \in 1 .. n |->
                           IF Readable /\ SectorOf(BytesRead(disk_pointer, n)[i]) \notin bad
                             THEN <<default_disk, BytesRead(disk_pointer, n)[i]>> ELSE <<"junk">>]
<1> DEFINE from == BytesRead(disk_pointer, n)
           sectors == {SectorOf(from[i]) : i \in 1 .. n}
           given(b) == [i \in 1 .. n |->
             IF Readable /\ SectorOf(from[i]) \notin b THEN <<default_disk, from[i]>> ELSE <<"junk">>]
<1>a. Reads(n) = {[bytes |-> given(b), bad |-> Cardinality(b)] :
                    b \in {b \in SUBSET sectors : faults + Cardinality(b) <= MaxFaults}}
  BY Zenon DEF Reads
<1>1. PICK bad \in SUBSET sectors :
        /\ faults + Cardinality(bad) <= MaxFaults /\ r.bad = Cardinality(bad)
        /\ r.bytes = given(bad)
  <2> HIDE DEF sectors, given
  <2> QED
    BY <1>a
<1>2. IsFiniteSet(bad)
  <2>1. IsFiniteSet(1 .. n)
    BY FS_Interval
  <2> DEFINE f == [i \in 1 .. n |-> SectorOf(from[i])]
  <2>2. IsFiniteSet(sectors)
    <3>1. f \in Surjection(1 .. n, sectors)
      BY DEF Surjection
    <3> QED
      BY <2>1, <3>1, FS_Surjection
  <2> QED
    BY <1>1, <2>2, FS_Subset
<1>3. Cardinality(bad) \in Nat
  BY <1>2, FS_CardinalityType
<1>4. r.bytes = given(bad)
  BY <1>1
<1> QED
  BY <1>1, <1>2, <1>3, <1>4, Zenon

\* A read of n bytes gives n bytes, and counts the sectors that failed.
LEMMA ReadLength ==
  ASSUME NEW n \in Int, NEW r \in Reads(n), faults \in 0 .. MaxFaults
  PROVE  /\ \E S : r.bytes \in [1 .. n -> S]
         /\ faults + r.bad \in 0 .. MaxFaults
<1> DEFINE from == BytesRead(disk_pointer, n)
<1>1. PICK bad :
        /\ Cardinality(bad) \in Nat /\ faults + Cardinality(bad) <= MaxFaults
        /\ r.bad = Cardinality(bad)
        /\ r.bytes = [i \in 1 .. n |->
                        IF Readable /\ SectorOf(from[i]) \notin bad
                          THEN <<default_disk, from[i]>> ELSE <<"junk">>]
  BY ReadOf, Zenon
<1>2. faults + r.bad \in 0 .. MaxFaults
  BY <1>1, Stage2Assumption
<1> DEFINE e(i) == IF Readable /\ SectorOf(from[i]) \notin bad THEN <<default_disk, from[i]>> ELSE <<"junk">>
<1>3. r.bytes = [i \in 1 .. n |-> e(i)]
  BY <1>1
<1> HIDE DEF e
<1>4. r.bytes \in [1 .. n -> {e(i) : i \in 1 .. n}]
  BY <1>3
<1> QED
  BY <1>2, <1>4

\* Stage 1 counts its retries down to 0 and stops there.
RetryInv ==
  /\ pc1 \in {"main", "read", "retry", "disk_reset", "next_try", "after_read",
              "disk_error", "stage2", "lost"}
  /\ di \in 0 .. Retries
  /\ pc1 \in {"retry", "disk_reset", "next_try"} => di >= 1
  /\ at500 \subseteq Nat
  /\ message \in BOOLEAN

LEMMA Next1Types ==
  ASSUME StackInv, RetryInv, Next1
  PROVE  RetryInv'
<1>0. Retries \in Nat \ {0}
  BY Stage1Assumption
<1>1. CASE test_read
  BY <1>1 DEF test_read, RetryInv
<1>2. CASE disk_read
  BY <1>0, <1>2 DEF disk_read, RetryInv
<1>3. CASE read_done
  <2>1. stack = Frame /\ cx_dh = lba_to_chs(Stage2Lba) /\ Ret(5)
    BY <1>3 DEF read_done, StackInv
  <2>2. pc1' = "after_read"
    BY <2>1, RetFromRead
  <2>3. at500' = Stage2Lba .. Stage2Lba + Stage2Sectors - 1
    BY <1>3, <2>1, ChsIsLba, Stage1Assumption DEF read_done
  <2>4. at500' \subseteq Nat
    BY <2>3, Stage1Assumption
  <2> QED
    BY <1>3, <2>2, <2>4 DEF read_done, RetryInv
<1>4. CASE read_failed
  BY <1>4 DEF read_failed, RetryInv
<1>5. CASE disk_reset
  <2>1. Ret(Len(PUSHA)) => pc1' = "next_try"
    BY <1>5, RetFromReset DEF disk_reset, StackInv
  <2> QED
    BY <1>5, <2>1 DEF disk_reset, RetryInv
<1>6. CASE next_try
  BY <1>0, <1>6 DEF next_try, RetryInv
<1>7. CASE enter_stage2
  BY <1>7 DEF enter_stage2, RetryInv
<1>8. CASE disk_error
  <2>1. pc1' \in {"after_read", "next_try", "lost"}
    BY <1>8 DEF disk_error, Ret, ReturnAddresses
  <2>2. pc1' # "next_try"
    <3>1. /\ Len(stack) > 0 /\ stack[Len(stack)] \notin ReturnAddresses
          /\ stack \in Seq(StackWords)
      BY <1>8 DEF disk_error, StackInv
    <3>2. Len(stack) \in Nat \ {0} /\ 0 \in 0 .. Len(stack)
      BY <3>1
    <3>3. \A k \in 1 .. Len(stack) - 0 : Dropped(0)[k] = stack[k]
      BY <3>1, <3>2, DropWords
    <3>4. Dropped(0)[Len(stack) - 0] = stack[Len(stack)]
      BY <3>2, <3>3
    <3> QED
      BY <1>8, <3>1, <3>4 DEF disk_error, Ret, ReturnAddresses
  <2> QED
    BY <1>8, <2>1, <2>2 DEF disk_error, RetryInv
<1> QED
  BY <1>1, <1>2, <1>3, <1>4, <1>5, <1>6, <1>7, <1>8 DEF Next1

----------------------------------------------------------------------------
\* The reads that put nothing into the image.
LEMMA DirectoryTypes ==
  ASSUME DiskTypes, fat16_read, ~read_chunk
  PROVE  DiskTypes'
<1>0. EntrySize \in Nat
  BY Stage2Assumption
<1> USE DEF diskvars, mountvars, filevars, a20vars, EntryHandles
<1>1. CASE find_root_directory_entry
  BY <1>1, EntryRead DEF find_root_directory_entry, DiskTypes
<1>2. CASE root_exhausted
  BY <1>2 DEF root_exhausted, DiskTypes
<1>3. CASE open_directory_in_root
  <2>1. PICK r \in MayRead(Volume.entries, disk_pointer - EntrySize, AnyEntry) :
           /\ faults' = faults + r.bad
           /\ IF "volume" \in r.value.attribute
                THEN pc2' = "navigate_failed" /\ UNCHANGED <<handle, filename>>
                ELSE pc2' = "subdir" /\ handle' = Opened(r.value) /\ filename' = "KERNEL0"
    BY <1>3 DEF open_directory_in_root
  <2>2. r.value.cluster \in Nat /\ r.value.size \in Nat /\ faults + r.bad \in 0 .. MaxFaults
    BY <2>1, EntryRead
  <2>3. Opened(r.value) \in EntryHandles
    BY <2>2 DEF Opened
  <2> QED
    BY <1>3, <2>1, <2>2, <2>3 DEF open_directory_in_root, DiskTypes
<1>4. CASE open_with_no_handle
  BY <1>4 DEF open_with_no_handle, DiskTypes
<1>5. CASE next_cluster_of_subdir
  <2>1. PICK r \in MayRead(Volume.fat, move_to_fat_region(handle.cluster), AnyCluster) :
           /\ faults' = faults + r.bad
           /\ handle' = [handle EXCEPT !.cluster = r.value, !.offset = 0]
    BY <1>5 DEF next_cluster_of_subdir
  <2>2. r.value \in Nat /\ faults + r.bad \in 0 .. MaxFaults
    BY <2>1, FatRead
  <2> QED
    BY <1>5, <2>1, <2>2 DEF next_cluster_of_subdir, DiskTypes
<1>6. CASE find_entry_in_subdir
  <2>1. PICK r \in MayRead(Volume.entries, move_to_data_region(handle.cluster, handle.offset), AnyEntry) :
           /\ faults' = faults + r.bad
           /\ \/ handle' = Opened(r.value)
              \/ handle' = [handle EXCEPT !.offset = @ + EntrySize]
    BY <1>6 DEF find_entry_in_subdir
  <2>2. r.value.cluster \in Nat /\ r.value.size \in Nat /\ faults + r.bad \in 0 .. MaxFaults
    BY <2>1, EntryRead
  <2>3. Opened(r.value) \in EntryHandles
    BY <2>2 DEF Opened
  <2>4. [handle EXCEPT !.offset = @ + EntrySize] \in EntryHandles
    BY <1>0 DEF DiskTypes
  <2> QED
    BY <1>6, <2>1, <2>2, <2>3, <2>4 DEF find_entry_in_subdir, DiskTypes
<1>7. CASE read_from_handle
  BY <1>7 DEF read_from_handle, DiskTypes
<1>8. CASE next_cluster
  <2>1. PICK r \in MayRead(Volume.fat, move_to_fat_region(handle.cluster), AnyCluster) :
           handle' = [handle EXCEPT !.cluster = r.value] /\ faults' = faults + r.bad
    BY <1>8 DEF next_cluster
  <2>2. r.value \in Nat /\ faults + r.bad \in 0 .. MaxFaults
    BY <2>1, FatRead
  <2> QED
    BY <1>8, <2>1, <2>2 DEF next_cluster, DiskTypes
<1>9. CASE read_returns
  BY <1>9 DEF read_returns, DiskTypes
<1> QED
  BY <1>1, <1>2, <1>3, <1>4, <1>5, <1>6, <1>7, <1>8, <1>9 DEF fat16_read


\* A chunk never reaches beyond what the kernel has room for, what is left of the file
\* or the end of the cluster.
\* What read_from_handle asks read for.
LEMMA ChunkBounds ==
  ASSUME DiskTypes, ImageFits
  PROVE  /\ ChunkLength \in Int /\ ClusterBytes \in Nat /\ Len(image) \in Nat
         /\ ChunkLength \in {ksize - Len(image), ClusterBytes - handle.offset, handle.remaining}
         /\ ChunkLength <= ksize - Len(image) /\ ChunkLength <= ClusterBytes - handle.offset
         /\ ChunkLength <= handle.remaining
<1> DEFINE n == ChunkLength
           left == ClusterBytes - handle.offset
<1>1. handle.offset \in Nat /\ handle.remaining \in Int /\ ksize \in Nat
  BY Stage2Assumption DEF DiskTypes, EntryHandles
<1>2. ClusterBytes \in Nat
  BY DEF DiskTypes, ClusterBytes
<1>3. Len(image) \in Nat
  BY DEF ImageFits
<1>4. left \in Int /\ ksize - Len(image) \in Int
  BY <1>1, <1>2, <1>3
<1>5. n = Least({ksize - Len(image), left, handle.remaining})
  BY DEF ChunkLength
<1> HIDE DEF n, left
<1>6. /\ n \in {ksize - Len(image), left, handle.remaining}
      /\ n <= ksize - Len(image) /\ n <= left /\ n <= handle.remaining
  BY <1>1, <1>4, <1>5, LeastOfThree
<1>7. n \in Int
  BY <1>1, <1>4, <1>6
<1> QED
  BY <1>2, <1>3, <1>6, <1>7 DEF n, left

LEMMA ChunkTypes ==
  ASSUME DiskTypes, ImageFits, read_chunk
  PROVE  DiskTypes' /\ ImageFits'
<1> DEFINE n == ChunkLength
           left == ClusterBytes - handle.offset
<1>1. /\ handle \in EntryHandles /\ handle.offset \in Nat /\ handle.remaining \in Int
      /\ faults \in 0 .. MaxFaults /\ ksize \in Nat
  BY Stage2Assumption DEF DiskTypes, EntryHandles
<1>2. ClusterBytes \in Nat
  BY DEF DiskTypes, ClusterBytes
<1>3. PICK S : image \in Seq(S) /\ Len(image) <= ksize
  BY DEF ImageFits
<1>4. Len(image) \in Nat
  BY <1>3
<1>5. /\ n \in {ksize - Len(image), left, handle.remaining}
      /\ n <= ksize - Len(image) /\ n <= left /\ n <= handle.remaining
  BY ChunkBounds
<1>6. n \in Int
  BY <1>1, <1>2, <1>4, <1>5
<1>7. PICK r \in Reads(n) : image' = image \o r.bytes /\ faults' = faults + r.bad
  BY DEF read_chunk
<1>8. /\ \E T : r.bytes \in [1 .. n -> T]
      /\ faults + r.bad \in 0 .. MaxFaults
  <2> HIDE DEF n
  <2> QED
    BY <1>1, <1>6, <1>7, ReadLength
<1>9. ImageFits'
  <2>1. PICK T : r.bytes \in [1 .. n -> T]
    BY <1>8
  <2>2. PICK m \in Nat : m <= ksize - Len(image) /\ 1 .. n = 1 .. m
    <3>1. CASE n >= 0
      BY <1>5, <1>6, <3>1
    <3>2. CASE n < 0
      <4>1. 1 .. n = 1 .. 0 /\ 0 <= ksize - Len(image)
        BY <1>1, <1>3, <1>4, <1>6, <3>2
      <4> QED
        BY <4>1
    <3> QED
      BY <1>6, <3>1, <3>2
  <2>3. r.bytes \in Seq(T) /\ Len(r.bytes) = m
    <3>1. PICK b : b = r.bytes
      OBVIOUS
    <3>2. b \in [1 .. m -> T]
      BY <2>1, <2>2, <3>1
    <3>3. b \in Seq(T) /\ Len(b) = m
      BY <3>2
    <3> QED
      BY <3>1, <3>3
  <2> DEFINE U == S \cup T
  <2>4. r.bytes \in Seq(U) /\ image \in Seq(U)
    BY <1>3, <2>3
  <2>5. image \o r.bytes \in Seq(U) /\ Len(image \o r.bytes) = Len(image) + m
    <3> HIDE DEF U
    <3> QED
      BY <2>3, <2>4, ConcatProperties
  <2>6. image' \in Seq(U) /\ Len(image') <= ksize
    BY <1>1, <1>4, <1>7, <2>2, <2>5
  <2> HIDE DEF U
  <2> QED
    BY <2>6 DEF ImageFits
<1>10. handle' \in EntryHandles
  <2>1. handle' = [handle EXCEPT !.remaining = @ - n,
                     !.offset = IF handle.offset + n = ClusterBytes THEN 0 ELSE @ + n]
    BY DEF read_chunk
  <2>2. handle.offset + n # ClusterBytes => handle.offset + n \in Nat
    <3>1. ksize - Len(image) > 0 /\ handle.remaining > 0
      BY <1>1, <1>4 DEF read_chunk
    <3>2. handle.offset + n # ClusterBytes => n # left
      <4> HIDE DEF n
      <4> QED
        BY <1>1, <1>2, <1>6
    <3> HIDE DEF n, left
    <3> QED
      BY <1>1, <1>4, <1>5, <1>6, <3>1, <3>2
  <2>3. handle.remaining - n \in Int
    <3> HIDE DEF n
    <3> QED
      BY <1>1, <1>6
  <2> HIDE DEF n
  <2> QED
    BY <1>1, <2>1, <2>2, <2>3 DEF EntryHandles
<1> QED
  BY <1>7, <1>8, <1>9, <1>10 DEF DiskTypes, read_chunk, diskvars, mountvars

LEMMA InitTypes == Init => DiskTypes /\ ImageFits /\ RetryInv /\ (pc2 = "off" \/ pc1 = "stage2")
<1> SUFFICES ASSUME Init
             PROVE  DiskTypes /\ ImageFits /\ RetryInv /\ (pc2 = "off" \/ pc1 = "stage2")
  OBVIOUS
<1>1. DiskTypes
  BY Stage2Assumption DEF Init, Init2, DiskTypes, ZeroBpb, NoHandle, EntryHandles
<1>2. ImageFits
  <2>1. image \in Seq({}) /\ Len(image) = 0 /\ ksize \in Nat
    BY Stage2Assumption DEF Init, Init2
  <2> QED
    BY <2>1 DEF ImageFits
<1>3. RetryInv
  <2>1. pc1 = "main" /\ di = 0 /\ at500 = {} /\ message = FALSE
    BY DEF Init, Init1
  <2>2. Retries \in Nat
    BY Stage1Assumption
  <2>3. di \in 0 .. Retries
    BY <2>1, <2>2
  <2>4. at500 \subseteq Nat /\ message \in BOOLEAN
    BY <2>1, Zenon
  <2> QED
    BY <2>1, <2>3, <2>4, Zenon DEF RetryInv
<1> QED
  BY <1>1, <1>2, <1>3 DEF Init, Init2

LEMMA Next2Types ==
  ASSUME DiskTypes, ImageFits, Next2
  PROVE  DiskTypes' /\ ImageFits'
<1> USE DEF a20vars, diskvars, mountvars, filevars
<1>1. CASE type_key \/ controller \/ enable_a20 \/ protected_mode
  <2>1. UNCHANGED <<diskvars, mountvars, filevars>>
    BY <1>1 DEF type_key, controller, enable_a20, Send, take_output, protected_mode
  <2> QED
    BY <2>1 DEF DiskTypes, ImageFits
<1>2. ASSUME NEW d \in Disks, NEW label, NEW next, identify_disk(d, label, next)
      PROVE  DiskTypes' /\ ImageFits'
  BY <1>2 DEF identify_disk, Present, DiskTypes, ImageFits, Disks
<1>3. CASE fat16_init
  <2>1. PICK r \in MayRead([pos \in {0} |-> Volume.bpb], 0, Bpbs) :
          /\ bpb' = fat16_read_bpb(r.value)
          /\ faults' = faults + r.bad
          /\ filename' \in {filename, "BOOT"}
    BY <1>3 DEF fat16_init
  <2>2. r.value \in BootSectors /\ faults + r.bad \in 0 .. MaxFaults
    BY <2>1, BpbRead
  <2>3. bpb'.bytes_per_sector \in Nat /\ bpb'.sectors_per_cluster \in Nat
    BY <2>1, <2>2, StoredBpb
  <2> QED
    BY <1>3, <2>1, <2>2, <2>3 DEF fat16_init, DiskTypes, ImageFits
<1>4. CASE read_chunk
  BY <1>4, ChunkTypes
<1>5. CASE fat16_read /\ ~read_chunk
  <2>1. DiskTypes'
    BY <1>5, DirectoryTypes
  <2>2. CASE open_with_no_handle
    <3>1. image' = image \/ image' = << >> \/ image' = <<<<"junk">>>>
      BY <2>2 DEF open_with_no_handle
    <3>2. ImageFits'
      <4>1. CASE image' = image
        BY <4>1 DEF ImageFits
      <4>2. CASE image' = << >>
        <5>1. image' \in Seq({}) /\ Len(image') = 0 /\ ksize \in Nat
          BY <4>2, Stage2Assumption
        <5> QED
          BY <5>1 DEF ImageFits
      <4>3. CASE image' = <<<<"junk">>>>
        <5>1. image' \in Seq({<<"junk">>}) /\ Len(image') = 1 /\ ksize \in Nat \ {0}
          BY <4>3, Stage2Assumption
        <5> QED
          BY <5>1 DEF ImageFits
      <4> QED
        BY <3>1, <4>1, <4>2, <4>3
    <3> QED
      BY <2>1, <3>2
  <2>3. CASE ~open_with_no_handle
    <3>1. image' = image
      BY <1>5, <2>3 DEF fat16_read, find_root_directory_entry, root_exhausted,
        open_directory_in_root, next_cluster_of_subdir, find_entry_in_subdir,
        read_from_handle, next_cluster, read_returns
    <3> QED
      BY <2>1, <3>1 DEF ImageFits
  <2> QED
    BY <2>2, <2>3
<1> QED
  BY <1>1, <1>2, <1>3, <1>4, <1>5 DEF Next2, stage2_main, Disks

\* The types of stage 1 and stage 2, and what keeps stage 2 from running early.
TypesInv ==
  /\ StackInv /\ RetryInv /\ DiskTypes /\ ImageFits
  /\ pc2 = "off" \/ pc1 = "stage2"
  /\ pc2 = "off" => kbc.command = "none"

LEMMA InitTypesInv == Init => TypesInv
BY InitTypes DEF Init, Init1, Init2, StackInv, TypesInv

LEMMA StepTypesInv ==
  ASSUME TypesInv, [Next]_<<vars1, vars2>>
  PROVE  TypesInv'
<1> USE DEF TypesInv
<1>1. CASE Next1 /\ UNCHANGED vars2
  <2>1. StackInv' /\ RetryInv'
    BY <1>1, Next1Inv, Next1Types
  <2>2. DiskTypes' /\ ImageFits'
    BY <1>1 DEF vars2, diskvars, mountvars, filevars, DiskTypes, ImageFits
  <2>3. /\ (pc2 = "off" \/ pc1 = "stage2")'
        /\ (pc2 = "off" => kbc.command = "none")'
    <3>1. pc1 # "stage2"
      BY <1>1 DEF Next1, test_read, disk_read, read_done, read_failed, disk_reset,
        next_try, enter_stage2, disk_error
    <3> QED
      BY <1>1, <3>1 DEF vars2, a20vars
  <2> QED
    BY <2>1, <2>2, <2>3
<1>2. CASE entry
  BY <1>2 DEF entry, vars1, a20vars, diskvars, mountvars, filevars, StackInv, RetryInv,
    DiskTypes, ImageFits
<1>3. CASE Next2 /\ UNCHANGED vars1
  <2>1. DiskTypes' /\ ImageFits'
    BY <1>3, Next2Types
  <2>2. StackInv' /\ RetryInv'
    BY <1>3 DEF vars1, StackInv, RetryInv
  <2>3. pc2 # "off" /\ pc2' # "off"
    BY <1>3 DEF Next2, type_key, controller, enable_a20, Send, take_output, protected_mode,
      stage2_main, identify_disk, fat16_init, fat16_read, find_root_directory_entry,
      root_exhausted, open_directory_in_root, open_with_no_handle, next_cluster_of_subdir,
      find_entry_in_subdir, read_from_handle, read_chunk, next_cluster, read_returns
  <2> QED
    BY <1>3, <2>1, <2>2, <2>3 DEF vars1
<1>4. CASE UNCHANGED <<vars1, vars2>>
  BY <1>4 DEF vars1, vars2, a20vars, diskvars, mountvars, filevars, StackInv,
    RetryInv, DiskTypes, ImageFits
<1> QED
  BY <1>1, <1>2, <1>3, <1>4 DEF Next

\* However the reads fail and whatever the volume holds: the boot sector never runs out
\* of retries below 0, stage 2 runs only after stage 1 has jumped to it, and never more
\* than the ksize bytes there is room for are loaded.
THEOREM BootTypeOK == Spec => []TypeOK
<1>1. TypesInv => TypeOK
  BY DEF TypesInv, StackInv, RetryInv, DiskTypes, ImageFits, TypeOK, TypeOK1
<1> QED
  BY <1>1, InitTypesInv, StepTypesInv, PTL DEF Spec

----------------------------------------------------------------------------
(* The kernel on the disk and the kernel in memory.                        *)
Reading == {"root", "root_entry", "subdir", "read_from_handle", "chunk", "hop"}

\* The master disk, which is the one to load from.
Disk == machine["master"]

\* The fields of its boot sector, and its layout, are in memory.
Mounted ==
  /\ bpb.bytes_per_sector = SectorSize
  /\ bpb.sectors_per_cluster = Disk.bpb.sectors_per_cluster
  /\ bpb.root_entry_count = Disk.bpb.root_entry_count
  /\ layout = LayoutOf(Disk.bpb)

\* BOOT's entry is not behind the one that is read next.
InRoot ==
  /\ filename = "BOOT"
  /\ \E n \in 0 .. Disk.boot : disk_pointer = RootPosition(Disk, n)

\* The handle stands in cluster k of BOOT, before entry n, which is not behind that
\* of KERNEL0.ELF; before the first entry of a cluster it may stand behind the last one
\* of the cluster in front.
InDirectory ==
  /\ filename = "KERNEL0"
  /\ \E k \in 1 .. Len(Disk.dir), n \in 0 .. Disk.elf :
       /\ handle.cluster = Disk.dir[k]
       /\ n * EntrySize = (k - 1) * BytesPerCluster(Disk) + handle.offset
       /\ handle.offset <= BytesPerCluster(Disk)

\* The first n bytes of the kernel.
Beginning(n) == [i \in 1 .. n |-> <<"master", Disk.kernel[i]>>]

\* So far the image is the beginning of the kernel, and the handle knows how much of it
\* is left.
ImageRight ==
  /\ Len(image) \in 0 .. ksize
  /\ image = Beginning(Len(image))
  /\ handle.remaining = Len(Disk.kernel) - Len(image)

\* The handle and disk_pointer stand at the byte that comes next.
InFile ==
  \E k \in 1 .. Len(Disk.chain) :
    /\ handle.cluster = Disk.chain[k]
    /\ handle.offset < BytesPerCluster(Disk)
    /\ Len(image) = (k - 1) * BytesPerCluster(Disk) + handle.offset
    /\ disk_pointer = ClusterStart(Disk, Disk.chain[k]) + handle.offset

\* The handle still stands in the cluster that has been read.
BehindCluster ==
  \E k \in 1 .. Len(Disk.chain) - 1 :
    /\ handle.cluster = Disk.chain[k]
    /\ handle.offset = 0
    /\ Len(image) = k * BytesPerCluster(Disk)

\* Where stage 2 is with a machine it can boot from on which nothing has failed.
OnTheWay ==
  /\ pc2 \notin {"divide_error", "navigate_failed", "hang"}
  /\ pc2 \in {"ata0s", "fat16_init"} \cup Reading => default_disk = "master"
  /\ pc2 \in Reading => Mounted
  /\ pc2 \notin {"chunk", "hop", "kernel", "reset"} => image = << >>
  /\ pc2 = "root" => InRoot
  /\ pc2 = "root_entry" => filename = "BOOT" /\ disk_pointer = RootPosition(Disk, Disk.boot + 1)
  /\ pc2 = "subdir" => InDirectory
  /\ pc2 = "read_from_handle" => handle = Opened(Disk.entries[Position(Disk, Disk.dir, Disk.elf * EntrySize)])
  /\ pc2 \in {"chunk", "hop"} => ImageRight
  /\ pc2 = "chunk" => Len(image) = ksize \/ InFile
  /\ pc2 = "hop" => BehindCluster
  /\ pc2 = "kernel" => image = Beginning(ksize)

LoadInv == Bootable /\ faults = 0 => OnTheWay

\* Quotient and remainder are the only decomposition of a position.
LEMMA Decomposition ==
  ASSUME NEW S \in Nat \ {0}, NEW q \in Nat, NEW r \in 0 .. S - 1
  PROVE  (q * S + r) \div S = q /\ (q * S + r) % S = r
<1> DEFINE n == q * S + r
           d == n \div S
<1>1. n \in Nat /\ n = q * S + r
  OBVIOUS
<1> HIDE DEF n
<1>2. d \in Int /\ n % S \in 0 .. S - 1 /\ n = S * d + (n % S)
  BY <1>1
<1> HIDE DEF d
<1>3. ASSUME d > q PROVE FALSE
  <2>1. S * d >= S * q + S /\ S * q = q * S
    BY <1>2, <1>3
  <2> QED
    BY <1>1, <1>2, <2>1
<1>4. ASSUME d < q PROVE FALSE
  <2>1. S * q >= S * d + S /\ S * q = q * S
    BY <1>2, <1>4
  <2> QED
    BY <1>1, <1>2, <2>1
<1>5. d = q
  BY <1>2, <1>3, <1>4
<1>6. n % S = r
  <2>1. S * q = q * S
    OBVIOUS
  <2> QED
    BY <1>1, <1>2, <1>5, <2>1
<1> QED
  BY <1>5, <1>6 DEF n, d

\* The parts of sectors that read puts together are the bytes from pos on.
LEMMA ReadIsContiguous ==
  ASSUME NEW pos \in Nat, NEW n \in Nat
  PROVE  BytesRead(pos, n) = [i \in 1 .. n |-> pos + i - 1]
<1> DEFINE S == SectorSize
           q == pos \div S
           offset == pos % S
           first == IF offset = 0 THEN 0 ELSE IF n < S - offset THEN n ELSE S - offset
           rest(i) == i - 1 - first
           sector(i) == q + VolumeSector + (IF first = 0 THEN 0 ELSE 1) + rest(i) \div S
           byte(i) == IF i <= first THEN pos + i - 1
                      ELSE (sector(i) - VolumeSector) * S + (rest(i) % S)
<1>1. S \in Nat \ {0} /\ VolumeSector \in Nat
  BY Stage2Assumption DEF VolumeSector
<1>2. q \in Nat /\ offset \in 0 .. S - 1 /\ pos = S * q + offset
  BY <1>1
<1>3. BytesRead(pos, n) = [i \in 1 .. n |-> byte(i)]
  BY Zenon DEF BytesRead
<1>4. ASSUME NEW i \in 1 .. n PROVE byte(i) = pos + i - 1
  <2>1. CASE i <= first
    BY <2>1
  <2>2. CASE i > first
    <3> DEFINE c == IF first = 0 THEN 0 ELSE 1
               d == rest(i) \div S
               m == rest(i) % S
    <3>0. first \in Nat /\ c \in {0, 1}
      <4> HIDE DEF S, offset
      <4> QED
        BY <1>1, <1>2
    <3>1. rest(i) \in Nat
      <4> HIDE DEF first
      <4> QED
        BY <2>2, <3>0
    <3>2. d \in Nat /\ m \in Nat /\ rest(i) = S * d + m
      <4>1. PICK x \in Nat : x = rest(i)
        BY <3>1, Zenon
      <4>2. x \div S \in Nat /\ x % S \in Nat /\ x = S * (x \div S) + (x % S)
        BY <1>1
      <4> HIDE DEF rest, S
      <4> QED
        BY <4>1, <4>2
    <3>3. offset + first = c * S
      <4>1. CASE offset = 0
        <5>1. first = 0 /\ c = 0
          BY <4>1
        <5> QED
          BY <1>1, <4>1, <5>1
      <4>2. CASE offset # 0
        <5>1. first = S - offset
          <6>1. first # n
            <7> HIDE DEF first
            <7> QED
              BY <2>2, <3>0
          <6> HIDE DEF S, offset
          <6> QED
            BY <4>2, <6>1
        <5>2. first # 0 /\ c = 1
          <6>1. first # 0
            <7> HIDE DEF first, S, offset
            <7> QED
              BY <1>1, <1>2, <5>1
          <6> QED
            BY <6>1
        <5> HIDE DEF first, S, offset, c
        <5> QED
          BY <1>1, <1>2, <5>1, <5>2
      <4> QED
        BY <4>1, <4>2
    <3>4. byte(i) = ((q + VolumeSector + c + d) - VolumeSector) * S + m
      <4>1. ~(i <= first)
        <5> HIDE DEF first
        <5> QED
          BY <2>2, <3>0
      <4>2. sector(i) = q + VolumeSector + c + d
        OBVIOUS
      <4>3. byte(i) = (sector(i) - VolumeSector) * S + m
        <5> HIDE DEF first, sector, S
        <5> QED
          BY <4>1
      <4> HIDE DEF first, sector, byte, q, c, d, m, S
      <4> QED
        BY <4>2, <4>3, Zenon
    <3>5. rest(i) = i - 1 - first
      OBVIOUS
    <3> HIDE DEF S, q, offset, first, rest, c, d, m, byte
    <3>6. (q + VolumeSector + c + d) - VolumeSector = q + c + d
      BY <1>1, <1>2, <3>0, <3>2
    <3>7. (q + c + d) * S + m = S * q + c * S + S * d + m
      BY <1>1, <1>2, <3>0, <3>2
    <3> QED
      BY <1>1, <1>2, <3>0, <3>2, <3>3, <3>4, <3>5, <3>6, <3>7
  <2>3. first \in Nat
    <3> HIDE DEF S, offset
    <3> QED
      BY <1>1, <1>2
  <2> HIDE DEF first, byte
  <2> QED
    BY <2>1, <2>2, <2>3
<1> HIDE DEF byte
<1> QED
  BY <1>3, <1>4

\* A read without a fault gives what the disk has there.
LEMMA FaultlessRead ==
  ASSUME NEW n \in Nat, disk_pointer \in Nat, NEW r \in Reads(n), r.bad = 0, Readable
  PROVE  r.bytes = [i \in 1 .. n |-> <<default_disk, disk_pointer + i - 1>>]
<1> DEFINE from == BytesRead(disk_pointer, n)
<1>1. PICK bad :
        /\ IsFiniteSet(bad) /\ r.bad = Cardinality(bad)
        /\ r.bytes = [i \in 1 .. n |->
                        IF Readable /\ SectorOf(from[i]) \notin bad
                          THEN <<default_disk, from[i]>> ELSE <<"junk">>]
  BY ReadOf
<1>2. bad = {}
  BY <1>1, FS_EmptySet
<1>3. from = [i \in 1 .. n |-> disk_pointer + i - 1]
  BY ReadIsContiguous
<1> HIDE DEF from
<1>4. r.bytes = [i \in 1 .. n |-> <<default_disk, from[i]>>]
  BY <1>1, <1>2
<1> QED
  BY <1>3, <1>4

LEMMA FaultlessEntry ==
  ASSUME NEW content, NEW pos, NEW any, NEW r \in MayRead(content, pos, any),
         faults \in Nat, faults + r.bad = 0, Readable, pos \in DOMAIN content
  PROVE  r.value = content[pos] /\ faults = 0
<1> DEFINE good == Readable /\ pos \in DOMAIN content
<1>1. CASE \E v \in any : r = [value |-> IF good THEN content[pos] ELSE v, bad |-> 0]
  BY <1>1
<1>2. CASE \E v \in any : r = [value |-> v, bad |-> 1]
  BY <1>2
<1> QED
  BY <1>1, <1>2 DEF MayRead

LEMMA BadReads ==
  ASSUME NEW content, NEW pos, NEW any, NEW r \in MayRead(content, pos, any)
  PROVE  r.bad \in {0, 1}
<1> DEFINE good == Readable /\ pos \in DOMAIN content
<1>1. CASE \E v \in any : r = [value |-> IF good THEN content[pos] ELSE v, bad |-> 0]
  BY <1>1
<1>2. CASE \E v \in any : r = [value |-> v, bad |-> 1]
  BY <1>2
<1> QED
  BY <1>1, <1>2 DEF MayRead

\* No sector that failed is forgotten.
LEMMA FaultsRemembered ==
  ASSUME DiskTypes, ImageFits, Next2, faults' = 0
  PROVE  faults = 0
<1> USE DEF a20vars, diskvars, mountvars, filevars
<1>0. faults \in Nat
  BY Stage2Assumption DEF DiskTypes
<1>1. CASE UNCHANGED faults
  BY <1>1
<1>2. CASE fat16_init \/ find_root_directory_entry \/ open_directory_in_root
           \/ next_cluster_of_subdir \/ find_entry_in_subdir \/ next_cluster
  <2>1. PICK content, pos, any : \E r \in MayRead(content, pos, any) : faults' = faults + r.bad
    <3>1. CASE fat16_init
      BY <3>1 DEF fat16_init
    <3>2. CASE find_root_directory_entry \/ open_directory_in_root \/ find_entry_in_subdir
      BY <3>2 DEF find_root_directory_entry, open_directory_in_root, find_entry_in_subdir
    <3>3. CASE next_cluster_of_subdir \/ next_cluster
      <4>1. CASE next_cluster_of_subdir
        BY <4>1, Zenon DEF next_cluster_of_subdir
      <4>2. CASE next_cluster
        BY <4>2, Zenon DEF next_cluster
      <4> QED
        BY <3>3, <4>1, <4>2
    <3> QED
      BY <1>2, <3>1, <3>2, <3>3
  <2>2. \E bad \in {0, 1} : faults' = faults + bad
    BY <2>1, BadReads
  <2> QED
    BY <1>0, <2>2
<1>3. CASE read_chunk
  <2>1. PICK r \in Reads(ChunkLength) : faults' = faults + r.bad
    BY <1>3 DEF read_chunk
  <2>2. ChunkLength \in Int
    BY <1>3, ChunkBounds
  <2>3. r.bad \in Nat
    BY <2>1, <2>2, ReadOf
  <2> QED
    BY <1>0, <2>1, <2>3
<1>4. \/ UNCHANGED faults \/ fat16_init \/ find_root_directory_entry \/ open_directory_in_root
      \/ next_cluster_of_subdir \/ find_entry_in_subdir \/ next_cluster \/ read_chunk
  BY DEF Next2, type_key, controller, enable_a20, Send, take_output, protected_mode,
    stage2_main, identify_disk, fat16_read, root_exhausted, open_with_no_handle,
    read_from_handle, read_returns
<1> QED
  BY <1>1, <1>2, <1>3, <1>4

LEMMA Associates ==
  ASSUME NEW x \in Int, NEW y \in Int, NEW z \in Int
  PROVE  x * (y * z) = (x * y) * z
OBVIOUS

\* The volume of the disk, as the proof uses it.
LEMMA DiskFacts ==
  ASSUME DiskTypes, Bootable
  PROVE  /\ Mountable(Disk.bpb) /\ HoldsBoot(Disk) /\ HoldsFile(Disk)
         /\ Disk.bpb \in BootSectors
         /\ BytesPerCluster(Disk) \in Nat \ {0}
         /\ \E d \in Nat : BytesPerCluster(Disk) = d * EntrySize
         /\ LayoutOf(Disk.bpb).fat \in Nat /\ LayoutOf(Disk.bpb).root \in Nat
         /\ LayoutOf(Disk.bpb).data \in Nat
<1> DEFINE b == Disk.bpb
<1>1. Mountable(b) /\ HoldsBoot(Disk) /\ HoldsFile(Disk)
  BY BootAssumption DEF DiskTypes, Bootable, Disk
<1>2. b \in BootSectors
  BY Stage2Assumption DEF DiskTypes, Bootable, Disk
<1>3. /\ b.bytes_per_sector = SectorSize /\ SectorSize \in Nat \ {0} /\ EntrySize \in Nat \ {0}
      /\ b.sectors_per_cluster \in Nat \ {0}
      /\ SectorSize % EntrySize = 0
  BY <1>1, Stage2Assumption DEF Mountable, ClusterSizes
<1>4. BytesPerCluster(Disk) \in Nat \ {0}
  BY <1>3 DEF BytesPerCluster
<1>5. \E d \in Nat : BytesPerCluster(Disk) = d * EntrySize
  <2>1. PICK e \in Nat : SectorSize = e * EntrySize
    <3>1. SectorSize \div EntrySize \in Nat /\ SectorSize = EntrySize * (SectorSize \div EntrySize)
      BY <1>3
    <3> QED
      BY <1>3, <3>1
  <2>2. b.sectors_per_cluster * SectorSize = (b.sectors_per_cluster * e) * EntrySize
    <3>1. PICK s \in Nat : s = b.sectors_per_cluster
      BY <1>3
    <3>2. s * (e * EntrySize) = (s * e) * EntrySize
      BY <1>3, <2>1, Associates
    <3> QED
      BY <2>1, <3>1, <3>2
  <2>3. b.sectors_per_cluster * e \in Nat
    BY <1>3, <2>1
  <2> QED
    BY <2>2, <2>3 DEF BytesPerCluster
<1>6. /\ b.reserved_sector_count \in Nat /\ b.num_fats \in Nat /\ b.fat_size \in Nat
      /\ b.root_entry_count \in Nat
  BY <1>2 DEF BootSectors
<1> DEFINE fat == b.reserved_sector_count * b.bytes_per_sector
           root == fat + b.num_fats * b.fat_size * b.bytes_per_sector
<1>7. LayoutOf(b) = [fat |-> fat, root |-> root, data |-> root + RootSectors(b) * b.bytes_per_sector]
  <2>1. ClusterCount(b) >= MinClusters /\ ClusterCount(b) < MaxClusters
    BY <1>1 DEF Mountable
  <2>2. ClusterCount(b) \in Int /\ MinClusters \in Int /\ MaxClusters \in Int
    <3> DEFINE s == b.sector_count - (b.reserved_sector_count + b.num_fats * b.fat_size + RootSectors(b))
    <3>1. RootSectors(b) \in Nat
      <4>1. b.root_entry_count * EntrySize \in Nat
        BY <1>3, <1>6
      <4> QED
        BY <1>3, <4>1 DEF RootSectors
    <3>2. s \in Int
      BY <1>2, <1>6, <3>1 DEF BootSectors
    <3> HIDE DEF s
    <3>3. (s % Word) \div b.sectors_per_cluster \in Int
      BY <1>3, <3>2, Stage2Assumption
    <3> QED
      BY <3>3, Stage2Assumption DEF ClusterCount, s
  <2> QED
    BY <2>1, <2>2 DEF LayoutOf
<1>8. fat \in Nat /\ root \in Nat /\ RootSectors(b) * b.bytes_per_sector \in Nat
  <2>1. b.root_entry_count * EntrySize \in Nat
    BY <1>3, <1>6
  <2>2. RootSectors(b) \in Nat
    BY <1>3, <2>1 DEF RootSectors
  <2>3. fat \in Nat
    BY <1>3, <1>6
  <2>4. b.num_fats * b.fat_size * b.bytes_per_sector \in Nat
    BY <1>3, <1>6
  <2>5. RootSectors(b) * b.bytes_per_sector \in Nat
    BY <1>3, <2>2
  <2> HIDE DEF fat
  <2> QED
    BY <2>3, <2>4, <2>5
<1> HIDE DEF fat, root
<1>9. LayoutOf(b).fat \in Nat /\ LayoutOf(b).root \in Nat /\ LayoutOf(b).data \in Nat
  BY <1>7, <1>8
<1> QED
  BY <1>1, <1>2, <1>4, <1>5, <1>9

\* Stage 2 boots from a machine it can boot from, and nothing has failed.
Loading == DiskTypes /\ ImageFits /\ Bootable /\ faults = 0 /\ OnTheWay

LEMMA MountOnTheWay ==
  ASSUME Loading, fat16_init, faults' = 0
  PROVE  OnTheWay'
<1> USE DEF diskvars
<1> DEFINE b == Disk.bpb
           s == [f \in DOMAIN ZeroBpb |-> b[f]]
<1>1. default_disk = "master" /\ image = << >> /\ faults = 0
  BY DEF Loading, OnTheWay, fat16_init
<1>2. Volume = Disk /\ Readable
  BY <1>1 DEF Volume, Readable, Disk
<1>3. Mountable(b) /\ b \in BootSectors
  BY DiskFacts DEF Loading
<1> DEFINE content == [pos \in {0} |-> Volume.bpb]
<1>4. PICK r \in MayRead(content, 0, Bpbs) :
        LET stored == fat16_read_bpb(r.value)
        IN  /\ bpb' = stored
            /\ faults' = faults + r.bad
            /\ IF stored.bytes_per_sector = 0 \/ stored.sectors_per_cluster = 0
                 THEN pc2' = "divide_error" /\ UNCHANGED <<layout, disk_pointer, filename>>
                 ELSE /\ pc2' = "root"
                      /\ layout' = LayoutOf(stored)
                      /\ disk_pointer' = LayoutOf(stored).root
                      /\ filename' = "BOOT"
  BY Zenon DEF fat16_init
<1>5. r.value = b
  <2>1. content[0] = b /\ 0 \in DOMAIN content
    BY <1>2
  <2> HIDE DEF content
  <2>2. faults + r.bad = 0
    BY <1>4
  <2> QED
    BY <1>1, <1>2, <2>1, <2>2, FaultlessEntry
<1>6. fat16_read_bpb(b) = s
  BY <1>3 DEF Mountable, fat16_read_bpb
<1>7. /\ s.bytes_per_sector = b.bytes_per_sector /\ s.sectors_per_cluster = b.sectors_per_cluster
      /\ s.reserved_sector_count = b.reserved_sector_count /\ s.num_fats = b.num_fats
      /\ s.root_entry_count = b.root_entry_count /\ s.sector_count = b.sector_count
      /\ s.fat_size = b.fat_size
  BY DEF ZeroBpb
<1> HIDE DEF s
<1>8. LayoutOf(s) = LayoutOf(b)
  <2>1. RootSectors(s) = RootSectors(b)
    BY <1>7 DEF RootSectors
  <2>2. ClusterCount(s) = ClusterCount(b)
    BY <1>7, <2>1 DEF ClusterCount
  <2> QED
    BY <1>7, <2>1, <2>2 DEF LayoutOf
<1>9. s.bytes_per_sector # 0 /\ s.sectors_per_cluster # 0
  BY <1>3, <1>7, Stage2Assumption DEF Mountable, ClusterSizes
<1>10. /\ bpb' = s /\ pc2' = "root" /\ layout' = LayoutOf(b)
       /\ disk_pointer' = LayoutOf(b).root /\ filename' = "BOOT"
  BY <1>4, <1>5, <1>6, <1>8, <1>9
<1>11. machine' = machine /\ default_disk' = default_disk /\ image' = image
  BY DEF fat16_init
<1>12. Disk' = Disk
  BY <1>11 DEF Disk
<1>13. Mounted'
  <2>1. /\ bpb'.bytes_per_sector = SectorSize /\ bpb'.sectors_per_cluster = b.sectors_per_cluster
        /\ bpb'.root_entry_count = b.root_entry_count /\ layout' = LayoutOf(b)
    BY <1>3, <1>7, <1>10 DEF Mountable
  <2> HIDE DEF b
  <2> QED
    BY <1>12, <2>1 DEF Mounted, b
<1>14. InRoot'
  <2>1. 0 \in 0 .. Disk.boot
    BY DiskFacts DEF Loading, HoldsBoot
  <2>2. RootPosition(Disk, 0) = LayoutOf(b).root
    <3>1. LayoutOf(b).root \in Nat /\ EntrySize \in Nat
      BY DiskFacts, Stage2Assumption DEF Loading
    <3> QED
      BY <3>1 DEF RootPosition
  <2>3. disk_pointer' = RootPosition(Disk', 0) /\ 0 \in 0 .. Disk'.boot
    BY <1>10, <1>12, <2>1, <2>2
  <2> QED
    BY <1>10, <2>3 DEF InRoot
<1> QED
  BY <1>1, <1>10, <1>11, <1>13, <1>14 DEF OnTheWay, Reading

\* The search of the root directory passes over the entries in front of BOOT's.
LEMMA RootOnTheWay ==
  ASSUME Loading, find_root_directory_entry \/ root_exhausted, faults' = 0
  PROVE  OnTheWay'
<1> USE DEF diskvars, mountvars, filevars
<1> DEFINE v == Disk
<1>0. pc2 = "root" /\ default_disk = "master" /\ faults = 0
  BY DEF Loading, OnTheWay, find_root_directory_entry, root_exhausted, Reading
<1>1. Volume = v /\ Readable
  BY <1>0 DEF Volume, Readable, Disk
<1>2. Mounted /\ InRoot /\ image = << >>
  BY <1>0 DEF Loading, OnTheWay, Reading
<1>3. PICK n \in 0 .. v.boot : disk_pointer = RootPosition(v, n)
  BY <1>2 DEF InRoot
<1>4. HoldsBoot(v) /\ LayoutOf(v.bpb).root \in Nat /\ v.bpb \in BootSectors
  BY DiskFacts DEF Loading
<1>5. EntrySize \in Nat \ {0} /\ v.bpb.root_entry_count \in Nat /\ v.boot \in Nat
  BY <1>4, Stage2Assumption DEF BootSectors, HoldsBoot
<1>6. disk_pointer < layout.root + bpb.root_entry_count * EntrySize
  <2>1. n < v.bpb.root_entry_count
    BY <1>4, <1>5 DEF HoldsBoot
  <2>2. n * EntrySize < v.bpb.root_entry_count * EntrySize
    BY <1>5, <2>1
  <2>3. layout.root = LayoutOf(v.bpb).root /\ bpb.root_entry_count = v.bpb.root_entry_count
    BY <1>2 DEF Mounted
  <2>4. disk_pointer = LayoutOf(v.bpb).root + n * EntrySize
    BY <1>3 DEF RootPosition
  <2> HIDE DEF v
  <2>5. n * EntrySize \in Nat /\ v.bpb.root_entry_count * EntrySize \in Nat
    BY <1>5
  <2> QED
    BY <1>4, <2>2, <2>3, <2>4, <2>5
<1>7. disk_pointer \in Nat
  <2>1. n * EntrySize \in Nat
    BY <1>5
  <2> QED
    BY <1>3, <1>4, <2>1 DEF RootPosition
<1>8. find_root_directory_entry
  <2>1. ~root_exhausted
    <3>1. layout.root + bpb.root_entry_count * EntrySize \in Nat
      <4>1. layout.root \in Nat /\ bpb.root_entry_count \in Nat
        BY <1>2, <1>4, <1>5 DEF Mounted
      <4> QED
        BY <1>5, <4>1
    <3> QED
      BY <1>6, <1>7, <3>1 DEF root_exhausted
  <2> QED
    BY <2>1
<1> DEFINE e == v.entries[RootPosition(v, n)]
<1>9. /\ disk_pointer' = disk_pointer + EntrySize
      /\ pc2' = IF Skipped(e) THEN "root"
                ELSE IF e.name = "end" THEN "navigate_failed"
                ELSE IF e.name = filename THEN "root_entry" ELSE "root"
      /\ machine' = machine /\ default_disk' = default_disk /\ bpb' = bpb /\ layout' = layout
      /\ filename' = filename /\ image' = image
  <2>1. PICK r \in MayRead(Volume.entries, disk_pointer, AnyEntry) :
          /\ faults' = faults + r.bad
          /\ pc2' = IF Skipped(r.value) THEN "root"
                    ELSE IF r.value.name = "end" THEN "navigate_failed"
                    ELSE IF r.value.name = filename THEN "root_entry" ELSE "root"
    BY <1>8 DEF find_root_directory_entry
  <2>2. disk_pointer \in DOMAIN Volume.entries
    BY <1>1, <1>3, <1>4 DEF HoldsBoot
  <2>3. r.value = Volume.entries[disk_pointer]
    BY <1>0, <1>1, <2>1, <2>2, FaultlessEntry
  <2>4. r.value = e
    BY <1>1, <1>3, <2>3
  <2> QED
    BY <1>8, <2>1, <2>4 DEF find_root_directory_entry
<1>10. Disk' = v
  BY <1>9 DEF Disk
<1>11. filename = "BOOT"
  BY <1>2 DEF InRoot
<1>12. Mounted'
  BY <1>2, <1>9, <1>10 DEF Mounted
<1>13. disk_pointer' = RootPosition(v, n + 1)
  <2>1. (n + 1) * EntrySize = n * EntrySize + EntrySize
    BY <1>5
  <2>2. n * EntrySize \in Nat
    BY <1>5
  <2> QED
    BY <1>3, <1>4, <1>5, <1>9, <2>1, <2>2 DEF RootPosition
<1>14. CASE n < v.boot
  <2>1. Passed(e, "BOOT")
    <3>1. n \in 0 .. v.boot - 1
      BY <1>5, <1>14
    <3> QED
      BY <1>4, <3>1 DEF HoldsBoot
  <2>2. pc2' = "root"
    BY <1>9, <1>11, <2>1 DEF Passed
  <2>3. n + 1 \in 0 .. v.boot
    BY <1>5, <1>14
  <2>4. InRoot'
    BY <1>9, <1>10, <1>11, <1>13, <2>3 DEF InRoot
  <2> QED
    BY <1>0, <1>2, <1>9, <1>12, <2>2, <2>4 DEF OnTheWay, Reading
<1>15. CASE n = v.boot
  <2>1. Named(e, "BOOT")
    BY <1>4, <1>15 DEF HoldsBoot
  <2>2. pc2' = "root_entry"
    BY <1>9, <1>11, <2>1 DEF Named
  <2>3. disk_pointer' = RootPosition(Disk', Disk'.boot + 1)
    BY <1>10, <1>13, <1>15
  <2> QED
    BY <1>0, <1>2, <1>9, <1>11, <1>12, <2>2, <2>3 DEF OnTheWay, Reading
<1> QED
  BY <1>5, <1>14, <1>15

\* BOOT's entry is opened, and the search of BOOT begins before its first entry.
LEMMA OpenOnTheWay ==
  ASSUME Loading, open_directory_in_root, faults' = 0
  PROVE  OnTheWay'
<1> USE DEF diskvars, mountvars
<1> DEFINE v == Disk
<1>0. pc2 = "root_entry" /\ default_disk = "master" /\ faults = 0
  BY DEF Loading, OnTheWay, open_directory_in_root, Reading
<1>1. Volume = v /\ Readable
  BY <1>0 DEF Volume, Readable, Disk
<1>2. Mounted /\ image = << >> /\ disk_pointer = RootPosition(v, v.boot + 1)
  BY <1>0 DEF Loading, OnTheWay, Reading
<1>3. HoldsBoot(v) /\ HoldsFile(v) /\ LayoutOf(v.bpb).root \in Nat
  BY DiskFacts DEF Loading
<1>4. EntrySize \in Nat \ {0} /\ v.boot \in Nat
  BY <1>3, Stage2Assumption DEF HoldsBoot
<1>5. disk_pointer - EntrySize = RootPosition(v, v.boot)
  <2>1. (v.boot + 1) * EntrySize = v.boot * EntrySize + EntrySize /\ v.boot * EntrySize \in Nat
    BY <1>4
  <2> QED
    BY <1>2, <1>3, <1>4, <2>1 DEF RootPosition
<1> DEFINE e == v.entries[RootPosition(v, v.boot)]
<1>6. /\ IF "volume" \in e.attribute
           THEN pc2' = "navigate_failed" /\ UNCHANGED <<handle, filename>>
           ELSE pc2' = "subdir" /\ handle' = Opened(e) /\ filename' = "KERNEL0"
      /\ machine' = machine /\ default_disk' = default_disk /\ bpb' = bpb /\ layout' = layout
      /\ image' = image
  <2>1. PICK r \in MayRead(Volume.entries, disk_pointer - EntrySize, AnyEntry) :
          /\ faults' = faults + r.bad
          /\ IF "volume" \in r.value.attribute
               THEN pc2' = "navigate_failed" /\ UNCHANGED <<handle, filename>>
               ELSE pc2' = "subdir" /\ handle' = Opened(r.value) /\ filename' = "KERNEL0"
    BY DEF open_directory_in_root
  <2>2. disk_pointer - EntrySize \in DOMAIN Volume.entries
    BY <1>1, <1>3, <1>4, <1>5 DEF HoldsBoot
  <2>3. r.value = Volume.entries[disk_pointer - EntrySize]
    BY <1>0, <1>1, <2>1, <2>2, FaultlessEntry
  <2>4. r.value = e
    BY <1>1, <1>5, <2>3
  <2> QED
    BY <2>1, <2>4 DEF open_directory_in_root
<1>7. "volume" \notin e.attribute /\ e.cluster = v.dir[1] /\ v.dir \in Seq(Nat) /\ v.dir # << >>
  BY <1>3 DEF HoldsBoot, Chained
<1>8. pc2' = "subdir" /\ handle' = Opened(e) /\ filename' = "KERNEL0"
  BY <1>6, <1>7
<1>9. Disk' = v
  BY <1>6 DEF Disk
<1>10. Mounted'
  BY <1>2, <1>6, <1>9 DEF Mounted
<1>11. InDirectory'
  <2>1. handle'.cluster = v.dir[1] /\ handle'.offset = 0
    BY <1>7, <1>8 DEF Opened
  <2>2. 1 \in 1 .. Len(v.dir) /\ 0 \in 0 .. v.elf
    <3>1. v.elf \in Nat
      BY <1>3 DEF HoldsFile
    <3>2. Len(v.dir) \in Nat /\ Len(v.dir) # 0
      BY <1>7, EmptySeq, LenProperties
    <3> QED
      BY <3>1, <3>2
  <2>3. BytesPerCluster(v) \in Nat
    BY DiskFacts DEF Loading
  <2>4. 0 * EntrySize = (1 - 1) * BytesPerCluster(v) + 0 /\ 0 <= BytesPerCluster(v)
    BY <1>4, <2>3
  <2> HIDE DEF v
  <2> QED
    BY <1>8, <1>9, <2>1, <2>2, <2>4 DEF InDirectory
<1> QED
  BY <1>0, <1>2, <1>6, <1>8, <1>10, <1>11 DEF OnTheWay, Reading

\* Byte o of cluster k of a chain, with its place and what the code computes for it.
LEMMA PlaceInCluster ==
  ASSUME DiskTypes, Bootable, Mounted, NEW clusters, Chained(Disk, clusters),
         NEW k \in 1 .. Len(clusters), NEW o \in 0 .. BytesPerCluster(Disk) - 1
  PROVE  /\ clusters[k] \in Nat /\ clusters[k] >= 2
         /\ ClusterStart(Disk, clusters[k]) \in Nat
         /\ Position(Disk, clusters, (k - 1) * BytesPerCluster(Disk) + o)
              = ClusterStart(Disk, clusters[k]) + o
         /\ move_to_data_region(clusters[k], o) = ClusterStart(Disk, clusters[k]) + o
<1> DEFINE B == BytesPerCluster(Disk)
           c == clusters[k]
           start == ClusterStart(Disk, c)
           data == LayoutOf(Disk.bpb).data
<1>1. B \in Nat \ {0} /\ data \in Nat
  BY DiskFacts
<1>2. c \in Nat /\ c >= 2 /\ start + B <= Word
  BY DEF Chained
<1>3. start = data + (c - 2) * B
  BY DEF ClusterStart
<1>4. start \in Nat
  <2>1. c - 2 \in Nat
    BY <1>2
  <2> HIDE DEF start, c, B, data
  <2>2. (c - 2) * B \in Nat
    BY <1>1, <2>1
  <2> QED
    BY <1>1, <1>3, <2>2
<1>5. Position(Disk, clusters, (k - 1) * B + o) = start + o
  <2>1. k - 1 \in Nat /\ (k - 1) + 1 = k
    BY LenProperties DEF Chained
  <2>2. ((k - 1) * B + o) \div B = k - 1 /\ ((k - 1) * B + o) % B = o
    <3> HIDE DEF B
    <3>1. o \in 0 .. B - 1
      BY DEF B
    <3> QED
      BY <1>1, <2>1, <3>1, Decomposition
  <2> QED
    BY <2>1, <2>2 DEF Position
<1>6. move_to_data_region(c, o) = start + o
  <2>1. ClusterBytes = B /\ layout.data = data
    <3>1. /\ bpb.bytes_per_sector = SectorSize
          /\ bpb.sectors_per_cluster = Disk.bpb.sectors_per_cluster /\ layout = LayoutOf(Disk.bpb)
      BY DEF Mounted
    <3> QED
      BY <3>1 DEF ClusterBytes, BytesPerCluster
  <2>2. move_to_data_region(c, o) = (start + o) % Word
    BY <1>3, <2>1 DEF move_to_data_region
  <2>3. start + o \in Nat /\ start + o < Word /\ Word \in Nat
    <3>1. o \in 0 .. B - 1 /\ Word \in Nat
      BY Stage2Assumption
    <3> HIDE DEF start, B
    <3> QED
      BY <1>1, <1>2, <1>4, <3>1
  <2>4. (start + o) % Word = start + o
    <3> HIDE DEF start
    <3>1. PICK x \in Nat : x = start + o
      BY <2>3
    <3>2. x % Word = x
      BY <2>3, <3>1
    <3> QED
      BY <3>1, <3>2
  <2> QED
    BY <2>2, <2>4
<1> QED
  BY <1>2, <1>4, <1>5, <1>6

\* The entry of the FAT for a cluster that is not the last of a chain.
LEMMA LinkRead ==
  ASSUME Loading, pc2 \in Reading, NEW clusters, Chained(Disk, clusters),
         NEW k \in 1 .. Len(clusters) - 1,
         NEW r \in MayRead(Volume.fat, move_to_fat_region(clusters[k]), AnyCluster),
         faults + r.bad = 0
  PROVE  r.value = clusters[k + 1] /\ r.value < EndOfChain
<1>1. default_disk = "master" /\ Mounted /\ faults = 0
  BY DEF Loading, OnTheWay
<1>2. Volume = Disk /\ Readable
  BY <1>1 DEF Volume, Readable, Disk
<1>3. move_to_fat_region(clusters[k]) = FatPosition(Disk, clusters[k])
  BY <1>1 DEF Mounted, move_to_fat_region, FatPosition
<1>4. /\ FatPosition(Disk, clusters[k]) \in DOMAIN Disk.fat
      /\ Disk.fat[FatPosition(Disk, clusters[k])] = clusters[k + 1]
      /\ clusters[k + 1] < EndOfChain
  BY DEF Chained
<1>5. move_to_fat_region(clusters[k]) \in DOMAIN Volume.fat
  BY <1>2, <1>3, <1>4
<1>6. r.value = Volume.fat[move_to_fat_region(clusters[k])]
  BY <1>1, <1>2, <1>5, FaultlessEntry
<1> QED
  BY <1>2, <1>3, <1>4, <1>6

\* At the end of a cluster of BOOT the search goes on in the next one.
LEMMA HopOnTheWay ==
  ASSUME Loading, next_cluster_of_subdir, faults' = 0
  PROVE  OnTheWay'
<1> USE DEF diskvars, mountvars
<1> DEFINE v == Disk
           B == BytesPerCluster(v)
<1>0. pc2 = "subdir" /\ faults = 0 /\ DiskTypes /\ Bootable
  BY DEF Loading, next_cluster_of_subdir
<1>1. Mounted /\ image = << >> /\ InDirectory /\ default_disk = "master"
  BY <1>0 DEF Loading, OnTheWay, Reading
<1>2. PICK k \in 1 .. Len(v.dir), n \in 0 .. v.elf :
        /\ handle.cluster = v.dir[k]
        /\ n * EntrySize = (k - 1) * B + handle.offset
  BY <1>1 DEF InDirectory
<1>3. HoldsFile(v) /\ B \in Nat \ {0} /\ Chained(v, v.dir)
  BY <1>0, DiskFacts DEF HoldsBoot
<1>4. /\ Len(v.dir) \in Nat /\ v.elf \in Nat /\ EntrySize \in Nat \ {0}
      /\ v.elf * EntrySize < Len(v.dir) * B
  BY <1>3, Stage2Assumption DEF HoldsFile, Chained
<1>5. handle.offset = B
  BY <1>1 DEF next_cluster_of_subdir, ClusterBytes, Mounted, BytesPerCluster
<1>6. n * EntrySize = k * B
  <2> HIDE DEF B, v
  <2>1. (k - 1) * B + B = k * B
    BY <1>3, <1>4
  <2> QED
    BY <1>2, <1>5, <2>1
<1>7. k \in 1 .. Len(v.dir) - 1
  <2> HIDE DEF B, v
  <2>1. n * EntrySize <= v.elf * EntrySize
    BY <1>4
  <2>2. k * B < Len(v.dir) * B
    <3>1. n * EntrySize \in Nat /\ v.elf * EntrySize \in Nat /\ Len(v.dir) * B \in Nat
      BY <1>3, <1>4
    <3> QED
      BY <1>4, <1>6, <2>1, <3>1
  <2>3. k # Len(v.dir)
    <3>1. Len(v.dir) * B \in Nat
      BY <1>3, <1>4
    <3> QED
      BY <2>2, <3>1
  <2> QED
    BY <1>4, <2>3
<1>8. PICK r \in MayRead(Volume.fat, move_to_fat_region(handle.cluster), AnyCluster) :
        /\ faults' = faults + r.bad
        /\ handle' = [handle EXCEPT !.cluster = r.value, !.offset = 0]
        /\ pc2' = IF r.value >= EndOfChain THEN "kernel" ELSE "subdir"
  BY DEF next_cluster_of_subdir
<1>9. r.value = v.dir[k + 1] /\ r.value < EndOfChain
  <2>1. r \in MayRead(Volume.fat, move_to_fat_region(v.dir[k]), AnyCluster)
    BY <1>2, <1>8
  <2>2. pc2 \in Reading /\ faults + r.bad = 0
    BY <1>0, <1>8 DEF Reading
  <2> QED
    BY <1>3, <1>7, <2>1, <2>2, LinkRead
<1>10. r.value \in Nat /\ EndOfChain \in Nat
  <2>1. k + 1 \in 1 .. Len(v.dir)
    BY <1>4, <1>7
  <2>2. v.dir \in Seq(Nat)
    BY <1>3 DEF Chained
  <2>3. v.dir[k + 1] \in Nat
    BY <2>1, <2>2, ElementOfSeq
  <2> QED
    BY <1>9, <2>3, Stage2Assumption
<1>11. pc2' = "subdir" /\ handle'.cluster = v.dir[k + 1] /\ handle'.offset = 0
  <2>1. handle \in EntryHandles
    BY <1>0 DEF DiskTypes
  <2> QED
    BY <1>8, <1>9, <1>10, <2>1 DEF EntryHandles
<1>12. /\ machine' = machine /\ default_disk' = default_disk /\ bpb' = bpb /\ layout' = layout
       /\ filename' = filename /\ image' = image
  BY DEF next_cluster_of_subdir
<1>13. Disk' = v
  BY <1>12 DEF Disk
<1>14. Mounted'
  BY <1>1, <1>12, <1>13 DEF Mounted
<1>15. InDirectory'
  <2>1. k + 1 \in 1 .. Len(v.dir)
    BY <1>4, <1>7
  <2>2. n * EntrySize = ((k + 1) - 1) * B + 0 /\ 0 <= B
    <3>1. (k + 1) - 1 = k
      BY <1>4
    <3> HIDE DEF B, v
    <3>2. k * B \in Nat
      BY <1>3, <1>4
    <3> QED
      BY <1>3, <1>6, <3>1, <3>2
  <2>3. filename' = "KERNEL0"
    BY <1>1, <1>12 DEF InDirectory
  <2> HIDE DEF v
  <2> QED
    BY <1>11, <1>13, <2>1, <2>2, <2>3 DEF InDirectory
<1> QED
  BY <1>1, <1>11, <1>12, <1>14, <1>15 DEF OnTheWay, Reading

\* The search of BOOT passes over the entries in front of KERNEL0.ELF's and opens that one.
LEMMA SubdirOnTheWay ==
  ASSUME Loading, find_entry_in_subdir, faults' = 0
  PROVE  OnTheWay'
<1> USE DEF diskvars, mountvars
<1> DEFINE v == Disk
           B == BytesPerCluster(v)
           o == handle.offset
<1>0. pc2 = "subdir" /\ faults = 0 /\ DiskTypes /\ Bootable
  BY DEF Loading, find_entry_in_subdir
<1>1. Mounted /\ image = << >> /\ InDirectory /\ default_disk = "master"
  BY <1>0 DEF Loading, OnTheWay, Reading
<1>2. PICK k \in 1 .. Len(v.dir), n \in 0 .. v.elf :
        /\ handle.cluster = v.dir[k]
        /\ n * EntrySize = (k - 1) * B + o
        /\ o <= B
  BY <1>1 DEF InDirectory
<1>3. HoldsFile(v) /\ B \in Nat \ {0} /\ Chained(v, v.dir)
  BY <1>0, DiskFacts DEF HoldsBoot
<1>4. Len(v.dir) \in Nat /\ v.elf \in Nat /\ EntrySize \in Nat \ {0} /\ o \in Nat
  BY <1>0, <1>3, Stage2Assumption DEF HoldsFile, Chained, DiskTypes, EntryHandles
<1>5. o \in 0 .. B - 1
  <2>1. o # B
    BY <1>1 DEF find_entry_in_subdir, ClusterBytes, Mounted, BytesPerCluster
  <2> HIDE DEF o, B
  <2> QED
    BY <1>2, <1>3, <1>4, <2>1
<1> DEFINE pos == Position(v, v.dir, n * EntrySize)
           e == v.entries[pos]
<1>6. move_to_data_region(handle.cluster, o) = pos
  <2>1. /\ Position(v, v.dir, (k - 1) * B + o) = ClusterStart(v, v.dir[k]) + o
        /\ move_to_data_region(v.dir[k], o) = ClusterStart(v, v.dir[k]) + o
    BY <1>0, <1>1, <1>3, <1>5, PlaceInCluster
  <2> HIDE DEF v, B, o
  <2> QED
    BY <1>2, <2>1
<1>7. pos \in DOMAIN v.entries
  BY <1>3 DEF HoldsFile
<1> DEFINE hit == ~Skipped(e) /\ e.name = filename
           opens == e.attribute \cap {"volume", "subdir"} = {}
<1>8. /\ handle' = IF hit THEN Opened(e) ELSE [handle EXCEPT !.offset = @ + EntrySize]
      /\ pc2' = IF hit THEN (IF opens THEN "read_from_handle" ELSE "kernel")
                ELSE IF e.name = "end" THEN "kernel" ELSE "subdir"
  <2>1. PICK r \in MayRead(Volume.entries, move_to_data_region(handle.cluster, handle.offset), AnyEntry) :
          LET h == ~Skipped(r.value) /\ r.value.name = filename
              p == r.value.attribute \cap {"volume", "subdir"} = {}
          IN  /\ faults' = faults + r.bad
              /\ handle' = IF h THEN Opened(r.value) ELSE [handle EXCEPT !.offset = @ + EntrySize]
              /\ pc2' = IF h THEN (IF p THEN "read_from_handle" ELSE "kernel")
                        ELSE IF r.value.name = "end" THEN "kernel" ELSE "subdir"
    BY Zenon DEF find_entry_in_subdir
  <2>2. Volume = v /\ Readable
    BY <1>1 DEF Volume, Readable, Disk
  <2>3. r \in MayRead(v.entries, pos, AnyEntry)
    BY <1>6, <2>1, <2>2
  <2>4. faults + r.bad = 0
    BY <2>1
  <2> HIDE DEF pos
  <2>5. r.value = e
    BY <1>0, <1>7, <2>2, <2>3, <2>4, FaultlessEntry
  <2> QED
    BY <2>1, <2>5, Zenon
<1>9. /\ machine' = machine /\ default_disk' = default_disk /\ bpb' = bpb /\ layout' = layout
      /\ filename' = filename /\ image' = image
  BY DEF find_entry_in_subdir
<1>10. Disk' = v
  BY <1>9 DEF Disk
<1>11. Mounted'
  BY <1>1, <1>9, <1>10 DEF Mounted
<1>12. filename = "KERNEL0"
  BY <1>1 DEF InDirectory
<1>13. CASE n < v.elf
  <2>1. Passed(e, "KERNEL0")
    <3>1. n \in 0 .. v.elf - 1
      BY <1>4, <1>13
    <3> QED
      BY <1>3, <3>1 DEF HoldsFile
  <2>2. ~hit /\ (Skipped(e) \/ e.name # "end")
    BY <1>12, <2>1 DEF Passed
  <2>3. e.name # "end"
    BY <2>2 DEF Skipped
  <2>4. pc2' = "subdir" /\ handle' = [handle EXCEPT !.offset = @ + EntrySize]
    <3> HIDE DEF hit
    <3> QED
      BY <1>8, <2>2, <2>3
  <2>5. handle'.cluster = handle.cluster /\ handle'.offset = o + EntrySize
    <3>1. handle \in EntryHandles
      BY <1>0 DEF DiskTypes
    <3> QED
      BY <2>4, <3>1 DEF EntryHandles
  <2>6. n + 1 \in 0 .. v.elf /\ (n + 1) * EntrySize = (k - 1) * B + (o + EntrySize)
    <3> HIDE DEF v, B, o
    <3>1. (n + 1) * EntrySize = n * EntrySize + EntrySize /\ n * EntrySize \in Nat
      BY <1>4
    <3>2. (k - 1) * B \in Nat
      BY <1>3, <1>4
    <3> QED
      BY <1>2, <1>4, <1>13, <3>1, <3>2
  <2>7. o + EntrySize <= B
    <3>1. PICK d \in Nat : B = d * EntrySize
      BY <1>0, DiskFacts
    <3> HIDE DEF v, B, o
    <3> DEFINE m == n - (k - 1) * d
    <3>2. (k - 1) * (d * EntrySize) = ((k - 1) * d) * EntrySize
      BY <1>4, Associates
    <3>3. (k - 1) * d \in Nat
      BY <1>4
    <3>4. m \in Int /\ o = m * EntrySize
      <4>1. PICK x \in Nat : x = (k - 1) * d
        BY <3>3
      <4>2. o = n * EntrySize - x * EntrySize
        <5>1. n * EntrySize \in Nat /\ x * EntrySize \in Nat
          BY <1>4
        <5> QED
          BY <1>2, <1>4, <3>1, <3>2, <4>1, <5>1
      <4>3. n * EntrySize - x * EntrySize = (n - x) * EntrySize
        BY <1>4
      <4> QED
        BY <4>1, <4>2, <4>3
    <3> HIDE DEF m
    <3>5. m < d
      <4>1. ~(m >= d)
        <5> SUFFICES ASSUME m >= d PROVE FALSE
          OBVIOUS
        <5>1. m * EntrySize >= d * EntrySize
          BY <1>4, <3>4
        <5> QED
          BY <1>3, <1>4, <1>5, <3>1, <3>4, <5>1
      <4> QED
        BY <3>4, <4>1
    <3>6. (m + 1) * EntrySize <= d * EntrySize
      BY <1>4, <3>4, <3>5
    <3>7. (m + 1) * EntrySize = m * EntrySize + EntrySize
      BY <1>4, <3>4
    <3> QED
      BY <3>1, <3>4, <3>6, <3>7
  <2>8. InDirectory'
    <3> HIDE DEF v, o, B
    <3>1. filename' = "KERNEL0" /\ handle'.cluster = v.dir[k] /\ handle'.offset = o + EntrySize
      BY <1>2, <1>9, <1>12, <2>5
    <3>2. B = BytesPerCluster(Disk')
      BY <1>10 DEF B
    <3> QED
      BY <1>10, <2>6, <2>7, <3>1, <3>2 DEF InDirectory
  <2> QED
    BY <1>1, <1>9, <1>11, <2>4, <2>8 DEF OnTheWay, Reading
<1>14. CASE n = v.elf
  <2>1. Named(e, "KERNEL0") /\ opens
    BY <1>3, <1>14 DEF HoldsFile
  <2>2. hit
    BY <1>12, <2>1 DEF Named
  <2>3. pc2' = "read_from_handle" /\ handle' = Opened(e)
    <3> HIDE DEF hit, opens
    <3> QED
      BY <1>8, <2>1, <2>2
  <2>4. handle' = Opened(Disk'.entries[Position(Disk', Disk'.dir, Disk'.elf * EntrySize)])
    BY <1>10, <1>14, <2>3
  <2> QED
    BY <1>1, <1>9, <1>11, <2>3, <2>4 DEF OnTheWay, Reading
<1> QED
  BY <1>4, <1>13, <1>14

\* The directory entry has the size of the file.
LEMMA KernelSize ==
  ASSUME DiskTypes, Bootable
  PROVE  Len(Disk.kernel) \in Nat
<1> DEFINE v == Disk
           e == v.entries[Position(v, v.dir, v.elf * EntrySize)]
<1>1. HoldsFile(v)
  BY DiskFacts
<1>2. Position(v, v.dir, v.elf * EntrySize) \in DOMAIN v.entries /\ e.size = Len(v.kernel)
  BY <1>1 DEF HoldsFile
<1>3. e \in DirEntries
  BY <1>2, Stage2Assumption DEF DiskTypes, Bootable, Disk
<1> QED
  BY <1>2, <1>3 DEF DirEntries

LEMMA StartOnTheWay ==
  ASSUME Loading, read_from_handle
  PROVE  OnTheWay'
<1> USE DEF diskvars, mountvars
<1> DEFINE v == Disk
           e == v.entries[Position(v, v.dir, v.elf * EntrySize)]
<1>0. pc2 = "read_from_handle" /\ DiskTypes /\ Bootable
  BY DEF Loading, read_from_handle
<1>1. Mounted /\ image = << >> /\ default_disk = "master" /\ handle = Opened(e)
  BY <1>0 DEF Loading, OnTheWay, Reading
<1>2. HoldsFile(v) /\ BytesPerCluster(v) \in Nat \ {0}
  BY <1>0, DiskFacts
<1>3. /\ Chained(v, v.chain) /\ e.cluster = v.chain[1] /\ e.size = Len(v.kernel)
      /\ ksize <= Len(v.kernel)
      /\ v.kernel = [i \in 1 .. Len(v.kernel) |-> Position(v, v.chain, i - 1)]
  BY <1>2 DEF HoldsFile
<1>4. /\ handle.cluster = v.chain[1] /\ handle.offset = 0 /\ handle.remaining = Len(v.kernel)
      /\ Len(v.kernel) \in Nat
  BY <1>0, <1>1, <1>3, KernelSize DEF Opened
<1>5. 1 \in 1 .. Len(v.chain)
  <2>1. v.chain \in Seq(Nat) /\ v.chain # << >>
    BY <1>3 DEF Chained
  <2>2. Len(v.chain) \in Nat /\ Len(v.chain) # 0
    BY <2>1, EmptySeq, LenProperties
  <2> QED
    BY <2>2
<1>6. /\ v.chain[1] \in Nat /\ v.chain[1] >= 2
      /\ move_to_data_region(v.chain[1], 0) = ClusterStart(v, v.chain[1]) + 0
      /\ ClusterStart(v, v.chain[1]) \in Nat
  <2>1. Chained(v, v.chain) /\ 0 \in 0 .. BytesPerCluster(v) - 1 /\ Mounted
    BY <1>1, <1>2, <1>3
  <2> QED
    BY <1>0, <1>5, <2>1, PlaceInCluster
<1>7. ksize \in Nat \ {0}
  BY Stage2Assumption
<1>8. /\ pc2' = "chunk" /\ disk_pointer' = ClusterStart(v, v.chain[1])
  <2>1. handle.remaining # 0 /\ handle.cluster # 0
    BY <1>3, <1>4, <1>6, <1>7
  <2> QED
    BY <1>4, <1>6, <2>1 DEF read_from_handle
<1>9. /\ machine' = machine /\ default_disk' = default_disk /\ bpb' = bpb /\ layout' = layout
      /\ handle' = handle /\ image' = image
  BY DEF read_from_handle
<1>10. Disk' = v
  BY <1>9 DEF Disk
<1>11. Mounted'
  BY <1>1, <1>9, <1>10 DEF Mounted
<1>12. Len(image) = 0
  BY <1>1
<1>13. ImageRight'
  <2>1. image = Beginning(0)
    BY <1>1 DEF Beginning
  <2>2. Beginning(0)' = Beginning(0)
    BY DEF Beginning
  <2>3. handle'.remaining = Len(v.kernel) - 0
    BY <1>4, <1>9
  <2>4. Len(image') = 0 /\ 0 \in 0 .. ksize
    BY <1>7, <1>9, <1>12
  <2>5. (image = Beginning(Len(image)))'
    <3>1. image' = << >> /\ 1 .. 0 = {}
      BY <1>1, <1>9
    <3> QED
      BY <2>4, <3>1 DEF Beginning
  <2> QED
    BY <1>10, <2>3, <2>4, <2>5 DEF ImageRight
<1>14. InFile'
  <2>1. /\ handle'.cluster = v.chain[1] /\ handle'.offset = 0
        /\ 0 < BytesPerCluster(v)
        /\ Len(image') = (1 - 1) * BytesPerCluster(v) + 0
        /\ disk_pointer' = ClusterStart(v, v.chain[1]) + 0
    BY <1>2, <1>4, <1>6, <1>8, <1>9, <1>12
  <2> HIDE DEF v
  <2> QED
    BY <1>5, <1>10, <2>1 DEF InFile
<1> QED
  BY <1>1, <1>8, <1>9, <1>11, <1>13, <1>14 DEF OnTheWay, Reading

\* A chunk continues the beginning of the kernel, and leaves the handle at the byte
\* behind it, or at the end of a cluster with the next one to come.
LEMMA ChunkOnTheWay ==
  ASSUME Loading, read_chunk, faults' = 0
  PROVE  OnTheWay'
<1> USE DEF diskvars, mountvars
<1> DEFINE v == Disk
           B == BytesPerCluster(v)
           o == handle.offset
           L == Len(image)
           c == ChunkLength
           K == Len(v.kernel)
<1>0. pc2 = "chunk" /\ faults = 0 /\ DiskTypes /\ Bootable /\ ImageFits
  BY DEF Loading, read_chunk
<1>1. Mounted /\ default_disk = "master" /\ ImageRight /\ (L = ksize \/ InFile)
  BY <1>0 DEF Loading, OnTheWay, Reading
<1>2. HoldsFile(v) /\ B \in Nat \ {0}
  BY <1>0, DiskFacts
<1>3. /\ Chained(v, v.chain) /\ ksize <= K /\ K <= Len(v.chain) * B
      /\ v.kernel = [i \in 1 .. K |-> Position(v, v.chain, i - 1)]
  BY <1>2 DEF HoldsFile
<1>4. /\ c \in Int /\ L \in Nat /\ ClusterBytes = B /\ o \in Nat /\ ksize \in Nat
      /\ c \in {ksize - L, B - o, handle.remaining}
      /\ c <= ksize - L /\ c <= B - o /\ c <= handle.remaining
  <2>1. ClusterBytes = B
    BY <1>1 DEF ClusterBytes, Mounted, BytesPerCluster
  <2>2. o \in Nat /\ ksize \in Nat
    BY <1>0, Stage2Assumption DEF DiskTypes, EntryHandles
  <2>3. /\ c \in Int /\ L \in Nat
        /\ c \in {ksize - L, ClusterBytes - o, handle.remaining}
        /\ c <= ksize - L /\ c <= ClusterBytes - o /\ c <= handle.remaining
    BY <1>0, ChunkBounds
  <2> HIDE DEF B, o, L, c
  <2> QED
    BY <2>1, <2>2, <2>3
<1>5. /\ L \in 0 .. ksize /\ image = Beginning(L) /\ handle.remaining = K - L
      /\ ksize > L /\ handle.remaining > 0
  BY <1>1 DEF ImageRight, read_chunk
<1>6. InFile
  <2>1. L # ksize
    <3> HIDE DEF L
    <3> QED
      BY <1>4, <1>5
  <2> QED
    BY <1>1, <2>1
<1>7. PICK k \in 1 .. Len(v.chain) :
        /\ handle.cluster = v.chain[k] /\ o < B /\ L = (k - 1) * B + o
        /\ disk_pointer = ClusterStart(v, v.chain[k]) + o
  BY <1>6 DEF InFile
<1>8. Len(v.chain) \in Nat /\ K \in Nat
  BY <1>0, <1>3, LenProperties, KernelSize DEF Chained
<1>9. c \in Nat /\ c >= 1 /\ L + c <= ksize /\ o + c <= B /\ L + c <= K
  <2> HIDE DEF B, o, L, c, K, v
  <2> QED
    BY <1>2, <1>4, <1>5, <1>7, <1>8
<1>10. PICK r \in Reads(c) : image' = image \o r.bytes /\ faults' = faults + r.bad
  BY DEF read_chunk
<1>11. ClusterStart(v, v.chain[k]) \in Nat /\ disk_pointer \in Nat
  <2>1. o \in 0 .. B - 1
    <3> HIDE DEF B, o
    <3> QED
      BY <1>2, <1>4, <1>7
  <2>2. ClusterStart(v, v.chain[k]) \in Nat
    BY <1>0, <1>1, <1>3, <2>1, PlaceInCluster
  <2> HIDE DEF v, o
  <2> QED
    BY <1>4, <1>7, <2>2
<1>12. r.bytes = [i \in 1 .. c |-> <<"master", disk_pointer + i - 1>>]
  <2>1. Readable
    BY <1>1 DEF Readable
  <2>2. r.bad = 0
    <3>1. r.bad \in Nat
      <4> HIDE DEF c
      <4> QED
        BY <1>4, <1>10, ReadOf
    <3> QED
      BY <1>0, <1>10, <3>1
  <2> HIDE DEF c
  <2> QED
    BY <1>1, <1>9, <1>10, <1>11, <2>1, <2>2, FaultlessRead
<1>13. ASSUME NEW i \in 1 .. c
       PROVE  v.kernel[L + i] = disk_pointer + i - 1
  <2>0. i \in Nat /\ i >= 1 /\ i <= c
    <3> HIDE DEF c
    <3> QED
      BY <1>9, <1>13
  <2>1. o + i - 1 \in 0 .. B - 1
    <3> HIDE DEF B, o, c
    <3> QED
      BY <1>2, <1>4, <1>9, <2>0
  <2>2. Position(v, v.chain, (k - 1) * B + (o + i - 1)) = ClusterStart(v, v.chain[k]) + (o + i - 1)
    BY <1>0, <1>1, <1>3, <2>1, PlaceInCluster
  <2>3. (k - 1) * B + (o + i - 1) = (L + i) - 1 /\ L + i \in 1 .. K
    <3>1. k - 1 \in Nat
      BY <1>8
    <3> HIDE DEF B, o, L, c, K
    <3>2. PICK x \in Nat : x = (k - 1) * B
      BY <1>2, <3>1
    <3>3. L = x + o
      BY <1>7, <3>2
    <3>4. x + (o + i - 1) = (L + i) - 1 /\ L + i \in 1 .. K
      BY <1>4, <1>8, <1>9, <2>0, <3>3
    <3> QED
      BY <3>2, <3>4
  <2>4. v.kernel[L + i] = Position(v, v.chain, (L + i) - 1)
    <3> HIDE DEF L, K, v
    <3> QED
      BY <1>3, <2>3
  <2>5. PICK s \in Nat : s = ClusterStart(v, v.chain[k])
    BY <1>11
  <2> HIDE DEF L, o, v, B
  <2>6. v.kernel[L + i] = s + (o + i - 1) /\ disk_pointer = s + o
    BY <1>7, <2>2, <2>3, <2>4, <2>5
  <2> QED
    BY <1>4, <2>0, <2>5, <2>6
<1>14. image' = Beginning(L + c) /\ Len(image') = L + c
  <2>1. PICK S : image \in Seq(S)
    BY <1>0 DEF ImageFits
  <2> DEFINE T == {<<"master", disk_pointer + i - 1>> : i \in 1 .. c}
             U == S \cup T
  <2>2. r.bytes \in Seq(T) /\ Len(r.bytes) = c
    <3>1. PICK m \in Nat : m = c
      BY <1>9
    <3>2. PICK b : b = r.bytes
      OBVIOUS
    <3>3. b \in [1 .. m -> T]
      <4> HIDE DEF c
      <4> QED
        BY <1>12, <3>1, <3>2
    <3> HIDE DEF T
    <3>4. b \in Seq(T) /\ Len(b) = m
      BY <3>3
    <3> QED
      BY <3>1, <3>2, <3>4
  <2>3. r.bytes \in Seq(U) /\ image \in Seq(U)
    BY <2>1, <2>2
  <2> HIDE DEF T, U
  <2>4. /\ image' \in Seq(U) /\ Len(image') = L + c
        /\ \A i \in 1 .. L + c :
             image'[i] = IF i <= L THEN image[i] ELSE r.bytes[i - L]
    BY <1>10, <2>2, <2>3, ConcatProperties
  <2>5. DOMAIN image' = 1 .. L + c /\ image' = [i \in 1 .. L + c |-> image'[i]]
    BY <2>4, LenProperties
  <2>6. ASSUME NEW i \in 1 .. L + c PROVE image'[i] = <<"master", v.kernel[i]>>
    <3> HIDE DEF L, c
    <3>1. CASE i <= L
      <4>1. image'[i] = image[i] /\ i \in 1 .. L
        BY <1>4, <1>9, <2>4, <2>6, <3>1
      <4> QED
        BY <1>5, <4>1 DEF Beginning
    <3>2. CASE ~(i <= L)
      <4>1. i - L \in 1 .. c /\ L + (i - L) = i
        BY <1>4, <1>9, <2>6, <3>2
      <4>2. image'[i] = r.bytes[i - L]
        BY <2>4, <2>6, <3>2
      <4>3. r.bytes[i - L] = <<"master", disk_pointer + (i - L) - 1>>
        BY <1>12, <4>1
      <4>4. v.kernel[L + (i - L)] = disk_pointer + (i - L) - 1
        BY <1>13, <4>1
      <4> QED
        BY <4>1, <4>2, <4>3, <4>4
    <3> QED
      BY <3>1, <3>2
  <2> HIDE DEF L, c
  <2>7. image' = [i \in 1 .. L + c |-> <<"master", v.kernel[i]>>]
    BY <2>5, <2>6
  <2> QED
    BY <2>4, <2>7 DEF Beginning
<1>15. /\ machine' = machine /\ default_disk' = default_disk /\ bpb' = bpb /\ layout' = layout
       /\ disk_pointer' = disk_pointer + c
       /\ handle' = [handle EXCEPT !.remaining = @ - c,
                       !.offset = IF o + c = B THEN 0 ELSE @ + c]
       /\ pc2' = IF o + c = B /\ handle.remaining # c THEN "hop" ELSE "chunk"
  <2> HIDE DEF B
  <2> QED
    BY <1>4 DEF read_chunk
<1>16. /\ handle'.cluster = v.chain[k] /\ handle'.remaining = K - (L + c)
       /\ handle'.offset = IF o + c = B THEN 0 ELSE o + c
  <2>1. handle \in EntryHandles
    BY <1>0 DEF DiskTypes
  <2>2. /\ handle'.cluster = handle.cluster /\ handle'.remaining = handle.remaining - c
        /\ handle'.offset = IF o + c = B THEN 0 ELSE o + c
    <3> HIDE DEF B, c
    <3> QED
      BY <1>15, <2>1 DEF EntryHandles
  <2> HIDE DEF v, B, o, c, L, K
  <2> QED
    BY <1>4, <1>5, <1>7, <1>8, <1>9, <2>2
<1>17. Disk' = v
  BY <1>15 DEF Disk
<1>18. Mounted'
  BY <1>1, <1>15, <1>17 DEF Mounted
<1>19. ImageRight'
  <2>1. Beginning(L + c) = [i \in 1 .. Len(image') |-> <<"master", Disk'.kernel[i]>>]
    <3> HIDE DEF L, c
    <3> QED
      BY <1>14, <1>17 DEF Beginning
  <2>2. (image = Beginning(Len(image)))'
    BY <1>14, <2>1 DEF Beginning
  <2>3. Len(image') \in 0 .. ksize
    <3> HIDE DEF L, c
    <3> QED
      BY <1>4, <1>9, <1>14
  <2>4. handle'.remaining = Len(Disk'.kernel) - Len(image')
    BY <1>14, <1>16, <1>17
  <2> QED
    BY <2>2, <2>3, <2>4 DEF ImageRight
<1>20. CASE o + c = B
  <2>1. k * B = L + c
    <3>1. k \in Nat
      BY <1>8
    <3> HIDE DEF B, o, L, c
    <3>2. (k - 1) * B + B = k * B /\ (k - 1) * B \in Int
      BY <1>2, <3>1
    <3> QED
      BY <1>2, <1>4, <1>7, <1>9, <1>20, <3>2
  <2>2. CASE handle.remaining = c
    <3>1. Len(image') = ksize
      <4> HIDE DEF B, o, L, c, K
      <4> QED
        BY <1>3, <1>4, <1>5, <1>8, <1>9, <1>14, <2>2
    <3>2. pc2' = "chunk"
      <4> HIDE DEF c
      <4> QED
        BY <1>15, <2>2
    <3> QED
      BY <1>1, <1>15, <1>18, <1>19, <3>1, <3>2 DEF OnTheWay, Reading
  <2>3. CASE handle.remaining # c
    <3>1. pc2' = "hop"
      <4> HIDE DEF c, o, B
      <4> QED
        BY <1>15, <1>20, <2>3
    <3>2. k \in 1 .. Len(v.chain) - 1
      <4>1. k # Len(v.chain)
        <5> HIDE DEF B, o, L, c, K
        <5> QED
          BY <1>3, <1>4, <1>5, <1>8, <1>9, <2>1, <2>3
      <4> QED
        BY <1>8, <4>1
    <3>3. handle'.offset = 0
      <4> HIDE DEF c, o, B
      <4> QED
        BY <1>16, <1>20
    <3>4. BehindCluster'
      <4>1. Len(image') = k * B /\ BytesPerCluster(Disk') = B
        BY <1>14, <1>17, <2>1
      <4> HIDE DEF B
      <4> QED
        BY <1>16, <1>17, <3>2, <3>3, <4>1 DEF BehindCluster
    <3> QED
      BY <1>1, <1>15, <1>18, <1>19, <3>1, <3>4 DEF OnTheWay, Reading
  <2> QED
    BY <2>2, <2>3
<1>21. CASE o + c # B
  <2>1. pc2' = "chunk"
    <3> HIDE DEF c, o, B
    <3> QED
      BY <1>15, <1>21
  <2>2. handle'.offset = o + c /\ o + c < B
    <3> HIDE DEF c, o, B
    <3> QED
      BY <1>2, <1>4, <1>9, <1>16, <1>21
  <2>3. Len(image') = (k - 1) * B + (o + c)
    <3>1. k - 1 \in Nat
      BY <1>8
    <3> HIDE DEF B, o, L, c
    <3>2. PICK x \in Nat : x = (k - 1) * B
      BY <1>2, <3>1
    <3>3. L = x + o
      BY <1>7, <3>2
    <3>4. L + c = x + (o + c)
      BY <1>4, <1>9, <3>3
    <3> QED
      BY <1>14, <3>2, <3>4, Zenon
  <2>4. disk_pointer' = ClusterStart(v, v.chain[k]) + (o + c)
    <3> HIDE DEF v, o, c
    <3> QED
      BY <1>4, <1>7, <1>9, <1>11, <1>15
  <2>5. InFile'
    <3>1. B = BytesPerCluster(Disk')
      BY <1>17
    <3> HIDE DEF B, v, o, c
    <3> QED
      BY <1>16, <1>17, <2>2, <2>3, <2>4, <3>1 DEF InFile
  <2> QED
    BY <1>1, <1>15, <1>18, <1>19, <2>1, <2>5 DEF OnTheWay, Reading
<1> QED
  BY <1>20, <1>21

LEMMA NextClusterOnTheWay ==
  ASSUME Loading, next_cluster, faults' = 0
  PROVE  OnTheWay'
<1> USE DEF diskvars, mountvars
<1> DEFINE v == Disk
           B == BytesPerCluster(v)
<1>0. pc2 = "hop" /\ faults = 0 /\ DiskTypes /\ Bootable
  BY DEF Loading, next_cluster
<1>1. Mounted /\ default_disk = "master" /\ ImageRight /\ BehindCluster
  BY <1>0 DEF Loading, OnTheWay, Reading
<1>2. PICK k \in 1 .. Len(v.chain) - 1 :
        handle.cluster = v.chain[k] /\ handle.offset = 0 /\ Len(image) = k * B
  BY <1>1 DEF BehindCluster
<1>3. HoldsFile(v) /\ B \in Nat \ {0} /\ Chained(v, v.chain) /\ Len(v.chain) \in Nat
  BY <1>0, DiskFacts, LenProperties DEF HoldsFile, Chained
<1>4. PICK r \in MayRead(Volume.fat, move_to_fat_region(handle.cluster), AnyCluster) :
        /\ handle' = [handle EXCEPT !.cluster = r.value]
        /\ faults' = faults + r.bad
        /\ disk_pointer' = move_to_data_region(r.value, handle.offset)
  BY DEF next_cluster
<1>5. r.value = v.chain[k + 1]
  <2>1. r \in MayRead(Volume.fat, move_to_fat_region(v.chain[k]), AnyCluster)
    BY <1>2, <1>4
  <2>2. pc2 \in Reading /\ faults + r.bad = 0
    BY <1>0, <1>4 DEF Reading
  <2> QED
    BY <1>2, <1>3, <2>1, <2>2, LinkRead
<1>6. k + 1 \in 1 .. Len(v.chain) /\ 0 \in 0 .. B - 1
  BY <1>2, <1>3
<1>7. disk_pointer' = ClusterStart(v, v.chain[k + 1]) + 0
  <2>1. move_to_data_region(v.chain[k + 1], 0) = ClusterStart(v, v.chain[k + 1]) + 0
    BY <1>0, <1>1, <1>3, <1>6, PlaceInCluster
  <2> QED
    BY <1>2, <1>4, <1>5, <2>1
<1>8. handle'.cluster = v.chain[k + 1] /\ handle'.offset = 0 /\ handle'.remaining = handle.remaining
  <2>1. handle \in EntryHandles
    BY <1>0 DEF DiskTypes
  <2> QED
    BY <1>2, <1>4, <1>5, <2>1 DEF EntryHandles
<1>9. /\ machine' = machine /\ default_disk' = default_disk /\ bpb' = bpb /\ layout' = layout
      /\ image' = image /\ pc2' = "chunk"
  BY DEF next_cluster
<1>10. Disk' = v
  BY <1>9 DEF Disk
<1>11. Mounted'
  BY <1>1, <1>9, <1>10 DEF Mounted
<1>12. ImageRight'
  BY <1>1, <1>8, <1>9, <1>10 DEF ImageRight, Beginning
<1>13. InFile'
  <2>1. Len(image) = ((k + 1) - 1) * B + 0 /\ 0 < B
    <3>1. k \in Nat /\ (k + 1) - 1 = k
      BY <1>3
    <3> HIDE DEF B
    <3>2. k * B \in Nat
      BY <1>3, <3>1
    <3> QED
      BY <1>2, <1>3, <3>1, <3>2
  <2>2. Len(image') = ((k + 1) - 1) * B + 0 /\ B = BytesPerCluster(Disk')
    BY <1>9, <1>10, <2>1
  <2> HIDE DEF B, v
  <2> QED
    BY <1>6, <1>7, <1>8, <1>10, <2>1, <2>2 DEF InFile
<1> QED
  BY <1>1, <1>9, <1>11, <1>12, <1>13 DEF OnTheWay, Reading

LEMMA EndOnTheWay ==
  ASSUME Loading, read_returns
  PROVE  OnTheWay'
<1> USE DEF diskvars, mountvars, filevars
<1>0. pc2 = "chunk" /\ pc2' = "kernel" /\ DiskTypes /\ Bootable
  BY DEF Loading, read_returns
<1>1. Mounted /\ default_disk = "master" /\ ImageRight
  BY <1>0 DEF Loading, OnTheWay, Reading
<1>2. Len(Disk.kernel) \in Nat /\ ksize <= Len(Disk.kernel) /\ ksize \in Nat
  BY <1>0, DiskFacts, KernelSize, Stage2Assumption DEF HoldsFile
<1>3. Len(image) = ksize
  <2>1. ksize = Len(image) \/ handle.remaining = 0
    BY DEF read_returns
  <2> QED
    BY <1>1, <1>2, <2>1 DEF ImageRight
<1>4. image = Beginning(ksize)
  BY <1>1, <1>3 DEF ImageRight
<1>5. machine' = machine /\ image' = image /\ default_disk' = default_disk
  BY DEF read_returns
<1>6. (image = Beginning(ksize))'
  BY <1>4, <1>5 DEF Beginning, Disk
<1> QED
  BY <1>0, <1>1, <1>5, <1>6 DEF OnTheWay, Reading

\* enable_a20 and the identification of the disks load nothing, and the master stays
\* the disk to load from when there is no slave.
LEMMA EarlyOnTheWay ==
  ASSUME OnTheWay, Bootable, Next2, ~fat16_init, ~fat16_read
  PROVE  OnTheWay'
<1> USE DEF diskvars, mountvars, filevars, a20vars
<1> DEFINE Labels == {"disable", "read_control_output", "take_output", "write_control_output",
                      "data", "enable", "protected_mode", "ata0m"}
<1>1. CASE type_key \/ controller \/ enable_a20 \/ protected_mode
  <2>1. UNCHANGED <<machine, default_disk, bpb, layout, disk_pointer, handle, filename, image>>
    BY <1>1 DEF type_key, controller, enable_a20, Send, take_output, protected_mode
  <2>2. pc2' = pc2 \/ pc2' = "reset" \/ (pc2 \in Labels /\ pc2' \in Labels)
    BY <1>1 DEF type_key, controller, enable_a20, Send, take_output, protected_mode
  <2>3. CASE pc2' = pc2
    BY <2>1, <2>3 DEF OnTheWay, Mounted, InRoot, InDirectory, ImageRight, InFile, BehindCluster,
      Beginning, Disk
  <2>4. CASE pc2' = "reset"
    BY <2>4 DEF OnTheWay, Reading
  <2>5. CASE pc2 \in Labels /\ pc2' \in Labels
    BY <2>1, <2>5 DEF OnTheWay, Reading
  <2> QED
    BY <2>2, <2>3, <2>4, <2>5
<1>2. CASE identify_disk("master", "ata0m", "ata0s")
  BY <1>2 DEF identify_disk, Present, Bootable, OnTheWay, Reading
<1>3. CASE identify_disk("slave", "ata0s", "fat16_init")
  BY <1>3 DEF identify_disk, Present, Bootable, OnTheWay, Reading
<1> QED
  BY <1>1, <1>2, <1>3 DEF Next2, stage2_main

LEMMA StepLoadInv ==
  ASSUME DiskTypes, ImageFits, LoadInv, [Next]_<<vars1, vars2>>
  PROVE  LoadInv'
<1> USE DEF diskvars, mountvars, filevars, a20vars
<1>1. CASE UNCHANGED vars2
  BY <1>1 DEF vars2, LoadInv, Bootable, OnTheWay, Mounted, InRoot, InDirectory, ImageRight,
    InFile, BehindCluster, Beginning, Disk
<1>2. CASE entry
  BY <1>2 DEF entry, LoadInv, Bootable, OnTheWay, Reading
<1>3. CASE Next2
  <2> SUFFICES ASSUME Bootable', faults' = 0 PROVE OnTheWay'
    BY DEF LoadInv
  <2>1. machine' = machine
    BY <1>3 DEF Next2, type_key, controller, enable_a20, Send, take_output, protected_mode,
      stage2_main, identify_disk, fat16_init, fat16_read, find_root_directory_entry,
      root_exhausted, open_directory_in_root, open_with_no_handle, next_cluster_of_subdir,
      find_entry_in_subdir, read_from_handle, read_chunk, next_cluster, read_returns
  <2>2. Bootable /\ faults = 0
    BY <1>3, <2>1, FaultsRemembered DEF Bootable
  <2>3. Loading
    BY <2>2 DEF Loading, LoadInv
  <2>4. CASE fat16_init
    BY <2>3, <2>4, MountOnTheWay
  <2>5. CASE find_root_directory_entry \/ root_exhausted
    BY <2>3, <2>5, RootOnTheWay
  <2>6. CASE open_directory_in_root
    BY <2>3, <2>6, OpenOnTheWay
  <2>7. CASE open_with_no_handle
    BY <2>3, <2>7 DEF Loading, OnTheWay, open_with_no_handle
  <2>8. CASE next_cluster_of_subdir
    BY <2>3, <2>8, HopOnTheWay
  <2>9. CASE find_entry_in_subdir
    BY <2>3, <2>9, SubdirOnTheWay
  <2>10. CASE read_from_handle
    BY <2>3, <2>10, StartOnTheWay
  <2>11. CASE read_chunk
    BY <2>3, <2>11, ChunkOnTheWay
  <2>12. CASE next_cluster
    BY <2>3, <2>12, NextClusterOnTheWay
  <2>13. CASE read_returns
    BY <2>3, <2>13, EndOnTheWay
  <2>14. CASE ~fat16_init /\ ~fat16_read
    BY <1>3, <2>3, <2>14, EarlyOnTheWay DEF Loading
  <2> QED
    BY <2>4, <2>5, <2>6, <2>7, <2>8, <2>9, <2>10, <2>11, <2>12, <2>13, <2>14 DEF fat16_read
<1> QED
  BY <1>1, <1>2, <1>3 DEF Next

\* On a machine with one disk that holds /BOOT/KERNEL0.ELF, whatever else is in its
\* directories and however its files are fragmented: when every sector could be read,
\* stage 2 jumps to the first ksize bytes of the file.
THEOREM BootKernelLoaded == Spec => []KernelLoaded
<1> DEFINE Inv == TypesInv /\ LoadInv
<1>1. Init => Inv
  <2> SUFFICES ASSUME Init PROVE LoadInv
    BY InitTypesInv
  <2>1. pc2 = "off" /\ image = << >>
    BY DEF Init, Init2
  <2> QED
    BY <2>1 DEF LoadInv, OnTheWay, Reading
<1>2. Inv /\ [Next]_<<vars1, vars2>> => Inv'
  BY StepTypesInv, StepLoadInv DEF TypesInv
<1>3. Inv => KernelLoaded
  BY DEF LoadInv, OnTheWay, Beginning, Disk, KernelLoaded
<1> QED
  BY <1>1, <1>2, <1>3, PTL DEF Spec
=============================================================================
