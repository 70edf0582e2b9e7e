---------------------------- MODULE KernelProofs ----------------------------
(***************************************************************************)
(* The theorems about the two machines kernel_main sets going, which share *)
(* no state: interrupt delivery (Interrupts) and the loader (Loader).      *)
(***************************************************************************)
EXTENDS Interrupts, Loader, FiniteSetTheorems, WellFoundedInduction, TLAPS

(***************************************************************************)
(* Interrupts.  The acknowledgement discipline, for any number of keys,    *)
(* provided that none is typed before ps2_kb_enable has registered its     *)
(* handler (with earlier keys it fails: interrupt_handler acknowledges     *)
(* vector 0x21 only after calling a handler).                              *)
(*                                                                         *)
(* The invariant to keep is about the time before the registration: no     *)
(* byte has reached the controller, so nothing was requested, and IRQ 1 is *)
(* never delivered without a handler.  From then on IRQ 1 is in service    *)
(* exactly between its delivery and pic_confirm.                           *)
(***************************************************************************)

Quiet ==
  /\ main \in {"idt", "syscalls", "kb_register"}
  /\ obf = Empty /\ pending = << >> /\ response = Empty
  /\ ~irr /\ ~isr
  /\ vec = NoVector

ServiceInv ==
  /\ Irq1 \notin handlers => Quiet
  /\ main = "idt" => Irq1 \notin handlers
  /\ vec = Irq1 => Irq1 \in handlers
  /\ isr => vec = Irq1 /\ hpc \in {"dispatch", "call", "confirm"}

LEMMA InitServiceInv == Init => ServiceInv
BY DEF Init, ServiceInv, Quiet, Irq1, NoVector

LEMMA NextServiceInv ==
  ASSUME ~EarlyKeys, ServiceInv, [Next]_vars
  PROVE  ServiceInv'
<1> USE DEF ServiceInv, Quiet, Irq1, NoVector, SyscallVector, Breakpoint, cpu, kbc
<1>0. CASE UNCHANGED vars
  BY <1>0 DEF vars
<1>1. CASE kernel_main
  <2>1. CASE install_idt
    BY <2>1 DEF install_idt, Running
  <2>2. CASE register_syscalls
    BY <2>2 DEF register_syscalls, Go, Running
  <2>3. CASE kb_register
    BY <2>3 DEF kb_register, Go, Running
  <2>4. CASE kb_drain \/ kb_take \/ kb_enable
    BY <2>4 DEF kb_drain, kb_take, kb_enable, Go, Running, TakeByte, Show
  <2>5. CASE kb_ask \/ kb_read \/ kb_write \/ kb_scan
    BY <2>5 DEF kb_ask, kb_read, kb_write, kb_scan, Go, Running, TakeByte, Show
  <2>6. QED
    BY <1>1, <2>1, <2>2, <2>3, <2>4, <2>5 DEF kernel_main
<1>2. CASE \E v \in {Breakpoint, SyscallVector} : trap(v)
  BY <1>2 DEF trap, Running
<1>3. CASE interrupt_handler
  <2>1. CASE dispatch
    BY <2>1 DEF dispatch, Handler
  <2>2. CASE handle_key
    BY <2>2 DEF handle_key, Handler, TakeByte, Show
  <2>3. CASE syscall
    BY <2>3 DEF syscall, Handler
  <2>4. CASE kernel_switch_back
    BY <2>4 DEF kernel_switch_back
  <2>5. CASE pic_confirm
    <3>1. Confirms(Irq1)
      BY DEF Confirms, PIC_1_OFFSET, PIC_2_END
    <3>2. ~isr'
      BY <2>5, <3>1 DEF pic_confirm
    <3>3. QED
      BY <2>5, <3>2 DEF pic_confirm, Handler
  <2>6. CASE acknowledge
    BY <2>6 DEF acknowledge, Handler
  <2>7. CASE iret
    BY <2>7 DEF iret
  <2>8. QED
    BY <1>3, <2>1, <2>2, <2>3, <2>4, <2>5, <2>6, <2>7 DEF interrupt_handler
<1>4. CASE deliver
  BY <1>4 DEF deliver
<1>5. CASE type_key
  BY <1>5 DEF type_key
<1>6. CASE controller
  BY <1>6 DEF controller, controller_answers, controller_takes_byte, Show, Line
<1>7. QED
  BY <1>0, <1>1, <1>2, <1>3, <1>4, <1>5, <1>6 DEF Next

\* When interrupt_handler has returned, IRQ 1 has been acknowledged.
THEOREM InterruptsAcknowledged ==
  ASSUME ~EarlyKeys
  PROVE  Spec => []NothingLeftInService
<1>1. Init => ServiceInv
  BY InitServiceInv
<1>2. ServiceInv /\ [Next]_vars => ServiceInv'
  BY NextServiceInv
<1>3. ServiceInv => NothingLeftInService
  BY DEF ServiceInv, NothingLeftInService
<1>4. QED
  BY <1>1, <1>2, <1>3, PTL DEF Spec

----------------------------------------------------------------------------
(***************************************************************************)
(* The loader, for every set of images a linker may have made, every size  *)
(* of the heap, of the libraries and of the pointer image_load mistakes    *)
(* for the program, any number of descriptors and any number of dlopens.   *)
(*                                                                         *)
(* In any order of dlopen and dlclose the blocks lie apart from each other *)
(* (BlocksApart), and as long as no two callers were given the same handle *)
(* every handle has a slot, a block and a descriptor of its own            *)
(* (HandlesOwn); what is written to other blocks leaves its words alone.   *)
(*                                                                         *)
(* As long as libraries are closed in the reverse order of their opening   *)
(* (dl_lifo), the blocks in use fill the beginning of the heap without a   *)
(* hole: the libraries up to Top, the buffer of the file, exec.  So malloc *)
(* gives the place right behind them (FirstPlace), exec is the last block, *)
(* and all that the load writes, from exec on, is in no other block        *)
(* (WrittenBehind): not in a library, and not in the buffer the segments   *)
(* still to be copied are read from.  LoaderInv adds what the load has     *)
(* come to: the segments in front of step are copied, then the slots in    *)
(* front of step relocated.                                                *)
(***************************************************************************)

\* The types of the loader's variables.
LoaderTypes ==
  /\ pc \in {"idle", "image_load", "segments", "relocate", "loaded", "execute", "undefined"}
  /\ image \in Images
  /\ pc \in {"segments", "relocate"} => image.elf
  /\ DOMAIN mem = 1 .. HeapEnd
  /\ DOMAIN blocks \subseteq 2 .. HeapEnd
  /\ \A a \in DOMAIN blocks : blocks[a] \in Nat /\ a + blocks[a] - 1 <= HeapEnd
  /\ exec \in 0 .. HeapEnd /\ entry \in 0 .. 2 * HeapEnd
  /\ step \in Nat \ {0}
  /\ pc \in {"idle", "undefined"} => hit = {} /\ entry = 0
  /\ dl_opens \in Nat /\ dl_lifo \in BOOLEAN /\ dl_shared \in BOOLEAN /\ dl_count \in Nat
  /\ DOMAIN dynamic_libraries = 0 .. DlSlots - 1
  /\ DOMAIN dl_handles \subseteq 0 .. dl_opens - 1 /\ IsFiniteSet(DOMAIN dl_handles)
  /\ pc # "undefined" => dl_count = Cardinality(DOMAIN dl_handles) /\ dl_count <= DlSlots

\* No block reaches into another one or into its header.
BlocksApart ==
  \A a, b \in DOMAIN blocks : a # b => a + blocks[a] < b \/ b + blocks[b] < a

\* The slot of a handle: a block of its own, the descriptor of its file, its words.
Owns(n) ==
  /\ dl_handles[n].dl \in 0 .. DlSlots - 1
  /\ SlotOf(n).buffer \in DOMAIN blocks /\ blocks[SlotOf(n).buffer] = DlBufferSize
  /\ SlotOf(n).fd = dl_handles[n].fd
  /\ IF dl_handles[n].length = NotFound THEN dl_handles[n].fd = -1
     ELSE dl_handles[n].fd \in DOMAIN files /\ files[dl_handles[n].fd] = n
  /\ pc \notin {"idle", "undefined"} => SlotOf(n).buffer # buffer
  /\ pc \in {"segments", "relocate"} => SlotOf(n).buffer # exec
  /\ hit = {} => \A k \in 1 .. DlBufferSize :
       mem[SlotOf(n).buffer + (k - 1)] = LibraryWord(n, dl_handles[n].length, k)

HandlesOwn ==
  /\ \A n \in DOMAIN dl_handles : Owns(n)
  /\ \A n, m \in DOMAIN dl_handles : n # m =>
       dl_handles[n].dl # dl_handles[m].dl /\ SlotOf(n).buffer # SlotOf(m).buffer
  /\ \A f \in DOMAIN files :
       f \in Nat /\ files[f] \in DOMAIN dl_handles /\ dl_handles[files[f]].fd = f

HandlesInv == BlocksApart /\ (~dl_shared => HandlesOwn)

\* Where the libraries are when they were closed in the reverse order: one behind the
\* other from the beginning of the heap on, up to Top.
Place(d) == 2 + d * (DlBufferSize + 1)
Top == dl_count * (DlBufferSize + 1)

LibrariesStacked ==
  /\ Top <= HeapEnd
  /\ \A d \in 0 .. dl_count - 1 : dynamic_libraries[d].buffer = Place(d)
  /\ pc = "idle" => /\ DOMAIN blocks = {Place(d) : d \in 0 .. dl_count - 1}
                    /\ \A a \in DOMAIN blocks : blocks[a] = DlBufferSize

\* The file is in the buffer, behind the libraries.
FileInBuffer ==
  /\ buffer > Top /\ buffer \in Nat /\ buffer + Length - 1 <= HeapEnd
  /\ \A j \in 1 .. Length : mem[buffer + (j - 1)] = image.file[j]

\* exec is the last block, with the buffer in front of it.
ExecBehindBlocks ==
  /\ exec > Top
  /\ \A b \in DOMAIN blocks \ {exec} : b + blocks[b] <= exec

SegmentAt(s) == image.segments[s]
Loads == {s \in 1 .. Len(image.segments) : SegmentAt(s).load}
Slots(n) == {k \in 1 .. Len(image.rels) : k < n /\ image.rels[k].type = "JMP_SLOT"}

WordOfFile(s, v) == image.file[SegmentAt(s).offset + (v - SegmentAt(s).vaddr) + 1]

\* The segments in front of n have been copied.
Copied(n) ==
  \A s \in Loads : s < n =>
    \A v \in Words(SegmentAt(s).vaddr, SegmentAt(s).filesz) :
      exec + v <= HeapEnd => mem[exec + v] = WordOfFile(s, v)

\* All have been copied, and the relocations in front of n carried out.
Relocated(n) ==
  /\ \A k \in Slots(n) :
       exec + image.rels[k].offset <= HeapEnd
         => mem[exec + image.rels[k].offset] = resolve_symbol(image.rels[k].sym)
  /\ \A s \in Loads : \A v \in Words(SegmentAt(s).vaddr, SegmentAt(s).filesz) :
       exec + v <= HeapEnd /\ (\A k \in Slots(n) : image.rels[k].offset # v)
         => mem[exec + v] = WordOfFile(s, v)

\* What the load has come to while libraries are closed in the reverse order.
LoadStacked ==
  /\ LibrariesStacked
  /\ hit = {}
  /\ pc = "image_load" => InUse = 1 .. buffer + Length - 1
  /\ pc \in {"image_load", "segments"} => FileInBuffer
  /\ pc \in {"segments", "relocate"} => ExecBehindBlocks
  /\ pc = "segments" => exec >= buffer + Length /\ Copied(step)
  /\ pc = "relocate" => Relocated(step)
  /\ entry # 0 => /\ pc \in {"loaded", "execute"}
                  /\ entry = exec + image.main /\ Relocated(Len(image.rels) + 1)

LoaderInv ==
  /\ LoaderTypes
  /\ HandlesInv
  /\ dl_lifo /\ pc # "undefined" => LoadStacked

\* The length of a sequence given word by word.
LEMMA LengthOf ==
  ASSUME NEW n \in Nat, NEW f, f = [k \in 1 .. n |-> f[k]]
  PROVE  Len(f) = n
<1> DEFINE T == {f[k] : k \in 1 .. n}
<1>1. f \in [1 .. n -> T]
  OBVIOUS
<1> HIDE DEF T
<1> QED
  BY <1>1

\* memmove and memset change the words they are given, and no others.
LEMMA WordsWritten ==
  ASSUME NEW a \in Int, NEW words, Len(words) \in Nat
  PROVE  /\ DOMAIN Written(a, words) = DOMAIN mem
         /\ \A b \in DOMAIN mem : b < a \/ b >= a + Len(words) => Written(a, words)[b] = mem[b]
         /\ \A k \in 1 .. Len(words) :
              a + (k - 1) \in DOMAIN mem => Written(a, words)[a + (k - 1)] = words[k]
<1> DEFINE n == Len(words)
<1>1. Written(a, words) =
        [b \in DOMAIN mem |-> IF b \in Words(a, n) THEN words[b - a + 1] ELSE mem[b]]
  BY DEF Written
<1>2. ASSUME NEW b \in DOMAIN mem, b < a \/ b >= a + n PROVE b \notin Words(a, n)
  BY <1>2 DEF Words
<1>3. ASSUME NEW k \in 1 .. n PROVE a + (k - 1) \in Words(a, n) /\ a + (k - 1) - a + 1 = k
  BY <1>3 DEF Words
<1> HIDE DEF n
<1>4. \A b \in DOMAIN mem : b < a \/ b >= a + n => Written(a, words)[b] = mem[b]
  BY <1>1, <1>2
<1>5. ASSUME NEW k \in 1 .. n, a + (k - 1) \in DOMAIN mem
      PROVE  Written(a, words)[a + (k - 1)] = words[k]
  <2>1. PICK b \in DOMAIN mem : b = a + (k - 1)
    BY <1>5
  <2>2. b \in Words(a, n) /\ b - a + 1 = k
    <3>1. b \in Words(a, n)
      BY <1>3, <2>1
    <3>2. b - a + 1 = k
      BY <1>5, <2>1 DEF n
    <3> QED
      BY <3>1, <3>2
  <2> QED
    BY <1>1, <2>1, <2>2
<1> QED
  BY <1>1, <1>4, <1>5 DEF n

\* A set of natural numbers has a least one.
LEMMA LeastExists ==
  ASSUME NEW S, S \subseteq Nat, S # {}
  PROVE  \E x \in S : \A y \in S : x <= y
<1>1. IsWellFoundedOn(OpToRel(<, Nat), Nat)
  BY NatLessThanWellFounded
<1>2. PICK x \in S : \A y \in S : ~(<<y, x>> \in OpToRel(<, Nat))
  BY <1>1, WFMin
<1>3. \A y \in S : ~(y < x)
  BY <1>2 DEF OpToRel
<1> QED
  BY <1>3

\* malloc returns the lowest of the places that are large enough.
LEMMA MallocPlace ==
  ASSUME NEW n \in Nat, malloc(n) # 0
  PROVE  /\ malloc(n) \in Places(n) /\ \A b \in Places(n) : malloc(n) <= b
         /\ malloc(n) \in Nat /\ malloc(n) >= 2 /\ malloc(n) + n <= HeapEnd
         /\ Words(malloc(n) - 1, n + 2) \cap InUse = {} /\ malloc(n) - 1 \notin InUse
<1>0. HeapEnd \in Nat
  BY LoaderAssumption
<1>1. Places(n) # {} /\ Places(n) \subseteq Nat
  BY <1>0 DEF malloc, Places
<1>2. \E a \in Places(n) : \A b \in Places(n) : a <= b
  BY <1>1, LeastExists
<1>3. malloc(n) \in Places(n) /\ \A b \in Places(n) : malloc(n) <= b
  BY <1>1, <1>2, Zenon DEF malloc
<1>4. PICK a : a = malloc(n)
  OBVIOUS
<1>5. a \in 2 .. HeapEnd - n /\ Words(a - 1, n + 2) \cap InUse = {}
  BY <1>3, <1>4 DEF Places
<1>6. a - 1 \in Words(a - 1, n + 2)
  BY <1>0, <1>5 DEF Words
<1> QED
  BY <1>0, <1>3, <1>4, <1>5, <1>6

\* When the blocks fill the beginning of the heap, it is the place right behind them.
LEMMA FirstPlace ==
  ASSUME NEW n \in Nat, NEW T \in Nat, InUse = 1 .. T, malloc(n) # 0
  PROVE  malloc(n) = T + 2 /\ T + 2 + n <= HeapEnd
<1> DEFINE a == malloc(n)
<1>0. HeapEnd \in Nat
  BY LoaderAssumption
<1>1. /\ a \in Places(n) /\ (\A b \in Places(n) : a <= b)
      /\ a \in Nat /\ a >= 2 /\ a + n <= HeapEnd /\ a - 1 \notin InUse
  BY MallocPlace
<1> HIDE DEF a
<1>2. a >= T + 2 /\ T + 2 + n <= HeapEnd
  BY <1>0, <1>1
<1>3. T + 2 \in Places(n)
  <2>1. T + 2 \in 2 .. HeapEnd - n
    BY <1>0, <1>2
  <2>2. Words((T + 2) - 1, n + 2) \cap InUse = {}
    BY DEF Words
  <2> QED
    BY <2>1, <2>2 DEF Places
<1>4. a = T + 2
  BY <1>1, <1>2, <1>3
<1> QED
  BY <1>2, <1>4 DEF a

\* A block is in use with its header, from the word in front of it to its last.
LEMMA BlockInUse ==
  ASSUME NEW a \in DOMAIN blocks, a \in Nat, blocks[a] \in Nat
  PROVE  a - 1 \in InUse /\ a + blocks[a] - 1 \in InUse
<1>1. a - 1 \in Words(a - 1, blocks[a] + 1) /\ a + blocks[a] - 1 \in Words(a - 1, blocks[a] + 1)
  BY DEF Words
<1> QED
  BY <1>1 DEF InUse

\* The libraries that lie behind each other fill the beginning of the heap.
LEMMA StackInUse ==
  ASSUME LoaderTypes, LibrariesStacked, pc = "idle"
  PROVE  InUse = 1 .. Top /\ Top \in Nat
<1> DEFINE D == DlBufferSize + 1
<1>1. D \in Nat \ {0} /\ D = DlBufferSize + 1 /\ dl_count \in Nat
  BY LoaderAssumption DEF LoaderTypes
<1>2. Top \in Nat /\ Top = dl_count * D
  BY <1>1 DEF Top
<1>3. /\ DOMAIN blocks = {Place(d) : d \in 0 .. dl_count - 1}
      /\ \A a \in DOMAIN blocks : blocks[a] = DlBufferSize
  BY DEF LibrariesStacked
<1>4. ASSUME NEW x \in InUse PROVE x \in 1 .. Top
  <2>1. PICK a \in DOMAIN blocks : x \in Words(a - 1, blocks[a] + 1)
    BY <1>4 DEF InUse
  <2>2. PICK d \in 0 .. dl_count - 1 : a = Place(d)
    BY <1>3, <2>1
  <2>3. a = 2 + d * D /\ blocks[a] + 1 = D
    BY <1>3, <2>1, <2>2 DEF Place
  <2> HIDE DEF D
  <2>4. d * D \in Nat /\ d * D + D <= dl_count * D
    <3>1. (d + 1) * D <= dl_count * D
      BY <1>1
    <3>2. (d + 1) * D = d * D + D /\ d * D \in Nat
      BY <1>1
    <3> QED
      BY <3>1, <3>2
  <2> QED
    BY <1>1, <1>2, <2>1, <2>3, <2>4 DEF Words
<1>5. ASSUME NEW x \in 1 .. Top PROVE x \in InUse
  <2> DEFINE q == (x - 1) \div D
             r == (x - 1) % D
  <2>1. q \in Nat /\ r \in 0 .. D - 1 /\ x - 1 = D * q + r
    <3>1. PICK y \in Nat : y = x - 1
      BY <1>2, <1>5
    <3>2. y \div D \in Nat /\ y % D \in 0 .. D - 1 /\ y = D * (y \div D) + (y % D)
      BY <1>1
    <3> QED
      BY <3>1, <3>2
  <2> HIDE DEF q, r
  <2>2. q \in 0 .. dl_count - 1
    <3> HIDE DEF D
    <3>1. ~(q >= dl_count)
      <4> SUFFICES ASSUME q >= dl_count PROVE FALSE
        OBVIOUS
      <4>1. D * q >= dl_count * D
        BY <1>1, <2>1
      <4>2. D * q \in Nat /\ dl_count * D \in Nat
        BY <1>1, <2>1
      <4> QED
        BY <1>1, <1>2, <1>5, <2>1, <4>1, <4>2
    <3> QED
      BY <1>1, <2>1, <3>1
  <2>3. PICK a \in DOMAIN blocks : a = Place(q)
    BY <1>3, <2>2
  <2>4. a = 2 + D * q /\ blocks[a] + 1 = D
    <3>1. q * D = D * q
      BY <1>1, <2>1
    <3> QED
      BY <1>3, <2>3, <3>1 DEF Place
  <2>5. x \in Words(a - 1, blocks[a] + 1)
    <3> HIDE DEF D
    <3>1. D * q \in Nat
      BY <1>1, <2>1
    <3> QED
      BY <1>1, <1>2, <1>5, <2>1, <2>4, <3>1 DEF Words
  <2> QED
    BY <2>3, <2>5 DEF InUse
<1> QED
  BY <1>2, <1>4, <1>5

\* It holds before init_symtable.
LEMMA InitLoaderInv == LoaderInit => LoaderInv
<1> SUFFICES ASSUME LoaderInit PROVE LoaderInv
  OBVIOUS
<1>0. /\ HeapEnd \in Nat \ {0} /\ DlSlots \in Nat \ {0} /\ DlBufferSize \in Nat
  BY LoaderAssumption
<1>1. /\ DOMAIN blocks = {} /\ DOMAIN dl_handles = {} /\ pc = "idle" /\ dl_count = 0
      /\ entry = 0 /\ hit = {} /\ DOMAIN mem = 1 .. HeapEnd /\ DOMAIN files = {}
      /\ DOMAIN dynamic_libraries = 0 .. DlSlots - 1
  BY DEF LoaderInit
<1>2. LoaderTypes
  <2>1. Cardinality(DOMAIN dl_handles) = 0 /\ IsFiniteSet(DOMAIN dl_handles)
    BY <1>1, FS_EmptySet
  <2>2. /\ image \in Images /\ exec = 0 /\ step = 1 /\ dl_opens = 0
        /\ dl_lifo \in BOOLEAN /\ dl_shared \in BOOLEAN
    BY DEF LoaderInit
  <2>3. exec \in 0 .. HeapEnd /\ entry \in 0 .. 2 * HeapEnd
    BY <1>0, <1>1, <2>2
  <2> QED
    BY <1>0, <1>1, <2>1, <2>2, <2>3 DEF LoaderTypes
<1>3. 0 .. dl_count - 1 = {} /\ Top = 0
  BY <1>0, <1>1 DEF Top
<1>4. LibrariesStacked
  BY <1>0, <1>1, <1>3 DEF LibrariesStacked
<1>5. HandlesInv
  BY <1>1 DEF HandlesInv, BlocksApart, HandlesOwn
<1> QED
  BY <1>1, <1>2, <1>4, <1>5 DEF LoaderInv, LoadStacked

\* A program's file, and an ELF file's segments and relocations.
LEMMA ImageFacts ==
  ASSUME LoaderTypes
  PROVE  /\ Length \in Nat \ {0}
         /\ image.elf => Linked(image)
BY LoaderAssumption DEF LoaderTypes, Length

\* A block that malloc has found a place for.
LEMMA AllocatedTypes ==
  ASSUME LoaderTypes, NEW n \in Nat \ {0}, malloc(n) # 0
  PROVE  /\ malloc(n) \in 2 .. HeapEnd
         /\ DOMAIN Allocated(malloc(n), n) = DOMAIN blocks \cup {malloc(n)}
         /\ DOMAIN Allocated(malloc(n), n) \subseteq 2 .. HeapEnd
         /\ \A a \in DOMAIN Allocated(malloc(n), n) :
              /\ Allocated(malloc(n), n)[a] \in Nat
              /\ a + Allocated(malloc(n), n)[a] - 1 <= HeapEnd
         /\ malloc(n) \notin DOMAIN blocks
         /\ Allocated(malloc(n), n)[malloc(n)] = n
         /\ \A a \in DOMAIN blocks : Allocated(malloc(n), n)[a] = blocks[a]
<1> DEFINE a == malloc(n)
<1>0. HeapEnd \in Nat
  BY LoaderAssumption
<1>1. a \in Nat /\ a >= 2 /\ a + n <= HeapEnd /\ a - 1 \notin InUse
  BY MallocPlace
<1>2. /\ DOMAIN blocks \subseteq 2 .. HeapEnd
      /\ \A b \in DOMAIN blocks : blocks[b] \in Nat /\ b + blocks[b] - 1 <= HeapEnd
  BY DEF LoaderTypes
<1> HIDE DEF a
<1>3. a \in 2 .. HeapEnd /\ a + n - 1 <= HeapEnd
  BY <1>0, <1>1
<1>4. a \notin DOMAIN blocks
  BY <1>0, <1>1, <1>2, BlockInUse
<1> QED
  BY <1>2, <1>3, <1>4 DEF Allocated, a

\* The load keeps the types.
LEMMA LoadTypes ==
  ASSUME LoaderTypes, Load
  PROVE  LoaderTypes'
<1> USE DEF dlvars
<1>0. /\ HeapEnd \in Nat \ {0} /\ BufferPointerSize \in Nat \ {0} /\ Length \in Nat \ {0}
      /\ image.elf => Linked(image)
  BY LoaderAssumption, ImageFacts
<1>1. CASE init_symtable \/ read_program_to_null \/ image_load_fails
  BY <1>1 DEF init_symtable, read_program_to_null, image_load_fails, LoaderTypes
<1>2. CASE read_program
  <2>1. malloc(Length) # 0 /\ blocks' = Allocated(malloc(Length), Length)
    BY <1>2 DEF read_program
  <2>2. DOMAIN blocks' \subseteq 2 .. HeapEnd /\ \A a \in DOMAIN blocks' : blocks'[a] \in Nat /\ a + blocks'[a] - 1 <= HeapEnd
    BY <1>0, <2>1, AllocatedTypes
  <2>3. DOMAIN mem' = DOMAIN mem
    BY <1>2 DEF read_program, Written
  <2> QED
    BY <1>2, <2>2, <2>3 DEF read_program, LoaderTypes
<1>3. CASE image_load
  <2> DEFINE n == BufferPointerSize
  <2>1. malloc(n) # 0 /\ blocks' = Allocated(malloc(n), n) /\ exec' = malloc(n)
    BY <1>3 DEF image_load
  <2>2. /\ DOMAIN blocks' \subseteq 2 .. HeapEnd /\ \A a \in DOMAIN blocks' : blocks'[a] \in Nat /\ a + blocks'[a] - 1 <= HeapEnd
        /\ malloc(n) \in 2 .. HeapEnd
    BY <1>0, <2>1, AllocatedTypes
  <2>3. DOMAIN mem' = DOMAIN mem
    BY <1>3 DEF image_load, Written
  <2>4. exec' \in 0 .. HeapEnd
    <3> HIDE DEF n
    <3> QED
      BY <1>0, <2>1, <2>2
  <2> HIDE DEF n
  <2> QED
    BY <1>3, <2>2, <2>3, <2>4 DEF image_load, LoaderTypes
<1>4. CASE load_segment \/ relocate
  <2>1. DOMAIN mem' = DOMAIN mem
    BY <1>4 DEF load_segment, relocate, Written
  <2>2. /\ UNCHANGED <<pc, image, symtable, buffer, exec, entry, blocks, dlvars>>
        /\ step' = step + 1 /\ pc \in {"segments", "relocate"}
    BY <1>4 DEF load_segment, relocate
  <2> QED
    BY <2>1, <2>2 DEF LoaderTypes
<1>5. CASE segments_done \/ free_buffer
  <2>1. DOMAIN blocks' \subseteq DOMAIN blocks /\ \A a \in DOMAIN blocks' : blocks'[a] = blocks[a]
    BY <1>5 DEF segments_done, free_buffer, Freed
  <2>2. /\ pc' \in {"relocate", "execute"} /\ (pc' = "relocate" => pc = "segments")
        /\ pc \in {"segments", "loaded"}
        /\ step' \in {1, step}
        /\ UNCHANGED <<image, exec, entry, mem, dlvars>>
    BY <1>5 DEF segments_done, free_buffer
  <2> QED
    BY <2>1, <2>2 DEF LoaderTypes
<1>6. CASE find_main
  <2>1. image.elf /\ exec \in 0 .. HeapEnd
    BY <1>6 DEF find_main, LoaderTypes
  <2>2. image.main \in -1 .. HeapEnd
    BY <1>0, <2>1 DEF Linked
  <2>3. entry' \in 0 .. 2 * HeapEnd
    <3>1. entry' = IF image.main = -1 THEN 0 ELSE exec + image.main
      BY <1>6 DEF find_main
    <3> QED
      BY <1>0, <2>1, <2>2, <3>1
  <2> QED
    BY <1>6, <2>3 DEF find_main, LoaderTypes
<1> QED
  BY <1>1, <1>2, <1>3, <1>4, <1>5, <1>6 DEF Load

\* So do dlopen and dlclose, in any order.
LEMMA LibraryTypes ==
  ASSUME LoaderTypes, SharedObjects
  PROVE  LoaderTypes'
<1> USE DEF loadvars, dlvars
<1>0. HeapEnd \in Nat \ {0} /\ DlBufferSize \in Nat \ {0} /\ DlSlots \in Nat \ {0}
  BY LoaderAssumption
<1> DEFINE H == DOMAIN dl_handles
<1>1. /\ H \subseteq 0 .. dl_opens - 1 /\ IsFiniteSet(H) /\ dl_opens \in Nat /\ dl_count \in Nat
      /\ pc # "undefined" => dl_count = Cardinality(H) /\ dl_count <= DlSlots
  BY DEF LoaderTypes
<1>2. ASSUME NEW length, dlopen_overruns(length) PROVE LoaderTypes'
  BY <1>1, <1>2 DEF dlopen_overruns, LoaderTypes
<1>3. ASSUME NEW n, dlclose_again(n) PROVE LoaderTypes'
  BY <1>3 DEF dlclose_again, LoaderTypes
<1>4. ASSUME NEW length, dlopen(length) PROVE LoaderTypes'
  <2> DEFINE n == DlBufferSize
  <2>1. malloc(n) # 0 /\ blocks' = Allocated(malloc(n), n) /\ dl_count < DlSlots /\ pc = "idle"
    BY <1>0, <1>1, <1>4 DEF dlopen, DlopenWith, Overruns
  <2>2. DOMAIN blocks' \subseteq 2 .. HeapEnd /\ \A a \in DOMAIN blocks' : blocks'[a] \in Nat /\ a + blocks'[a] - 1 <= HeapEnd
    BY <1>0, <2>1, AllocatedTypes
  <2>3. DOMAIN mem' = DOMAIN mem
    BY <1>4 DEF dlopen, DlopenWith, Written
  <2>4. DOMAIN dl_handles' = H \cup {dl_opens}
    BY <1>4 DEF dlopen, DlopenWith
  <2>5. dl_opens \notin H
    BY <1>1
  <2>6. /\ dl_count' = dl_count + 1 /\ dl_opens' = dl_opens + 1 /\ UNCHANGED <<loadvars, dl_lifo>>
        /\ dl_shared' \in BOOLEAN
    <3>1. dl_shared' = (dl_shared \/ \E m \in DOMAIN dl_handles : dl_handles[m].dl = dl_count)
      BY <1>4 DEF dlopen, DlopenWith
    <3> QED
      BY <1>4, <3>1 DEF dlopen, DlopenWith
  <2>7. DOMAIN dynamic_libraries' = DOMAIN dynamic_libraries
    BY <1>4 DEF dlopen, DlopenWith
  <2>8. IsFiniteSet(H \cup {dl_opens}) /\ Cardinality(H \cup {dl_opens}) = Cardinality(H) + 1
    BY <1>1, <2>5, FS_AddElement
  <2>9. /\ DOMAIN dl_handles' \subseteq 0 .. dl_opens' - 1 /\ IsFiniteSet(DOMAIN dl_handles')
        /\ Cardinality(DOMAIN dl_handles') = dl_count' /\ dl_count' <= DlSlots /\ dl_count' \in Nat
    <3> HIDE DEF H
    <3> QED
      BY <1>0, <1>1, <2>1, <2>4, <2>6, <2>8
  <2> QED
    BY <1>1, <2>2, <2>3, <2>6, <2>7, <2>9 DEF LoaderTypes
<1>5. ASSUME NEW n \in H, dlclose(n) PROVE LoaderTypes'
  <2>1. DOMAIN blocks' \subseteq DOMAIN blocks /\ \A a \in DOMAIN blocks' : blocks'[a] = blocks[a]
    BY <1>5 DEF dlclose, Freed
  <2>2. DOMAIN dl_handles' = H \ {n} /\ pc = "idle"
    BY <1>5 DEF dlclose
  <2>3. IsFiniteSet(H \ {n}) /\ Cardinality(H \ {n}) = Cardinality(H) - 1
    BY <1>1, <1>5, FS_RemoveElement
  <2>4. Cardinality(H \ {n}) \in Nat
    BY <2>3, FS_CardinalityType
  <2>5. /\ dl_count' = dl_count - 1 /\ dl_lifo' \in BOOLEAN
        /\ UNCHANGED <<loadvars, mem, dynamic_libraries, dl_opens, dl_shared>>
    <3>1. dl_lifo' = (dl_lifo /\ dl_handles[n].dl = dl_count - 1)
      BY <1>5 DEF dlclose
    <3> QED
      BY <1>5, <3>1 DEF dlclose
  <2>6. /\ DOMAIN dl_handles' \subseteq 0 .. dl_opens' - 1 /\ IsFiniteSet(DOMAIN dl_handles')
        /\ Cardinality(DOMAIN dl_handles') = dl_count' /\ dl_count' <= DlSlots /\ dl_count' \in Nat
    <3> HIDE DEF H
    <3> QED
      BY <1>0, <1>1, <2>2, <2>3, <2>4, <2>5
  <2> QED
    BY <2>1, <2>5, <2>6 DEF LoaderTypes
<1> QED
  BY <1>2, <1>3, <1>4, <1>5 DEF SharedObjects

\* The load leaves the libraries where they are.
LEMMA LibrariesKept ==
  ASSUME LibrariesStacked, UNCHANGED dlvars, pc' # "idle"
  PROVE  LibrariesStacked' /\ Top' = Top
<1>1. Top' = Top
  BY DEF Top, dlvars
<1> QED
  BY <1>1 DEF LibrariesStacked, dlvars

\* The libraries end at a word of the heap.
LEMMA TopNat ==
  ASSUME LoaderTypes
  PROVE  Top \in Nat
<1>1. dl_count \in Nat /\ DlBufferSize + 1 \in Nat
  BY LoaderAssumption DEF LoaderTypes
<1> QED
  BY <1>1 DEF Top

\* The use of the heap with one block more.
LEMMA InUseAllocated ==
  ASSUME LoaderTypes, NEW n \in Nat \ {0}, malloc(n) # 0, blocks' = Allocated(malloc(n), n)
  PROVE  InUse' = InUse \cup Words(malloc(n) - 1, n + 1)
<1> DEFINE a == malloc(n)
<1>1. /\ DOMAIN blocks' = DOMAIN blocks \cup {a} /\ blocks'[a] = n
      /\ \A b \in DOMAIN blocks : blocks'[b] = blocks[b]
  BY AllocatedTypes
<1> HIDE DEF a
<1>2. InUse' = UNION {Words(b - 1, blocks'[b] + 1) : b \in DOMAIN blocks'}
  BY DEF InUse
<1>3. ASSUME NEW x \in InUse' PROVE x \in InUse \cup Words(a - 1, n + 1)
  <2>1. PICK b \in DOMAIN blocks' : x \in Words(b - 1, blocks'[b] + 1)
    BY <1>2, <1>3
  <2> QED
    BY <1>1, <2>1 DEF InUse
<1>4. ASSUME NEW x \in InUse \cup Words(a - 1, n + 1) PROVE x \in InUse'
  <2>1. CASE x \in InUse
    <3>1. PICK b \in DOMAIN blocks : x \in Words(b - 1, blocks[b] + 1)
      BY <2>1 DEF InUse
    <3> QED
      BY <1>1, <1>2, <3>1
  <2>2. CASE x \in Words(a - 1, n + 1)
    BY <1>1, <1>2, <2>2
  <2> QED
    BY <1>4, <2>1, <2>2
<1> QED
  BY <1>3, <1>4 DEF a

\* The buffer of the file is right behind the libraries.
LEMMA ReadStacked ==
  ASSUME LoaderTypes, LoadStacked, read_program
  PROVE  LoadStacked'
<1> USE DEF dlvars
<1> DEFINE a == malloc(Length)
<1>0. Length \in Nat \ {0} /\ HeapEnd \in Nat /\ Top \in Nat
  BY ImageFacts, LoaderAssumption, TopNat
<1>1. /\ pc = "idle" /\ pc' = "image_load" /\ buffer' = a /\ a # 0
      /\ blocks' = Allocated(a, Length) /\ mem' = Written(a, image.file)
      /\ UNCHANGED <<image, symtable, exec, entry, step, hit, dlvars>>
  BY DEF read_program
<1>2. LibrariesStacked /\ hit = {} /\ entry = 0
  BY <1>1 DEF LoadStacked
<1>3. a = Top + 2 /\ Top + 2 + Length <= HeapEnd
  <2>1. InUse = 1 .. Top
    BY <1>1, <1>2, StackInUse
  <2> QED
    BY <1>0, <1>1, <2>1, FirstPlace
<1>4. InUse' = InUse \cup Words(a - 1, Length + 1)
  BY <1>0, <1>1, InUseAllocated
<1>5. Length' = Length
  BY <1>1 DEF Length
<1> HIDE DEF a
<1>6. InUse' = 1 .. a + Length - 1
  <2>1. InUse = 1 .. Top
    BY <1>1, <1>2, StackInUse
  <2> QED
    BY <1>0, <1>3, <1>4, <2>1 DEF Words
<1>7. DOMAIN mem = 1 .. HeapEnd
  BY DEF LoaderTypes
<1>8. /\ \A b \in DOMAIN mem : b < a \/ b >= a + Length => mem'[b] = mem[b]
      /\ \A k \in 1 .. Length : a + (k - 1) \in DOMAIN mem => mem'[a + (k - 1)] = image.file[k]
  <2>1. PICK f : f = image.file
    OBVIOUS
  <2>2. Len(f) = Length
    BY <2>1 DEF Length
  <2>3. a \in Int /\ Len(f) \in Nat
    BY <1>0, <1>3, <2>2
  <2>4. /\ \A b \in DOMAIN mem : b < a \/ b >= a + Len(f) => Written(a, f)[b] = mem[b]
        /\ \A k \in 1 .. Len(f) : a + (k - 1) \in DOMAIN mem => Written(a, f)[a + (k - 1)] = f[k]
    BY <2>3, WordsWritten
  <2> QED
    BY <1>1, <2>1, <2>2, <2>4, Zenon
<1>9. LibrariesStacked' /\ Top' = Top
  BY <1>1, <1>2, LibrariesKept
<1>10. FileInBuffer'
  <2>1. ASSUME NEW j \in 1 .. Length PROVE mem'[a + (j - 1)] = image.file[j]
    <3>1. a + (j - 1) \in DOMAIN mem
      BY <1>0, <1>3, <1>7
    <3> QED
      BY <1>8, <3>1
  <2>2. a > Top /\ a \in Nat /\ a + Length - 1 <= HeapEnd
    BY <1>0, <1>3
  <2> QED
    BY <1>1, <1>5, <1>9, <2>1, <2>2 DEF FileInBuffer
<1> QED
  BY <1>1, <1>2, <1>5, <1>6, <1>9, <1>10 DEF LoadStacked

\* exec is right behind the buffer.
LEMMA ImageLoadStacked ==
  ASSUME LoaderTypes, LoadStacked, image_load
  PROVE  LoadStacked'
<1> USE DEF dlvars
<1> DEFINE n == BufferPointerSize
           a == malloc(n)
           T == buffer + Length - 1
<1>0. /\ Length \in Nat \ {0} /\ HeapEnd \in Nat /\ Top \in Nat /\ n \in Nat \ {0}
  BY ImageFacts, LoaderAssumption, TopNat
<1>1. /\ pc = "image_load" /\ pc' = "segments" /\ exec' = a /\ a # 0 /\ step' = 1
      /\ blocks' = Allocated(a, n) /\ mem' = Written(a, Zeroes(n))
      /\ UNCHANGED <<image, symtable, buffer, entry, hit, dlvars>>
  BY DEF image_load
<1>2. LibrariesStacked /\ hit = {} /\ entry = 0 /\ InUse = 1 .. T /\ FileInBuffer
  BY <1>1 DEF LoadStacked
<1>3. buffer \in Nat /\ buffer > Top /\ T \in Nat /\ T <= HeapEnd
  BY <1>0, <1>2 DEF FileInBuffer
<1>4. a = T + 2 /\ T + 2 + n <= HeapEnd
  <2> HIDE DEF n, T
  <2> QED
    BY <1>0, <1>1, <1>2, <1>3, FirstPlace
<1>5. /\ DOMAIN blocks' = DOMAIN blocks \cup {a}
      /\ \A b \in DOMAIN blocks : blocks'[b] = blocks[b]
  BY <1>0, <1>1, AllocatedTypes
<1>6. Len(Zeroes(n)) = n
  <2>1. Zeroes(n) = [k \in 1 .. n |-> Zeroes(n)[k]]
    BY DEF Zeroes
  <2> QED
    BY <1>0, <2>1, LengthOf
<1> HIDE DEF a, n
<1>7. DOMAIN mem = 1 .. HeapEnd
  BY DEF LoaderTypes
<1>8. \A b \in DOMAIN mem : b < a => mem'[b] = mem[b]
  <2>1. a \in Int /\ Len(Zeroes(n)) \in Nat
    BY <1>0, <1>3, <1>4, <1>6
  <2> QED
    BY <1>1, <2>1, WordsWritten
<1>9. LibrariesStacked' /\ Top' = Top
  BY <1>1, <1>2, LibrariesKept
<1>10. Length' = Length /\ buffer' = buffer
  BY <1>1 DEF Length
<1>11. FileInBuffer'
  <2>1. ASSUME NEW j \in 1 .. Length PROVE mem'[buffer + (j - 1)] = image.file[j]
    <3>1. buffer + (j - 1) \in DOMAIN mem /\ buffer + (j - 1) < a
      BY <1>0, <1>3, <1>4, <1>7
    <3> QED
      BY <1>2, <1>8, <3>1 DEF FileInBuffer
  <2>2. buffer > Top /\ buffer \in Nat /\ T <= HeapEnd
    BY <1>3
  <2> QED
    BY <1>1, <1>9, <1>10, <2>1, <2>2 DEF FileInBuffer
<1>12. ExecBehindBlocks'
  <2>1. ASSUME NEW b \in DOMAIN blocks PROVE b + blocks[b] <= a
    <3>1. b \in Nat /\ blocks[b] \in Nat
      BY <1>0, <2>1 DEF LoaderTypes
    <3>2. b + blocks[b] - 1 \in 1 .. T
      BY <1>2, <2>1, <3>1, BlockInUse
    <3> HIDE DEF T
    <3> QED
      BY <1>3, <1>4, <3>1, <3>2
  <2>2. a > Top
    BY <1>0, <1>3, <1>4
  <2> QED
    BY <1>1, <1>5, <1>9, <2>1, <2>2 DEF ExecBehindBlocks
<1>13. Copied(step)' /\ exec' >= buffer' + Length'
  <2>1. exec' >= buffer' + Length'
    BY <1>0, <1>1, <1>3, <1>4, <1>10
  <2>2. \A s \in Loads' : ~(s < step')
    BY <1>1 DEF Loads
  <2> QED
    BY <2>1, <2>2 DEF Copied
<1> QED
  BY <1>1, <1>2, <1>9, <1>11, <1>12, <1>13 DEF LoadStacked

\* What is written from exec on meets no block but exec's and leaves the buffer as it is.
LEMMA WrittenBehind ==
  ASSUME LoaderTypes, LoadStacked, pc \in {"segments", "relocate"},
         UNCHANGED <<pc, image, symtable, buffer, exec, entry, blocks, dlvars>>,
         NEW x \in Nat, x >= exec, NEW words, Len(words) \in Nat, mem' = Written(x, words)
  PROVE  /\ LibrariesStacked' /\ ExecBehindBlocks' /\ (pc = "segments" => FileInBuffer')
         /\ Hits(x, Len(words)) = {}
<1> USE DEF dlvars
<1>0. /\ Length \in Nat \ {0} /\ HeapEnd \in Nat /\ Top \in Nat /\ exec \in Nat
      /\ DOMAIN mem = 1 .. HeapEnd
  BY ImageFacts, LoaderAssumption, TopNat DEF LoaderTypes
<1>1. /\ LibrariesStacked /\ ExecBehindBlocks
      /\ pc = "segments" => FileInBuffer /\ exec >= buffer + Length
  BY DEF LoadStacked
<1>2. exec > Top /\ \A b \in DOMAIN blocks \ {exec} : b + blocks[b] <= exec
  BY <1>1 DEF ExecBehindBlocks
<1>3. \A b \in 1 .. HeapEnd : b < x => mem'[b] = mem[b]
  <2>1. \A b \in DOMAIN mem : b < x \/ b >= x + Len(words) => Written(x, words)[b] = mem[b]
    BY WordsWritten
  <2> QED
    BY <1>0, <2>1
<1>4. LibrariesStacked' /\ Top' = Top
  BY <1>1, LibrariesKept
<1>5. ExecBehindBlocks'
  BY <1>2, <1>4 DEF ExecBehindBlocks
<1>6. ASSUME pc = "segments" PROVE FileInBuffer'
  <2>1. Length' = Length
    BY DEF Length
  <2>2. buffer > Top /\ buffer \in Nat /\ buffer + Length - 1 <= HeapEnd /\ exec >= buffer + Length
    BY <1>1, <1>6 DEF FileInBuffer
  <2>3. ASSUME NEW j \in 1 .. Length PROVE mem'[buffer + (j - 1)] = image.file[j]
    <3>1. buffer + (j - 1) \in 1 .. HeapEnd /\ buffer + (j - 1) < x
      BY <1>0, <2>2
    <3> QED
      BY <1>1, <1>3, <1>6, <3>1 DEF FileInBuffer
  <2> QED
    BY <1>4, <2>1, <2>2, <2>3 DEF FileInBuffer
<1>7. Hits(x, Len(words)) = {}
  <2> SUFFICES ASSUME NEW b \in DOMAIN blocks \ {exec}
               PROVE  Words(b - 1, blocks[b] + 1) \cap Words(x, Len(words)) = {}
    BY DEF Hits
  <2>1. b \in Nat /\ blocks[b] \in Nat /\ b + blocks[b] <= exec
    BY <1>0, <1>2 DEF LoaderTypes
  <2>2. PICK n \in Nat : n = Len(words)
    OBVIOUS
  <2>3. PICK m \in Nat : m = blocks[b]
    BY <2>1
  <2>4. Words(b - 1, m + 1) \cap Words(x, n) = {}
    BY <1>0, <2>1, <2>3 DEF Words
  <2> QED
    BY <2>2, <2>3, <2>4
<1> QED
  BY <1>4, <1>5, <1>6, <1>7

\* A segment's words are where its header says, and the others' stay there.
LEMMA SegmentStacked ==
  ASSUME LoaderTypes, LoadStacked, load_segment
  PROVE  LoadStacked'
<1> USE DEF dlvars
<1> DEFINE sg == SegmentAt(step)
           n == IF sg.load THEN sg.filesz ELSE 0
           x == exec + sg.vaddr
           w == [k \in 1 .. n |-> mem[buffer + sg.offset + (k - 1)]]
<1>0. /\ HeapEnd \in Nat /\ Top \in Nat /\ exec \in Nat /\ step \in Nat \ {0}
      /\ DOMAIN mem = 1 .. HeapEnd
  BY LoaderAssumption, TopNat DEF LoaderTypes
<1>1. /\ pc = "segments" /\ step <= Len(image.segments) /\ step' = step + 1
      /\ UNCHANGED <<pc, image, symtable, buffer, exec, entry, blocks, dlvars>>
  BY DEF load_segment
<1>2. mem' = Written(x, w) /\ hit' = hit \cup Hits(x, n)
  BY DEF load_segment, SegmentAt
<1>3. Linked(image)
  BY <1>1, ImageFacts DEF LoaderTypes
<1>4. /\ Len(image.segments) \in Nat
      /\ \A s \in 1 .. Len(image.segments) : SegmentAt(s).vaddr \in Nat
      /\ \A s \in Loads : /\ SegmentAt(s).offset \in Nat /\ SegmentAt(s).filesz \in Nat
                          /\ SegmentAt(s).offset + SegmentAt(s).filesz <= Length
      /\ \A s, t \in Loads : s # t =>
           Words(SegmentAt(s).vaddr, SegmentAt(s).filesz)
             \cap Words(SegmentAt(t).vaddr, SegmentAt(t).filesz) = {}
  BY <1>3 DEF Linked, Loads, SegmentAt, Length
<1>5. step \in 1 .. Len(image.segments)
  BY <1>0, <1>1, <1>4
<1>6. n \in Nat /\ sg.vaddr \in Nat /\ (sg.load => step \in Loads)
  <2>1. sg.load => step \in Loads
    BY <1>5 DEF Loads
  <2> QED
    BY <1>4, <1>5, <2>1
<1>7. Len(w) = n
  <2> HIDE DEF n
  <2>1. w = [k \in 1 .. n |-> w[k]]
    OBVIOUS
  <2> HIDE DEF w
  <2> QED
    BY <1>6, <2>1, LengthOf
<1>8. x \in Nat /\ x >= exec
  BY <1>0, <1>6
<1> HIDE DEF x, w
<1>9. LibrariesStacked' /\ ExecBehindBlocks' /\ FileInBuffer' /\ Hits(x, n) = {}
  <2> HIDE DEF n
  <2> QED
    BY <1>1, <1>2, <1>6, <1>7, <1>8, WrittenBehind
<1>10. /\ LibrariesStacked /\ hit = {} /\ entry = 0 /\ FileInBuffer /\ ExecBehindBlocks
       /\ Copied(step) /\ exec >= buffer + Length
  BY <1>1 DEF LoadStacked
<1>11. /\ \A b \in DOMAIN mem : b < x \/ b >= x + n => mem'[b] = mem[b]
       /\ \A k \in 1 .. n : x + (k - 1) \in DOMAIN mem => mem'[x + (k - 1)] = w[k]
  <2> HIDE DEF n
  <2>1. x \in Int /\ Len(w) \in Nat
    BY <1>6, <1>7, <1>8
  <2> QED
    BY <1>2, <1>7, <2>1, WordsWritten
<1>12. exec > 0
  BY <1>0, <1>10 DEF ExecBehindBlocks
<1>13. ASSUME NEW s \in Loads, s < step + 1,
              NEW v \in Words(SegmentAt(s).vaddr, SegmentAt(s).filesz), exec + v <= HeapEnd
       PROVE  mem'[exec + v] = WordOfFile(s, v)
  <2>0. /\ s \in Nat /\ SegmentAt(s).vaddr \in Nat /\ SegmentAt(s).filesz \in Nat
        /\ SegmentAt(s).offset \in Nat /\ SegmentAt(s).offset + SegmentAt(s).filesz <= Length
    BY <1>4, <1>13 DEF Loads
  <2>1. v \in Nat /\ v >= SegmentAt(s).vaddr /\ v < SegmentAt(s).vaddr + SegmentAt(s).filesz
    BY <1>13, <2>0 DEF Words
  <2>2. exec + v \in DOMAIN mem
    BY <1>0, <1>12, <1>13, <2>1
  <2>3. CASE s < step
    <3>1. mem[exec + v] = WordOfFile(s, v)
      BY <1>10, <1>13, <2>3 DEF Copied
    <3>2. exec + v < x \/ exec + v >= x + n
      <4>1. CASE sg.load
        <5>1. v \notin Words(sg.vaddr, sg.filesz)
          <6>1. s # step /\ step \in Loads
            BY <1>0, <1>6, <2>0, <2>3, <4>1
          <6>2. Words(SegmentAt(s).vaddr, SegmentAt(s).filesz)
                  \cap Words(SegmentAt(step).vaddr, SegmentAt(step).filesz) = {}
            BY <1>4, <6>1, Zenon
          <6> QED
            BY <1>13, <6>2
        <5>2. n = sg.filesz
          BY <4>1
        <5> HIDE DEF n, sg
        <5>3. v < sg.vaddr \/ v >= sg.vaddr + n
          BY <1>6, <2>1, <5>1, <5>2 DEF Words
        <5> QED
          BY <1>0, <1>6, <2>1, <5>3 DEF x
      <4>2. CASE ~sg.load
        <5>1. n = 0
          BY <4>2
        <5> HIDE DEF n, sg
        <5> QED
          BY <1>0, <1>8, <2>1, <5>1
      <4> QED
        BY <4>1, <4>2
    <3> QED
      BY <1>11, <2>2, <3>1, <3>2
  <2>4. CASE s = step
    <3>1. sg.load /\ n = sg.filesz /\ SegmentAt(s) = sg
      BY <1>13, <2>4 DEF Loads
    <3> DEFINE k == (v - sg.vaddr) + 1
    <3> HIDE DEF n, sg
    <3>2. k \in 1 .. n /\ exec + v = x + (k - 1)
      <4>1. PICK u \in Nat : u = sg.vaddr
        BY <1>6
      <4>2. v >= u /\ v < u + n
        BY <2>1, <3>1, <4>1
      <4>3. k = (v - u) + 1 /\ x = exec + u
        BY <4>1 DEF x
      <4>4. n \in Nat /\ v \in Nat /\ exec \in Nat
        BY <1>0, <1>6, <2>1
      <4> HIDE DEF k
      <4> QED
        BY <4>2, <4>3, <4>4
    <3>3. mem'[exec + v] = w[k]
      BY <1>11, <2>2, <3>2
    <3>4. w[k] = mem[buffer + sg.offset + (k - 1)]
      BY <3>2 DEF w
    <3>5. image.file[sg.offset + k] = mem[buffer + ((sg.offset + k) - 1)]
      <4>1. sg.offset + k \in 1 .. Length
        <5>1. Length \in Nat
          BY ImageFacts
        <5> HIDE DEF k
        <5> QED
          BY <1>6, <2>0, <3>1, <3>2, <5>1
      <4> QED
        BY <1>10, <4>1 DEF FileInBuffer
    <3>6. buffer + ((sg.offset + k) - 1) = buffer + sg.offset + (k - 1)
      <4>1. buffer \in Nat /\ sg.offset \in Nat /\ k \in Int
        BY <1>6, <1>10, <2>0, <3>1, <3>2 DEF FileInBuffer
      <4> HIDE DEF k
      <4> QED
        BY <4>1
    <3>7. sg.offset + k = sg.offset + (v - sg.vaddr) + 1
      BY <1>6, <2>0, <2>1, <3>1
    <3>8. WordOfFile(s, v) = image.file[sg.offset + (v - sg.vaddr) + 1]
      BY <3>1 DEF WordOfFile
    <3> QED
      BY <3>3, <3>4, <3>5, <3>6, <3>7, <3>8
  <2> QED
    BY <1>0, <1>13, <2>0, <2>3, <2>4
<1>14. Copied(step)'
  <2>1. /\ Loads' = Loads /\ step' = step + 1 /\ exec' = exec
        /\ \A s : SegmentAt(s)' = SegmentAt(s) /\ \A v : WordOfFile(s, v)' = WordOfFile(s, v)
    BY <1>1 DEF Loads, SegmentAt, WordOfFile
  <2> QED
    BY <1>13, <2>1 DEF Copied
<1>15. exec' >= buffer' + Length' /\ hit' = {}
  <2>1. Length' = Length
    BY <1>1 DEF Length
  <2> QED
    BY <1>1, <1>2, <1>9, <1>10, <2>1
<1> QED
  BY <1>1, <1>9, <1>10, <1>14, <1>15 DEF LoadStacked

\* All segments copied, and no relocation carried out.
LEMMA SegmentsDoneStacked ==
  ASSUME LoaderTypes, LoadStacked, segments_done
  PROVE  LoadStacked'
<1> USE DEF dlvars
<1>1. /\ pc = "segments" /\ step > Len(image.segments) /\ step' = 1 /\ pc' = "relocate"
      /\ UNCHANGED <<image, symtable, buffer, exec, entry, hit, mem, blocks, dlvars>>
  BY DEF segments_done
<1>2. LibrariesStacked /\ hit = {} /\ entry = 0 /\ ExecBehindBlocks /\ Copied(step)
  BY <1>1 DEF LoadStacked
<1>3. LibrariesStacked' /\ Top' = Top
  BY <1>1, <1>2, LibrariesKept
<1>4. ExecBehindBlocks'
  BY <1>1, <1>2, <1>3 DEF ExecBehindBlocks
<1>5. Len(image.segments) \in Nat /\ step \in Nat
  BY <1>1, ImageFacts DEF Linked, LoaderTypes
<1>6. Relocated(step)'
  <2>1. Slots(1)' = {}
    BY DEF Slots
  <2>2. \A s \in Loads : s < step
    BY <1>1, <1>5 DEF Loads
  <2> QED
    BY <1>1, <1>2, <2>1, <2>2 DEF Relocated, Copied, Loads, SegmentAt, WordOfFile
<1> QED
  BY <1>1, <1>2, <1>3, <1>4, <1>6 DEF LoadStacked

\* A slot is given the address of its symbol; no other word changes.
LEMMA RelocateStacked ==
  ASSUME LoaderTypes, LoadStacked, relocate
  PROVE  LoadStacked'
<1> USE DEF dlvars
<1> DEFINE r == image.rels[step]
           w == IF r.type = "JMP_SLOT" THEN <<resolve_symbol(r.sym)>> ELSE << >>
           x == exec + r.offset
<1>0. /\ HeapEnd \in Nat /\ Top \in Nat /\ exec \in Nat /\ step \in Nat \ {0}
      /\ DOMAIN mem = 1 .. HeapEnd
  BY LoaderAssumption, TopNat DEF LoaderTypes
<1>1. /\ pc = "relocate" /\ step <= Len(image.rels) /\ step' = step + 1
      /\ UNCHANGED <<pc, image, symtable, buffer, exec, entry, blocks, dlvars>>
  BY DEF relocate
<1>2. mem' = Written(x, w) /\ hit' = hit \cup Hits(x, Len(w))
  BY DEF relocate
<1>3. Linked(image)
  BY <1>1, ImageFacts DEF LoaderTypes
<1>4. /\ Len(image.rels) \in Nat
      /\ \A k \in 1 .. Len(image.rels) : image.rels[k].offset \in Nat
      /\ \A k, m \in 1 .. Len(image.rels) :
           image.rels[k].type = "JMP_SLOT" /\ image.rels[m].type = "JMP_SLOT" /\ k # m
             => image.rels[k].offset # image.rels[m].offset
      /\ \A s \in 1 .. Len(image.segments) : SegmentAt(s).vaddr \in Nat
      /\ \A s \in Loads : SegmentAt(s).filesz \in Nat
  BY <1>3 DEF Linked, Loads, SegmentAt
<1>5. step \in 1 .. Len(image.rels) /\ r.offset \in Nat
  BY <1>0, <1>1, <1>4
<1>6. Len(w) \in 0 .. 1 /\ (r.type # "JMP_SLOT" => Len(w) = 0)
  OBVIOUS
<1>7. x \in Nat /\ x >= exec
  BY <1>0, <1>5
<1>8. r.type = "JMP_SLOT" => Len(w) = 1 /\ w[1] = resolve_symbol(r.sym)
  OBVIOUS
<1>9. PICK n \in 0 .. 1 : n = Len(w)
  BY <1>6
<1> HIDE DEF x, w
<1>10. LibrariesStacked' /\ ExecBehindBlocks' /\ Hits(x, Len(w)) = {}
  BY <1>1, <1>2, <1>7, <1>9, WrittenBehind
<1>11. LibrariesStacked /\ hit = {} /\ entry = 0 /\ ExecBehindBlocks /\ Relocated(step)
  BY <1>1 DEF LoadStacked
<1>12. /\ \A b \in DOMAIN mem : b < x \/ b >= x + n => mem'[b] = mem[b]
       /\ \A k \in 1 .. n : x + (k - 1) \in DOMAIN mem => mem'[x + (k - 1)] = w[k]
  <2>1. x \in Int /\ Len(w) \in Nat
    BY <1>7, <1>9
  <2> QED
    BY <1>2, <1>9, <2>1, WordsWritten
<1>13. exec > 0
  BY <1>0, <1>11 DEF ExecBehindBlocks
\* A word of the program is as it was unless the relocation is of it.
<1>14. ASSUME NEW v \in Nat, exec + v <= HeapEnd, r.type # "JMP_SLOT" \/ v # r.offset
       PROVE  mem'[exec + v] = mem[exec + v]
  <2>1. exec + v \in DOMAIN mem
    BY <1>0, <1>13, <1>14
  <2>2. exec + v < x \/ exec + v >= x + n
    <3>1. PICK u \in Nat : u = r.offset
      BY <1>5
    <3>2. n = 0 \/ v # u
      BY <1>6, <1>9, <1>14, <3>1
    <3>3. x = exec + u
      BY <3>1 DEF x
    <3> QED
      BY <1>0, <1>9, <3>2, <3>3
  <2> QED
    BY <1>12, <2>1, <2>2
<1> DEFINE S == Slots(step + 1)
<1>15. \A k : k \in S <=> k \in Slots(step) \/ (k = step /\ r.type = "JMP_SLOT")
  BY <1>0, <1>5 DEF Slots
<1>16. ASSUME NEW k \in S, exec + image.rels[k].offset <= HeapEnd
       PROVE  mem'[exec + image.rels[k].offset] = resolve_symbol(image.rels[k].sym)
  <2>1. CASE k = step /\ r.type = "JMP_SLOT"
    <3>1. n = 1 /\ w[1] = resolve_symbol(r.sym)
      BY <1>8, <1>9, <2>1
    <3>2. x \in DOMAIN mem /\ x + (1 - 1) = x /\ x = exec + image.rels[k].offset
      BY <1>0, <1>7, <1>13, <1>16, <2>1 DEF x
    <3>3. mem'[x] = w[1]
      BY <1>12, <3>1, <3>2
    <3> QED
      BY <2>1, <3>1, <3>2, <3>3
  <2>2. CASE k \in Slots(step)
    <3>1. k \in 1 .. Len(image.rels) /\ k # step /\ image.rels[k].type = "JMP_SLOT"
      BY <1>0, <2>2 DEF Slots
    <3>2. image.rels[k].offset \in Nat /\ (r.type # "JMP_SLOT" \/ image.rels[k].offset # r.offset)
      BY <1>4, <1>5, <3>1
    <3>3. mem[exec + image.rels[k].offset] = resolve_symbol(image.rels[k].sym)
      BY <1>11, <1>16, <2>2 DEF Relocated
    <3> QED
      BY <1>14, <1>16, <3>2, <3>3
  <2> QED
    BY <1>15, <1>16, <2>1, <2>2
<1>17. ASSUME NEW s \in Loads, NEW v \in Words(SegmentAt(s).vaddr, SegmentAt(s).filesz),
              exec + v <= HeapEnd, \A k \in S : image.rels[k].offset # v
       PROVE  mem'[exec + v] = WordOfFile(s, v)
  <2>1. v \in Nat
    <3>1. SegmentAt(s).vaddr \in Nat /\ SegmentAt(s).filesz \in Nat
      BY <1>4, <1>17 DEF Loads
    <3> QED
      BY <1>17, <3>1 DEF Words
  <2>2. mem[exec + v] = WordOfFile(s, v)
    BY <1>11, <1>15, <1>17 DEF Relocated
  <2>3. r.type # "JMP_SLOT" \/ v # r.offset
    BY <1>15, <1>17
  <2> QED
    BY <1>14, <1>17, <2>1, <2>2, <2>3
<1>18. Relocated(step)'
  <2>1. /\ Slots(step)' = S /\ Loads' = Loads /\ exec' = exec /\ image' = image
        /\ \A s : SegmentAt(s)' = SegmentAt(s) /\ \A v : WordOfFile(s, v)' = WordOfFile(s, v)
        /\ \A name : resolve_symbol(name)' = resolve_symbol(name)
    BY <1>1 DEF Slots, Loads, SegmentAt, WordOfFile, resolve_symbol
  <2> HIDE DEF S
  <2> QED
    BY <1>16, <1>17, <2>1 DEF Relocated
<1> QED
  BY <1>1, <1>2, <1>10, <1>11, <1>18 DEF LoadStacked

\* The end of the load writes nothing: main is looked up in the program as it is.
LEMMA FinishStacked ==
  ASSUME LoaderTypes, LoadStacked, find_main \/ free_buffer
  PROVE  LoadStacked'
<1> USE DEF dlvars
<1>1. /\ UNCHANGED <<image, symtable, buffer, exec, step, hit, mem, dlvars>>
      /\ pc' \in {"loaded", "execute"} /\ pc \in {"relocate", "loaded"}
  BY DEF find_main, free_buffer
<1>2. LibrariesStacked /\ hit = {}
  BY DEF LoadStacked
<1>3. LibrariesStacked'
  BY <1>1, <1>2, LibrariesKept
<1> DEFINE R == Relocated(Len(image.rels) + 1)
<1>4. R' = R
  BY <1>1 DEF Relocated, Slots, Loads, SegmentAt, WordOfFile, resolve_symbol
<1>5. ASSUME entry' # 0 PROVE entry' = exec + image.main /\ R
  <2>1. CASE find_main
    <3>1. /\ pc = "relocate" /\ step > Len(image.rels)
          /\ entry' = IF image.main = -1 THEN 0 ELSE exec + image.main
      BY <2>1 DEF find_main
    <3>2. Len(image.rels) \in Nat /\ step \in Nat
      BY <3>1, ImageFacts DEF Linked, LoaderTypes
    <3>3. Slots(step) = Slots(Len(image.rels) + 1)
      BY <3>1, <3>2 DEF Slots
    <3>4. Relocated(step)
      BY <3>1 DEF LoadStacked
    <3> QED
      BY <1>5, <3>1, <3>3, <3>4 DEF Relocated
  <2>2. CASE free_buffer
    BY <1>5, <2>2 DEF free_buffer, LoadStacked
  <2> QED
    BY <2>1, <2>2
<1> HIDE DEF R
<1> QED
  BY <1>1, <1>2, <1>3, <1>4, <1>5 DEF LoadStacked, R

\* The steps that change neither memory nor blocks.
LEMMA SameMemoryStacked ==
  ASSUME LoaderTypes, LoadStacked, init_symtable \/ image_load_fails
  PROVE  LoadStacked'
<1> USE DEF dlvars
<1>1. /\ UNCHANGED <<image, buffer, exec, entry, step, hit, mem, blocks, dlvars>>
      /\ pc' \in {pc, "loaded"} /\ pc \in {"idle", "image_load"}
      /\ pc' = pc => pc = "idle"
  BY DEF init_symtable, image_load_fails
<1>2. LibrariesStacked /\ hit = {} /\ entry = 0
  BY <1>1 DEF LoadStacked
<1>3. Top' = Top
  BY <1>1 DEF Top
<1>4. LibrariesStacked'
  BY <1>1, <1>2, <1>3 DEF LibrariesStacked
<1>5. pc' \in {"idle", "loaded"}
  BY <1>1
<1> QED
  BY <1>1, <1>2, <1>4, <1>5 DEF LoadStacked

\* A library opened goes behind the others, into the slot its handle names.
LEMMA OpenStacked ==
  ASSUME LoaderTypes, LoadStacked, NEW length, dlopen(length)
  PROVE  LoadStacked'
<1> USE DEF loadvars
<1> DEFINE D == DlBufferSize
           a == malloc(D)
<1>0. /\ D \in Nat \ {0} /\ HeapEnd \in Nat /\ Top \in Nat /\ dl_count \in Nat
      /\ DOMAIN dynamic_libraries = 0 .. DlSlots - 1 /\ DlSlots \in Nat
  BY LoaderAssumption, TopNat DEF LoaderTypes
<1>1. /\ pc = "idle" /\ a # 0 /\ dl_count < DlSlots
      /\ blocks' = Allocated(a, D)
      /\ dynamic_libraries' = [d \in DOMAIN dynamic_libraries |->
           IF d = dl_count THEN [buffer |-> a, fd |-> fat16_open(length)] ELSE dynamic_libraries[d]]
      /\ dl_count' = dl_count + 1
      /\ UNCHANGED loadvars
  BY <1>0 DEF dlopen, DlopenWith, Overruns
<1>2. LibrariesStacked /\ hit = {} /\ entry = 0
  BY <1>1 DEF LoadStacked
<1>3. a = Top + 2 /\ Top + 2 + D <= HeapEnd
  <2>1. InUse = 1 .. Top
    BY <1>1, <1>2, StackInUse
  <2> QED
    BY <1>0, <1>1, <2>1, FirstPlace
<1>4. /\ DOMAIN blocks' = DOMAIN blocks \cup {a} /\ blocks'[a] = D
      /\ \A b \in DOMAIN blocks : blocks'[b] = blocks[b]
  BY <1>0, <1>1, AllocatedTypes
<1> HIDE DEF a
<1>5. a = Place(dl_count) /\ Top' = Top + (D + 1)
  <2>1. dl_count * (D + 1) \in Nat /\ (dl_count + 1) * (D + 1) = dl_count * (D + 1) + (D + 1)
    BY <1>0
  <2> QED
    BY <1>0, <1>1, <1>3, <2>1 DEF Place, Top
<1> HIDE DEF D
<1>6. 0 .. dl_count' - 1 = (0 .. dl_count - 1) \cup {dl_count}
  BY <1>0, <1>1
<1>7. ASSUME NEW d \in 0 .. dl_count' - 1 PROVE dynamic_libraries'[d].buffer = Place(d)
  <2>1. d \in DOMAIN dynamic_libraries
    BY <1>0, <1>1, <1>7
  <2>2. CASE d = dl_count
    BY <1>1, <1>5, <2>1, <2>2
  <2>3. CASE d \in 0 .. dl_count - 1
    <3>1. d # dl_count
      BY <1>0, <2>3
    <3>2. dynamic_libraries'[d] = dynamic_libraries[d]
      BY <1>1, <2>1, <3>1
    <3> QED
      BY <1>2, <2>3, <3>2 DEF LibrariesStacked
  <2> QED
    BY <1>6, <1>7, <2>2, <2>3
<1>8. /\ DOMAIN blocks' = {Place(d) : d \in 0 .. dl_count' - 1}
      /\ \A b \in DOMAIN blocks' : blocks'[b] = D
  <2>1. /\ DOMAIN blocks = {Place(d) : d \in 0 .. dl_count - 1}
        /\ \A b \in DOMAIN blocks : blocks[b] = D
    BY <1>1, <1>2 DEF LibrariesStacked, D
  <2> QED
    BY <1>4, <1>5, <1>6, <2>1
<1>9. Top' <= HeapEnd
  BY <1>0, <1>3, <1>5
<1>10. LibrariesStacked'
  BY <1>7, <1>8, <1>9 DEF LibrariesStacked, Place, D
<1> QED
  BY <1>1, <1>2, <1>10 DEF LoadStacked

\* The library closed last is the one behind the others.
LEMMA CloseStacked ==
  ASSUME LoaderTypes, LoadStacked, NEW n \in DOMAIN dl_handles, dlclose(n),
         dl_handles[n].dl = dl_count - 1
  PROVE  LoadStacked'
<1> USE DEF loadvars
<1> DEFINE dl == dl_count - 1
<1>0. DlBufferSize \in Nat \ {0} /\ HeapEnd \in Nat /\ dl_count \in Nat /\ Top \in Nat
  BY LoaderAssumption, TopNat DEF LoaderTypes
<1>1. /\ pc = "idle" /\ blocks' = Freed(dynamic_libraries[dl].buffer) /\ dl_count' = dl_count - 1
      /\ UNCHANGED <<loadvars, mem, dynamic_libraries, dl_opens>>
  BY DEF dlclose, SlotOf
<1>2. LibrariesStacked /\ hit = {} /\ entry = 0
  BY <1>1 DEF LoadStacked
<1>3. dl \in 0 .. dl_count - 1
  <2>1. dl_count = Cardinality(DOMAIN dl_handles) /\ IsFiniteSet(DOMAIN dl_handles)
    BY <1>1 DEF LoaderTypes
  <2>2. Cardinality(DOMAIN dl_handles) # 0
    BY <2>1, FS_EmptySet
  <2> QED
    BY <1>0, <2>1, <2>2
<1>4. 0 .. dl_count' - 1 = (0 .. dl_count - 1) \ {dl}
  BY <1>0, <1>1, <1>3
<1>5. /\ \A d \in 0 .. dl_count - 1 : dynamic_libraries[d].buffer = Place(d)
      /\ DOMAIN blocks = {Place(d) : d \in 0 .. dl_count - 1}
      /\ \A b \in DOMAIN blocks : blocks[b] = DlBufferSize
      /\ Top <= HeapEnd
  BY <1>1, <1>2 DEF LibrariesStacked
<1>6. \A d, e \in 0 .. dl_count - 1 : Place(d) = Place(e) => d = e
  <2> DEFINE D == DlBufferSize + 1
  <2>1. D \in Nat \ {0}
    BY <1>0
  <2>2. \A d : Place(d) = 2 + d * D
    BY DEF Place
  <2> HIDE DEF D
  <2>3. ASSUME NEW d \in Nat, NEW e \in Nat, d < e PROVE Place(d) # Place(e)
    <3>1. (d + 1) * D <= e * D
      BY <2>1, <2>3
    <3>2. (d + 1) * D = d * D + D /\ d * D \in Nat /\ e * D \in Nat
      BY <2>1
    <3> QED
      BY <2>1, <2>2, <3>1, <3>2
  <2> QED
    BY <1>0, <2>3
<1>7. DOMAIN blocks' = {Place(d) : d \in 0 .. dl_count' - 1} /\ \A b \in DOMAIN blocks' : blocks'[b] = DlBufferSize
  <2>1. DOMAIN blocks' = DOMAIN blocks \ {Place(dl)} /\ \A b \in DOMAIN blocks' : blocks'[b] = blocks[b]
    BY <1>1, <1>3, <1>5 DEF Freed
  <2> QED
    BY <1>3, <1>4, <1>5, <1>6, <2>1
<1>8. Top' <= HeapEnd
  <2>1. PICK e \in Nat : e = dl_count - 1
    BY <1>0, <1>3
  <2>2. e * (DlBufferSize + 1) <= dl_count * (DlBufferSize + 1)
    BY <1>0, <2>1
  <2>3. Top' <= Top /\ Top' \in Nat
    BY <1>0, <1>1, <2>1, <2>2 DEF Top
  <2> QED
    BY <1>0, <1>5, <2>3
<1>9. LibrariesStacked'
  <2>1. \A d \in 0 .. dl_count' - 1 : dynamic_libraries'[d].buffer = Place(d)
    BY <1>1, <1>4, <1>5
  <2> QED
    BY <1>7, <1>8, <2>1 DEF LibrariesStacked, Place
<1> QED
  BY <1>1, <1>2, <1>9 DEF LoadStacked

\* A block put where malloc says lies apart from the others.
LEMMA AllocatedApart ==
  ASSUME LoaderTypes, BlocksApart, NEW n \in Nat \ {0}, malloc(n) # 0,
         blocks' = Allocated(malloc(n), n)
  PROVE  /\ BlocksApart'
         /\ \A b \in DOMAIN blocks : Words(malloc(n), n) \cap Words(b, blocks[b]) = {}
<1> DEFINE a == malloc(n)
<1>1. a \in Nat /\ a >= 2 /\ Words(a - 1, n + 2) \cap InUse = {}
  BY MallocPlace
<1>2. /\ DOMAIN blocks' = DOMAIN blocks \cup {a} /\ blocks'[a] = n
      /\ \A b \in DOMAIN blocks : blocks'[b] = blocks[b]
  BY AllocatedTypes
<1> HIDE DEF a
<1>3. ASSUME NEW b \in DOMAIN blocks
      PROVE  a + n < b \/ b + blocks[b] < a
  <2>1. b \in Nat /\ b >= 2 /\ blocks[b] \in Nat
    <3>1. HeapEnd \in Nat
      BY LoaderAssumption
    <3> QED
      BY <1>3, <3>1 DEF LoaderTypes
  <2>2. PICK m \in Nat : m = blocks[b]
    BY <2>1
  <2>3. \A x \in Words(b - 1, m + 1) : x \notin Words(a - 1, n + 2)
    BY <1>1, <1>3, <2>2 DEF InUse
  <2>4. a - 1 \notin Words(b - 1, m + 1) \/ a - 1 \notin Words(a - 1, n + 2)
    BY <2>3
  <2>5. b - 1 \notin Words(b - 1, m + 1) \/ b - 1 \notin Words(a - 1, n + 2)
    BY <2>3
  <2> QED
    BY <1>1, <2>1, <2>2, <2>4, <2>5 DEF Words
<1>4. BlocksApart'
  BY <1>2, <1>3 DEF BlocksApart
<1>5. ASSUME NEW b \in DOMAIN blocks PROVE Words(a, n) \cap Words(b, blocks[b]) = {}
  <2>1. b \in Nat /\ blocks[b] \in Nat
    <3>1. HeapEnd \in Nat
      BY LoaderAssumption
    <3> QED
      BY <1>5, <3>1 DEF LoaderTypes
  <2> QED
    BY <1>1, <1>3, <1>5, <2>1 DEF Words
<1> QED
  BY <1>4, <1>5 DEF a

\* A handle keeps what it owns when its slot, its block and its words are left alone.
LEMMA OwnsKept ==
  ASSUME NEW n \in DOMAIN dl_handles, Owns(n), UNCHANGED dlvars,
         SlotOf(n).buffer \in DOMAIN blocks', blocks'[SlotOf(n).buffer] = blocks[SlotOf(n).buffer],
         pc' \notin {"idle", "undefined"} => SlotOf(n).buffer # buffer',
         pc' \in {"segments", "relocate"} => SlotOf(n).buffer # exec',
         hit' = {} => hit = {},
         hit' = {} => \A k \in 1 .. DlBufferSize :
           mem'[SlotOf(n).buffer + (k - 1)] = mem[SlotOf(n).buffer + (k - 1)]
  PROVE  Owns(n)'
<1>1. SlotOf(n)' = SlotOf(n) /\ dl_handles' = dl_handles /\ files' = files
  BY DEF SlotOf, dlvars
<1> QED
  BY <1>1 DEF Owns

\* The words of a library are words of its block.
LEMMA LibraryInBlock ==
  ASSUME LoaderTypes, NEW n \in DOMAIN dl_handles, Owns(n), NEW k \in 1 .. DlBufferSize
  PROVE  LET p == SlotOf(n).buffer
         IN  /\ p \in Nat /\ p + (k - 1) \in DOMAIN mem
             /\ p + (k - 1) \in Words(p, blocks[p])
<1>0. HeapEnd \in Nat /\ DlBufferSize \in Nat
  BY LoaderAssumption
<1>1. PICK p \in DOMAIN blocks : p = SlotOf(n).buffer /\ blocks[p] = DlBufferSize
  BY DEF Owns
<1>2. p \in 2 .. HeapEnd /\ p + DlBufferSize - 1 <= HeapEnd /\ DOMAIN mem = 1 .. HeapEnd
  BY <1>1 DEF LoaderTypes
<1>3. p \in Nat /\ p + (k - 1) \in 1 .. HeapEnd /\ p + (k - 1) \in p .. p + DlBufferSize - 1
  BY <1>0, <1>2
<1> QED
  BY <1>1, <1>2, <1>3 DEF Words

\* What is written elsewhere leaves a word alone.
LEMMA WrittenElsewhere ==
  ASSUME NEW a, NEW words, NEW n, Len(words) <= n, Len(words) \in Nat, n \in Nat, a \in Int,
         NEW b \in DOMAIN mem, b \notin Words(a, n)
  PROVE  Written(a, words)[b] = mem[b]
<1>1. b \notin Words(a, Len(words))
  <2> DEFINE m == Len(words)
  <2>1. m \in Nat /\ m <= n
    OBVIOUS
  <2> HIDE DEF m
  <2>2. \A x \in Words(a, m) : x \in Words(a, n)
    BY <2>1 DEF Words
  <2> QED
    BY <2>2 DEF m
<1> QED
  BY <1>1 DEF Written

\* The load changes no handle, and its blocks are none of theirs.
LEMMA LoadHandles ==
  ASSUME LoaderTypes, HandlesInv, Load
  PROVE  HandlesInv'
<1>0. /\ HeapEnd \in Nat /\ BufferPointerSize \in Nat \ {0} /\ Length \in Nat \ {0}
      /\ BlocksApart /\ UNCHANGED dlvars
  BY LoaderAssumption, ImageFacts
  DEF HandlesInv, Load, init_symtable, read_program, read_program_to_null, image_load_fails,
      image_load, load_segment, segments_done, relocate, find_main, free_buffer
<1> SUFFICES BlocksApart' /\ \A n \in DOMAIN dl_handles : Owns(n) => Owns(n)'
  <2>1. SUFFICES ASSUME BlocksApart', \A n \in DOMAIN dl_handles : Owns(n) => Owns(n)'
                 PROVE  HandlesInv'
    OBVIOUS
  <2>2. /\ dl_shared' = dl_shared /\ dl_handles' = dl_handles /\ files' = files
        /\ \A n : SlotOf(n)' = SlotOf(n)
    BY <1>0 DEF dlvars, SlotOf
  <2>3. ASSUME HandlesOwn PROVE HandlesOwn'
    BY <2>1, <2>2, <2>3 DEF HandlesOwn
  <2> QED
    BY <2>1, <2>2, <2>3 DEF HandlesInv
<1>1. CASE init_symtable \/ read_program_to_null \/ image_load_fails \/ segments_done \/ find_main
  <2>1. /\ UNCHANGED <<buffer, exec, hit, mem, blocks>>
        /\ pc' \notin {"idle", "undefined"} => pc \notin {"idle", "undefined"}
        /\ pc' \in {"segments", "relocate"} => pc = "segments"
    BY <1>1 DEF init_symtable, read_program_to_null, image_load_fails, segments_done, find_main
  <2>2. BlocksApart'
    BY <1>0, <2>1 DEF BlocksApart
  <2>3. ASSUME NEW n \in DOMAIN dl_handles, Owns(n) PROVE Owns(n)'
    BY <1>0, <2>1, <2>3, OwnsKept DEF Owns
  <2> QED
    BY <2>2, <2>3
<1>2. CASE read_program
  <2> DEFINE a == malloc(Length)
  <2>1. /\ a # 0 /\ blocks' = Allocated(a, Length) /\ buffer' = a /\ mem' = Written(a, image.file)
        /\ pc' = "image_load" /\ hit' = hit
    BY <1>2 DEF read_program
  <2>2. /\ BlocksApart'
        /\ \A b \in DOMAIN blocks : Words(a, Length) \cap Words(b, blocks[b]) = {}
    BY <1>0, <2>1, AllocatedApart
  <2>3. /\ a \in 2 .. HeapEnd /\ a \notin DOMAIN blocks /\ DOMAIN blocks' = DOMAIN blocks \cup {a}
        /\ \A b \in DOMAIN blocks : blocks'[b] = blocks[b]
    BY <1>0, <2>1, AllocatedTypes
  <2> HIDE DEF a
  <2>4. ASSUME NEW n \in DOMAIN dl_handles, Owns(n) PROVE Owns(n)'
    <3> DEFINE p == SlotOf(n).buffer
    <3>1. p \in DOMAIN blocks
      BY <2>4 DEF Owns
    <3>2. ASSUME NEW k \in 1 .. DlBufferSize PROVE mem'[p + (k - 1)] = mem[p + (k - 1)]
      <4>1. p + (k - 1) \in DOMAIN mem /\ p + (k - 1) \in Words(p, blocks[p])
        BY <2>4, LibraryInBlock
      <4> HIDE DEF p
      <4>2. p + (k - 1) \notin Words(a, Length)
        BY <2>2, <3>1, <4>1
      <4>3. Len(image.file) = Length /\ Length <= Length /\ a \in Int
        BY <1>0, <2>3 DEF Length
      <4> QED
        BY <1>0, <2>1, <4>1, <4>2, <4>3, WrittenElsewhere
    <3> QED
      BY <1>0, <2>1, <2>3, <2>4, <3>1, <3>2, OwnsKept
  <2> QED
    BY <2>2, <2>4
<1>3. CASE image_load
  <2> DEFINE m == BufferPointerSize
             a == malloc(m)
  <2>1. /\ a # 0 /\ blocks' = Allocated(a, m) /\ exec' = a /\ mem' = Written(a, Zeroes(m))
        /\ pc = "image_load" /\ pc' = "segments" /\ hit' = hit /\ buffer' = buffer
    BY <1>3 DEF image_load
  <2>2. /\ BlocksApart'
        /\ \A b \in DOMAIN blocks : Words(a, m) \cap Words(b, blocks[b]) = {}
    BY <1>0, <2>1, AllocatedApart
  <2>3. /\ a \in 2 .. HeapEnd /\ a \notin DOMAIN blocks /\ DOMAIN blocks' = DOMAIN blocks \cup {a}
        /\ \A b \in DOMAIN blocks : blocks'[b] = blocks[b]
    BY <1>0, <2>1, AllocatedTypes
  <2>4. Len(Zeroes(m)) = m
    <3>1. Zeroes(m) = [k \in 1 .. m |-> Zeroes(m)[k]]
      BY DEF Zeroes
    <3> QED
      BY <1>0, <3>1, LengthOf
  <2> HIDE DEF a, m
  <2>5. m \in Nat
    BY <1>0 DEF m
  <2>6. ASSUME NEW n \in DOMAIN dl_handles, Owns(n) PROVE Owns(n)'
    <3> DEFINE p == SlotOf(n).buffer
    <3>1. p \in DOMAIN blocks /\ p # buffer
      BY <2>1, <2>6 DEF Owns
    <3>2. ASSUME NEW k \in 1 .. DlBufferSize PROVE mem'[p + (k - 1)] = mem[p + (k - 1)]
      <4>1. p + (k - 1) \in DOMAIN mem /\ p + (k - 1) \in Words(p, blocks[p])
        BY <2>6, LibraryInBlock
      <4> HIDE DEF p
      <4>2. p + (k - 1) \notin Words(a, m)
        BY <2>2, <3>1, <4>1
      <4>3. m <= m /\ a \in Int
        BY <1>0, <2>3, <2>5
      <4> QED
        BY <2>1, <2>4, <2>5, <4>1, <4>2, <4>3, WrittenElsewhere
    <3> QED
      BY <1>0, <2>1, <2>3, <2>6, <3>1, <3>2, OwnsKept
  <2> QED
    BY <2>2, <2>6
<1>4. ASSUME NEW x, NEW words, mem' = Written(x, words), hit' = hit \cup Hits(x, Len(words)),
             pc \in {"segments", "relocate"}, UNCHANGED <<pc, buffer, exec, blocks>>
      PROVE  BlocksApart' /\ \A n \in DOMAIN dl_handles : Owns(n) => Owns(n)'
  <2>1. BlocksApart'
    BY <1>0, <1>4 DEF BlocksApart
  <2>2. ASSUME NEW n \in DOMAIN dl_handles, Owns(n) PROVE Owns(n)'
    <3> DEFINE p == SlotOf(n).buffer
    <3>1. p \in DOMAIN blocks /\ p # buffer /\ p # exec
      BY <1>4, <2>2 DEF Owns
    <3>2. ASSUME hit' = {}, NEW k \in 1 .. DlBufferSize PROVE mem'[p + (k - 1)] = mem[p + (k - 1)]
      <4>1. /\ p \in Nat /\ p + (k - 1) \in DOMAIN mem
            /\ p + (k - 1) \in Words(p, blocks[p])
        BY <2>2, LibraryInBlock
      <4>2. blocks[p] \in Nat
        BY <3>1 DEF LoaderTypes
      <4> HIDE DEF p
      <4>3. p + (k - 1) \in Words(p - 1, blocks[p] + 1)
        <5>1. PICK q \in Nat : q = blocks[p]
          BY <4>2
        <5> QED
          BY <4>1, <5>1 DEF Words
      <4>4. p \notin Hits(x, Len(words))
        BY <1>4, <3>2
      <4>5. p + (k - 1) \notin Words(x, Len(words))
        BY <3>1, <4>3, <4>4 DEF Hits
      <4> QED
        BY <1>4, <4>1, <4>5 DEF Written
    <3> QED
      BY <1>0, <1>4, <2>2, <3>1, <3>2, OwnsKept
  <2> QED
    BY <2>1, <2>2
<1>5. CASE load_segment
  <2> DEFINE sg == image.segments[step]
             m == IF sg.load THEN sg.filesz ELSE 0
             w == [k \in 1 .. m |-> mem[buffer + sg.offset + (k - 1)]]
  <2>1. /\ mem' = Written(exec + sg.vaddr, w) /\ hit' = hit \cup Hits(exec + sg.vaddr, m)
        /\ pc = "segments" /\ UNCHANGED <<pc, buffer, exec, blocks>>
    BY <1>5 DEF load_segment
  <2>2. m \in Nat
    <3>1. Linked(image) /\ step \in 1 .. Len(image.segments)
      <4>1. Linked(image)
        BY <2>1, ImageFacts DEF LoaderTypes
      <4>2. Len(image.segments) \in Nat /\ step \in Nat \ {0} /\ step <= Len(image.segments)
        BY <1>5, <4>1 DEF load_segment, Linked, LoaderTypes
      <4> QED
        BY <4>1, <4>2
    <3> QED
      BY <3>1 DEF Linked
  <2> HIDE DEF m
  <2>3. w = [k \in 1 .. m |-> w[k]]
    OBVIOUS
  <2> HIDE DEF w
  <2>4. Len(w) = m
    BY <2>2, <2>3, LengthOf
  <2> QED
    BY <1>4, <2>1, <2>4
<1>6. CASE relocate
  <2> DEFINE r == image.rels[step]
             w == IF r.type = "JMP_SLOT" THEN <<resolve_symbol(r.sym)>> ELSE << >>
  <2>1. /\ mem' = Written(exec + r.offset, w) /\ hit' = hit \cup Hits(exec + r.offset, Len(w))
        /\ pc = "relocate" /\ UNCHANGED <<pc, buffer, exec, blocks>>
    BY <1>6 DEF relocate
  <2> HIDE DEF w
  <2> QED
    BY <1>4, <2>1
<1>7. CASE free_buffer
  <2>1. /\ blocks' = Freed(buffer) /\ UNCHANGED <<buffer, mem, hit>>
        /\ pc = "loaded" /\ pc' = "execute"
    BY <1>7 DEF free_buffer
  <2>2. DOMAIN blocks' = DOMAIN blocks \ {buffer} /\ \A b \in DOMAIN blocks' : blocks'[b] = blocks[b]
    BY <2>1 DEF Freed
  <2>3. BlocksApart'
    BY <1>0, <2>2 DEF BlocksApart
  <2>4. ASSUME NEW n \in DOMAIN dl_handles, Owns(n) PROVE Owns(n)'
    <3>1. SlotOf(n).buffer \in DOMAIN blocks /\ SlotOf(n).buffer # buffer
      BY <2>1, <2>4 DEF Owns
    <3> QED
      BY <1>0, <2>1, <2>2, <2>4, <3>1, OwnsKept
  <2> QED
    BY <2>3, <2>4
<1> QED
  BY <1>1, <1>2, <1>3, <1>5, <1>6, <1>7 DEF Load

\* Where the code overruns, the handles there are stay as they are.
LEMMA OverrunHandles ==
  ASSUME HandlesInv, pc' = "undefined",
         UNCHANGED <<hit, mem, blocks, dynamic_libraries, files, dl_handles, dl_shared>>
  PROVE  HandlesInv'
<1>1. \A n : SlotOf(n)' = SlotOf(n)
  BY DEF SlotOf
<1>2. \A n : Owns(n) => Owns(n)'
  BY <1>1 DEF Owns
<1> QED
  BY <1>1, <1>2 DEF HandlesInv, HandlesOwn, BlocksApart

\* The library dlopen reads has a slot, a block and a descriptor that no handle has.
LEMMA OpenHandles ==
  ASSUME LoaderTypes, HandlesInv, NEW length, dlopen(length)
  PROVE  HandlesInv'
<1> DEFINE D == DlBufferSize
           a == malloc(D)
           fd == fat16_open(length)
           H == DOMAIN dl_handles
<1>0. /\ D \in Nat \ {0} /\ HeapEnd \in Nat /\ DlSlots \in Nat /\ dl_count \in Nat /\ BlocksApart
      /\ DOMAIN dynamic_libraries = 0 .. DlSlots - 1 /\ dl_opens \in Nat
      /\ H \subseteq 0 .. dl_opens - 1 /\ DOMAIN mem = 1 .. HeapEnd /\ FileHandles \in Nat
  BY LoaderAssumption DEF LoaderTypes, HandlesInv
<1>16. PICK o : o = dl_opens
  OBVIOUS
<1>1. /\ pc = "idle" /\ UNCHANGED loadvars
      /\ a # 0 /\ dl_count < DlSlots /\ (length # NotFound => FreeFiles # {})
      /\ files' = [f \in DOMAIN files \cup ({fd} \ {-1}) |-> IF f = fd THEN o ELSE files[f]]
      /\ blocks' = Allocated(a, D)
      /\ mem' = Written(a, Library(o, length))
      /\ dynamic_libraries' = [d \in DOMAIN dynamic_libraries |->
           IF d = dl_count THEN [buffer |-> a, fd |-> fd] ELSE dynamic_libraries[d]]
      /\ dl_handles' = [n \in H \cup {o} |->
           IF n = o THEN [dl |-> dl_count, fd |-> fd, length |-> length] ELSE dl_handles[n]]
      /\ dl_shared' = (dl_shared \/ \E n \in H : dl_handles[n].dl = dl_count)
  BY <1>0, <1>16 DEF dlopen, DlopenWith, Overruns
<1>2. /\ BlocksApart'
      /\ \A b \in DOMAIN blocks : Words(a, D) \cap Words(b, blocks[b]) = {}
  BY <1>0, <1>1, AllocatedApart
<1>3. /\ a \in 2 .. HeapEnd /\ a \notin DOMAIN blocks /\ DOMAIN blocks' = DOMAIN blocks \cup {a}
      /\ blocks'[a] = D /\ \A b \in DOMAIN blocks : blocks'[b] = blocks[b]
  BY <1>0, <1>1, AllocatedTypes
<1>4. a + D - 1 <= HeapEnd
  <2>1. a + D <= HeapEnd
    BY <1>0, <1>1, MallocPlace
  <2> HIDE DEF a, D
  <2> QED
    BY <1>0, <1>3, <2>1
<1>5. IF length = NotFound THEN fd = -1 ELSE fd \in Nat /\ fd \notin DOMAIN files
  <2>1. CASE length = NotFound
    BY <2>1 DEF fat16_open
  <2>2. CASE length # NotFound
    <3>1. FreeFiles \subseteq Nat /\ FreeFiles # {} /\ FreeFiles \cap DOMAIN files = {}
      BY <1>0, <1>1, <2>2 DEF FreeFiles
    <3>2. \E f \in FreeFiles : \A g \in FreeFiles : f <= g
      BY <3>1, LeastExists
    <3>3. fd \in FreeFiles
      BY <2>2, <3>2, Zenon DEF fat16_open
    <3> QED
      BY <2>2, <3>1, <3>3
  <2> QED
    BY <2>1, <2>2
<1>6. Len(Library(o, length)) = D
  <2>1. Library(o, length) = [k \in 1 .. D |-> Library(o, length)[k]]
    BY DEF Library
  <2> QED
    BY <1>0, <2>1, LengthOf
<1>7. \A k \in 1 .. D : Library(o, length)[k] = LibraryWord(o, length, k)
  BY DEF Library
<1> SUFFICES ASSUME ~dl_shared' PROVE HandlesOwn'
  BY <1>2 DEF HandlesInv
<1>8. HandlesOwn /\ \A n \in H : dl_handles[n].dl # dl_count
  BY <1>1 DEF HandlesInv
<1>9. o \notin H /\ DOMAIN dl_handles' = H \cup {o}
  BY <1>0, <1>1, <1>16
<1> HIDE DEF a, fd, D
\* The new library.
<1>10. /\ dl_handles'[o] = [dl |-> dl_count, fd |-> fd, length |-> length]
       /\ SlotOf(o)' = [buffer |-> a, fd |-> fd]
  <2>1. dl_count \in DOMAIN dynamic_libraries
    BY <1>0, <1>1
  <2>2. dl_handles'[o] = [dl |-> dl_count, fd |-> fd, length |-> length]
    BY <1>1, <1>9
  <2>3. dynamic_libraries'[dl_count] = [buffer |-> a, fd |-> fd]
    BY <1>1, <2>1
  <2>4. dynamic_libraries'[dl_handles'[o].dl] = [buffer |-> a, fd |-> fd]
    BY <2>2, <2>3
  <2> QED
    BY <2>2, <2>4 DEF SlotOf
<1>11. Owns(o)'
  <2>1. ASSUME NEW k \in 1 .. D PROVE mem'[a + (k - 1)] = LibraryWord(o, length, k)
    <3> DEFINE w == Library(o, length)
    <3>1. Len(w) = D /\ w[k] = LibraryWord(o, length, k) /\ mem' = Written(a, w)
      BY <1>1, <1>6, <1>7, <2>1
    <3> HIDE DEF w
    <3>2. a \in Int /\ Len(w) \in Nat /\ k \in 1 .. Len(w)
      BY <1>0, <1>3, <2>1, <3>1
    <3>3. a + (k - 1) \in DOMAIN mem
      BY <1>0, <1>3, <1>4, <2>1
    <3> QED
      BY <3>1, <3>2, <3>3, WordsWritten
  <2>2. IF length = NotFound THEN fd = -1 ELSE fd \in DOMAIN files' /\ files'[fd] = o
    BY <1>1, <1>5
  <2>3. /\ dl_handles'[o].dl = dl_count /\ dl_handles'[o].fd = fd
        /\ dl_handles'[o].length = length
        /\ SlotOf(o)'.buffer = a /\ SlotOf(o)'.fd = fd
    BY <1>10
  <2>4. pc' = "idle" /\ dl_count \in 0 .. DlSlots - 1
    BY <1>0, <1>1 DEF loadvars
  <2> QED
    BY <1>3, <2>1, <2>2, <2>3, <2>4 DEF Owns, D
\* The libraries there were.
<1>12. ASSUME NEW n \in H
       PROVE  dl_handles'[n] = dl_handles[n] /\ SlotOf(n)' = SlotOf(n) /\ Owns(n)
  <2>1. Owns(n)
    BY <1>8, <1>12 DEF HandlesOwn
  <2>2. n # o /\ dl_handles'[n] = dl_handles[n]
    BY <1>1, <1>9, <1>12
  <2>3. dl_handles[n].dl \in DOMAIN dynamic_libraries /\ dl_handles[n].dl # dl_count
    BY <1>0, <1>8, <1>12, <2>1 DEF Owns
  <2>4. dynamic_libraries'[dl_handles[n].dl] = dynamic_libraries[dl_handles[n].dl]
    BY <1>1, <2>3
  <2> QED
    BY <2>1, <2>2, <2>4 DEF SlotOf
<1>13. ASSUME NEW n \in H PROVE Owns(n)'
  <2> DEFINE p == SlotOf(n).buffer
             f == dl_handles[n].fd
  <2>1. Owns(n) /\ dl_handles'[n] = dl_handles[n] /\ SlotOf(n)' = SlotOf(n)
    BY <1>12, <1>13
  <2>2. p \in DOMAIN blocks /\ blocks[p] = D
    BY <2>1 DEF Owns, D
  <2>3. ASSUME NEW k \in 1 .. D PROVE mem'[p + (k - 1)] = mem[p + (k - 1)]
    <3>1. p + (k - 1) \in DOMAIN mem /\ p + (k - 1) \in Words(p, blocks[p])
      BY <1>13, <2>1, <2>3, LibraryInBlock DEF D
    <3> HIDE DEF p
    <3>2. p + (k - 1) \notin Words(a, D)
      BY <1>2, <2>2, <3>1
    <3> DEFINE w == Library(o, length)
    <3>3. Len(w) = D /\ mem' = Written(a, w)
      BY <1>1, <1>6
    <3> HIDE DEF w
    <3>4. Len(w) <= D /\ Len(w) \in Nat /\ D \in Nat /\ a \in Int
      BY <1>0, <1>3, <3>3
    <3> QED
      BY <3>1, <3>2, <3>3, <3>4, WrittenElsewhere
  <2>4. ASSUME dl_handles[n].length # NotFound PROVE f \in DOMAIN files' /\ files'[f] = n
    <3>1. f \in DOMAIN files /\ files[f] = n
      BY <2>1, <2>4 DEF Owns
    <3>2. f \in Nat
      BY <1>8, <3>1 DEF HandlesOwn
    <3>3. f # fd
      BY <1>5, <3>1, <3>2
    <3> QED
      BY <1>1, <3>1, <3>3
  <2>5. pc' = "idle" /\ hit' = hit /\ p \in DOMAIN blocks' /\ blocks'[p] = D
    BY <1>1, <1>3, <2>2 DEF loadvars
  <2> QED
    BY <2>1, <2>3, <2>4, <2>5 DEF Owns, D
<1>14. ASSUME NEW n \in H \cup {o}, NEW m \in H \cup {o}, n # m
       PROVE  dl_handles'[n].dl # dl_handles'[m].dl /\ SlotOf(n)'.buffer # SlotOf(m)'.buffer
  <2>1. ASSUME NEW x \in H
        PROVE  /\ dl_handles'[x].dl # dl_count /\ SlotOf(x)'.buffer # a
               /\ dl_handles'[x] = dl_handles[x] /\ SlotOf(x)' = SlotOf(x)
    <3>1. SlotOf(x).buffer \in DOMAIN blocks
      BY <1>12, <2>1 DEF Owns
    <3> QED
      BY <1>3, <1>8, <1>12, <2>1, <3>1
  <2>2. dl_handles'[o].dl = dl_count /\ SlotOf(o)'.buffer = a
    BY <1>10
  <2>3. CASE n \in H /\ m \in H
    <3>1. dl_handles[n].dl # dl_handles[m].dl /\ SlotOf(n).buffer # SlotOf(m).buffer
      BY <1>8, <1>14, <2>3 DEF HandlesOwn
    <3> QED
      BY <2>1, <2>3, <3>1
  <2>4. CASE n = o \/ m = o
    BY <1>14, <2>1, <2>2, <2>4
  <2> QED
    BY <1>14, <2>3, <2>4
<1>15. ASSUME NEW f \in DOMAIN files'
       PROVE  f \in Nat /\ files'[f] \in H \cup {o} /\ dl_handles'[files'[f]].fd = f
  <2>1. CASE f = fd
    <3>1. f # -1 /\ files'[f] = o
      <4>1. files'[f] = o
        BY <1>1, <1>15, <2>1
      <4>2. fd = -1 => -1 \notin DOMAIN files'
        <5>1. -1 \notin DOMAIN files
          BY <1>8 DEF HandlesOwn
        <5> QED
          BY <1>1, <5>1
      <4> QED
        BY <1>15, <2>1, <4>1, <4>2
    <3> QED
      BY <1>5, <1>10, <2>1, <3>1
  <2>2. CASE f # fd
    <3>1. f \in DOMAIN files /\ files'[f] = files[f]
      BY <1>1, <1>15, <2>2
    <3>2. f \in Nat /\ files[f] \in H /\ dl_handles[files[f]].fd = f
      BY <1>8, <3>1 DEF HandlesOwn
    <3> QED
      BY <1>12, <3>1, <3>2
  <2> QED
    BY <2>1, <2>2
<1> QED
  BY <1>9, <1>11, <1>13, <1>14, <1>15 DEF HandlesOwn

\* dlclose frees the block and the descriptor of its own handle.
LEMMA CloseHandles ==
  ASSUME LoaderTypes, HandlesInv, NEW n \in DOMAIN dl_handles, dlclose(n)
  PROVE  HandlesInv'
<1> DEFINE H == DOMAIN dl_handles
           p == SlotOf(n).buffer
<1>1. /\ pc = "idle" /\ UNCHANGED <<loadvars, mem, dynamic_libraries, dl_shared>>
      /\ blocks' = Freed(p)
      /\ files' = [f \in DOMAIN files \ {SlotOf(n).fd} |-> files[f]]
      /\ dl_handles' = [m \in H \ {n} |-> dl_handles[m]]
  BY DEF dlclose
<1>2. DOMAIN blocks' = DOMAIN blocks \ {p} /\ \A b \in DOMAIN blocks' : blocks'[b] = blocks[b]
  BY <1>1 DEF Freed
<1>3. BlocksApart'
  BY <1>2 DEF HandlesInv, BlocksApart
<1> SUFFICES ASSUME ~dl_shared' PROVE HandlesOwn'
  BY <1>3 DEF HandlesInv
<1>4. HandlesOwn /\ Owns(n)
  BY <1>1 DEF HandlesInv, HandlesOwn
<1>5. ASSUME NEW m \in H \ {n}
      PROVE  dl_handles'[m] = dl_handles[m] /\ SlotOf(m)' = SlotOf(m) /\ Owns(m) /\ SlotOf(m).buffer # p
  BY <1>1, <1>4, <1>5 DEF HandlesOwn, SlotOf
<1>6. SlotOf(n).fd = dl_handles[n].fd
  BY <1>4 DEF Owns
<1>7. ASSUME NEW m \in H \ {n} PROVE Owns(m)'
  <2> DEFINE f == dl_handles[m].fd
  <2>1. Owns(m) /\ dl_handles'[m] = dl_handles[m] /\ SlotOf(m)' = SlotOf(m) /\ SlotOf(m).buffer # p
    BY <1>5, <1>7
  <2>2. ASSUME dl_handles[m].length # NotFound PROVE f \in DOMAIN files' /\ files'[f] = m
    <3>1. f \in DOMAIN files /\ files[f] = m
      BY <2>1, <2>2 DEF Owns
    <3>2. f # dl_handles[n].fd
      <4>1. f \in Nat
        BY <1>4, <3>1 DEF HandlesOwn
      <4>2. dl_handles[n].fd = -1 \/ files[dl_handles[n].fd] = n
        BY <1>4 DEF Owns
      <4> QED
        BY <1>7, <3>1, <4>1, <4>2
    <3> QED
      BY <1>1, <1>6, <3>1, <3>2
  <2>3. pc' = "idle" /\ hit' = hit /\ mem' = mem
    BY <1>1 DEF loadvars
  <2>4. SlotOf(m).buffer \in DOMAIN blocks' /\ blocks'[SlotOf(m).buffer] = blocks[SlotOf(m).buffer]
    BY <1>2, <2>1 DEF Owns
  <2> QED
    BY <2>1, <2>2, <2>3, <2>4 DEF Owns
<1>8. ASSUME NEW f \in DOMAIN files'
      PROVE  f \in Nat /\ files'[f] \in H \ {n} /\ dl_handles'[files'[f]].fd = f
  <2>1. f \in DOMAIN files /\ f # dl_handles[n].fd /\ files'[f] = files[f]
    BY <1>1, <1>6, <1>8
  <2>2. f \in Nat /\ files[f] \in H /\ dl_handles[files[f]].fd = f
    BY <1>4, <2>1 DEF HandlesOwn
  <2> QED
    BY <1>5, <2>1, <2>2
<1>9. DOMAIN dl_handles' = H \ {n}
  BY <1>1
<1>10. \A x, y \in H \ {n} : x # y =>
         dl_handles'[x].dl # dl_handles'[y].dl /\ SlotOf(x)'.buffer # SlotOf(y)'.buffer
  BY <1>4, <1>5 DEF HandlesOwn
<1> QED
  BY <1>7, <1>8, <1>9, <1>10 DEF HandlesOwn

\* Every step keeps the invariant.
LEMMA StepLoaderInv == LoaderInv /\ [LoaderNext]_loadervars => LoaderInv'
<1> SUFFICES ASSUME LoaderInv, [LoaderNext]_loadervars PROVE LoaderInv'
  OBVIOUS
<1>0. LoaderTypes /\ HandlesInv
  BY DEF LoaderInv
<1>1. CASE Load
  <2>1. LoaderTypes'
    BY <1>0, <1>1, LoadTypes
  <2>2. HandlesInv'
    BY <1>0, <1>1, LoadHandles
  <2>3. ASSUME dl_lifo', pc' # "undefined" PROVE LoadStacked'
    <3>1. dl_lifo' = dl_lifo /\ pc # "undefined" /\ ~read_program_to_null
      BY <1>1, <2>3 DEF Load, init_symtable, read_program, read_program_to_null, image_load_fails,
                  image_load, load_segment, segments_done, relocate, find_main, free_buffer, dlvars
    <3>2. LoadStacked
      BY <2>3, <3>1 DEF LoaderInv
    <3> QED
      BY <1>0, <1>1, <3>1, <3>2, SameMemoryStacked, ReadStacked, ImageLoadStacked, SegmentStacked,
         SegmentsDoneStacked, RelocateStacked, FinishStacked DEF Load
  <2> QED
    BY <2>1, <2>2, <2>3 DEF LoaderInv
<1>2. CASE SharedObjects
  <2>1. LoaderTypes'
    BY <1>0, <1>2, LibraryTypes
  <2>2. ASSUME NEW length, dlopen_overruns(length) PROVE pc' = "undefined" /\ HandlesInv'
    BY <1>0, <2>2, OverrunHandles DEF dlopen_overruns
  <2>3. ASSUME NEW n, dlclose_again(n) PROVE pc' = "undefined" /\ HandlesInv'
    BY <1>0, <2>3, OverrunHandles DEF dlclose_again, dlvars
  <2>4. ASSUME NEW length, dlopen(length)
        PROVE  HandlesInv' /\ (dl_lifo' => LoadStacked')
    <3>1. dl_lifo' = dl_lifo /\ pc = "idle"
      BY <2>4 DEF dlopen, DlopenWith
    <3>2. HandlesInv'
      BY <1>0, <2>4, OpenHandles
    <3>3. ASSUME dl_lifo' PROVE LoadStacked'
      <4>1. LoadStacked
        BY <3>1, <3>3 DEF LoaderInv
      <4> QED
        BY <1>0, <2>4, <4>1, OpenStacked
    <3> QED
      BY <3>2, <3>3
  <2>5. ASSUME NEW n \in DOMAIN dl_handles, dlclose(n)
        PROVE  HandlesInv' /\ (dl_lifo' => LoadStacked')
    <3>1. dl_lifo' = (dl_lifo /\ dl_handles[n].dl = dl_count - 1) /\ pc = "idle"
      BY <2>5 DEF dlclose
    <3>2. HandlesInv'
      BY <1>0, <2>5, CloseHandles
    <3>3. ASSUME dl_lifo' PROVE LoadStacked'
      <4>1. LoadStacked /\ dl_handles[n].dl = dl_count - 1
        BY <3>1, <3>3 DEF LoaderInv
      <4> QED
        BY <1>0, <2>5, <4>1, CloseStacked
    <3> QED
      BY <3>2, <3>3
  <2> QED
    BY <1>2, <2>1, <2>2, <2>3, <2>4, <2>5 DEF SharedObjects, LoaderInv
<1>3. CASE UNCHANGED loadervars
  <2> USE <1>3 DEF loadervars, loadvars, dlvars
  <2>1. LoaderTypes'
    BY <1>0 DEF LoaderTypes
  <2>8. HandlesInv'
    BY <1>0 DEF HandlesInv, HandlesOwn, Owns, SlotOf, BlocksApart
  <2>2. LibrariesStacked' = LibrariesStacked
    BY DEF LibrariesStacked, Top
  <2>3. FileInBuffer' = FileInBuffer /\ InUse' = InUse /\ Length' = Length
    BY DEF FileInBuffer, Top, InUse, Length
  <2>4. ExecBehindBlocks' = ExecBehindBlocks
    BY DEF ExecBehindBlocks, Top
  <2>5. Copied(step)' = Copied(step)
    BY DEF Copied, Loads, SegmentAt, WordOfFile
  <2>6. /\ Relocated(step)' = Relocated(step)
        /\ Relocated(Len(image.rels) + 1)' = Relocated(Len(image.rels) + 1)
    BY DEF Relocated, Slots, Loads, SegmentAt, WordOfFile, resolve_symbol
  <2>7. LoadStacked' = LoadStacked
    BY <2>2, <2>3, <2>4, <2>5, <2>6 DEF LoadStacked
  <2> QED
    BY <2>1, <2>7, <2>8 DEF LoaderInv
<1> QED
  BY <1>1, <1>2, <1>3 DEF LoaderNext

\* The stack of blocks and the progress of the load are kept by every step of the
\* loader and of dlopen and dlclose.
THEOREM LoaderInvariant == LoaderSpec => []LoaderInv
BY InitLoaderInv, StepLoaderInv, PTL DEF LoaderSpec

\* The blocks malloc grants lie in the heap, dl_count is the number of handles dlopen
\* has returned and dlclose has not taken back, and the entry that find_sym returns is
\* in or behind the heap.
THEOREM LoaderTypeOK == LoaderSpec => []TypeOK
<1>1. LoaderInv => TypeOK
  BY DEF LoaderInv, LoaderTypes, TypeOK
<1> QED
  BY <1>1, LoaderInvariant, PTL

\* image_load overflows its block of one pointer into no block that is in use.
THEOREM LoaderHitsNoBlock == LoaderSpec => []LoadHitsNoBlock
<1>1. LoaderInv => LoadHitsNoBlock
  BY DEF LoaderInv, LoaderTypes, LoadStacked, LoadHitsNoBlock
<1> QED
  BY <1>1, LoaderInvariant, PTL

\* The program kernel_main enters at main is the one of the file, with every JMP_SLOT
\* relocated and every GLOB_DAT word as it was.
THEOREM LoaderProgramIntact == LoaderSpec => []ProgramIntact
<1>1. LoaderInv => ProgramIntact
  <2> SUFFICES ASSUME LoaderInv, pc = "execute", entry # 0, dl_lifo
               PROVE  /\ entry = exec + image.main
                      /\ \A v \in Extent : exec + v <= HeapEnd => mem[exec + v] = ExpectedWord(v)
    BY DEF ProgramIntact
  <2> DEFINE n == Len(image.rels) + 1
  <2>1. entry = exec + image.main /\ Relocated(n)
    BY DEF LoaderInv, LoadStacked
  <2>2. ASSUME NEW v \in Extent, exec + v <= HeapEnd PROVE mem[exec + v] = ExpectedWord(v)
    <3> DEFINE r == {k \in 1 .. Len(image.rels) :
                       image.rels[k].type = "JMP_SLOT" /\ image.rels[k].offset = v}
               k == CHOOSE i \in r : TRUE
               holds(i) == /\ image.segments[i].load
                           /\ v \in Words(image.segments[i].vaddr, image.segments[i].filesz)
               s == CHOOSE i \in 1 .. Len(image.segments) : holds(i)
    <3>1. ExpectedWord(v) = IF r # {} THEN resolve_symbol(image.rels[k].sym)
                            ELSE image.file[image.segments[s].offset + (v - image.segments[s].vaddr) + 1]
      BY DEF ExpectedWord
    <3>2. CASE r # {}
      <4>1. k \in r
        BY <3>2
      <4> HIDE DEF k
      <4>2. k \in Slots(n) /\ image.rels[k].offset = v
        <5>1. k \in 1 .. Len(image.rels) => k < n
          BY LoaderAssumption
        <5> QED
          BY <4>1, <5>1 DEF Slots
      <4> HIDE DEF n
      <4> QED
        BY <2>1, <2>2, <3>1, <3>2, <4>2 DEF Relocated
    <3>3. CASE r = {}
      <4>1. \E i \in 1 .. Len(image.segments) : holds(i)
        BY <2>2 DEF Extent
      <4>2. s \in 1 .. Len(image.segments) /\ holds(s)
        BY <4>1
      <4> HIDE DEF s
      <4>3. s \in Loads /\ v \in Words(SegmentAt(s).vaddr, SegmentAt(s).filesz)
        BY <4>2 DEF Loads, SegmentAt
      <4>4. \A i \in Slots(n) : image.rels[i].offset # v
        BY <3>3 DEF Slots
      <4>5. mem[exec + v] = WordOfFile(s, v)
        BY <2>1, <2>2, <4>3, <4>4 DEF Relocated
      <4> QED
        BY <3>1, <3>3, <4>5 DEF WordOfFile, SegmentAt
    <3> QED
      BY <3>2, <3>3
  <2> QED
    BY <2>1, <2>2
<1> QED
  BY <1>1, LoaderInvariant, PTL

\* A handle leads dlsym to the words of its library, or to zeroes when the file could
\* not be opened, its slot holds the library's own descriptor, and every descriptor
\* belongs to a handle, in any order of dlopen and dlclose in which no two callers
\* hold the same handle.
THEOREM LoaderHandles == LoaderSpec => []HandlesLeadToTheirLibrary
<1>1. LoaderInv => HandlesLeadToTheirLibrary
  <2> SUFFICES ASSUME LoaderInv, ~dl_shared, hit = {} PROVE HandlesLeadToTheirLibrary
    BY DEF HandlesLeadToTheirLibrary
  <2>1. HandlesOwn
    BY DEF LoaderInv, HandlesInv
  <2>2. ASSUME NEW n \in DOMAIN dl_handles
        PROVE  /\ SlotOf(n).buffer \in DOMAIN blocks
               /\ dlsym(n) = Library(n, dl_handles[n].length)
               /\ dl_handles[n].length # NotFound =>
                    SlotOf(n).fd \in DOMAIN files /\ files[SlotOf(n).fd] = n
    <3>1. Owns(n)
      BY <2>1, <2>2 DEF HandlesOwn
    <3>2. \A k \in 1 .. DlBufferSize :
            mem[SlotOf(n).buffer + (k - 1)] = LibraryWord(n, dl_handles[n].length, k)
      BY <3>1 DEF Owns
    <3> QED
      BY <3>1, <3>2 DEF Owns, dlsym, Library
  <2>3. \A f \in DOMAIN files : files[f] \in DOMAIN dl_handles
    BY <2>1 DEF HandlesOwn
  <2> QED
    BY <2>2, <2>3 DEF HandlesLeadToTheirLibrary
<1> QED
  BY <1>1, LoaderInvariant, PTL
=============================================================================
