------------------------------- MODULE Loader -------------------------------
(***************************************************************************)
(* Running a program, kernel/src/exec/elf: the symbol table, image_load    *)
(* with the buffer kernel_main gives it, and the shared objects of         *)
(* elf_so.c, on one heap.                                                  *)
(*                                                                         *)
(* Memory is a function from word addresses to words.  Of the heap there   *)
(* are only the blocks in use, each with a header in front: malloc takes   *)
(* the lowest place that is large enough (Heap shows that it does).  Of    *)
(* the FAT16 driver there are the descriptors the libraries' files have.   *)
(***************************************************************************)
EXTENDS Integers, Sequences, FiniteSets

CONSTANTS
  Images,            \* programs: words of the file, segments, relocations, main
  HeapEnd,           \* the heap is 1 .. HeapEnd
  Symbols,           \* the names init_symtable registers, in its order
  BufferPointerSize, \* sizeof(buffer) in kernel_main: 1 word
  DlBufferSize,      \* 14112
  DlSlots,           \* 16
  FileHandles,       \* HANDLE_COUNT of the FAT16 driver: 16
  LibraryLengths,    \* words of the files there are
  MaxOpens           \* bound: calls of dlopen

Words(a, n) == a .. a + n - 1

\* What image_load takes for granted of an ELF file and a linker sees to: the segments
\* lie in the file and apart from each other in memory, no slot is relocated twice, and
\* main is no further from the beginning than the heap is large.
Linked(i) ==
  LET loads == {s \in 1 .. Len(i.segments) : i.segments[s].load}
      slots == {k \in 1 .. Len(i.rels) : i.rels[k].type = "JMP_SLOT"}
      extent(s) == Words(i.segments[s].vaddr, i.segments[s].filesz)
  IN  /\ Len(i.segments) \in Nat /\ Len(i.rels) \in Nat
      /\ \A s \in 1 .. Len(i.segments) : i.segments[s].vaddr \in Nat
      /\ \A s \in loads :
           /\ i.segments[s].offset \in Nat /\ i.segments[s].filesz \in Nat
           /\ i.segments[s].offset + i.segments[s].filesz <= Len(i.file)
      /\ \A s, t \in loads : s # t => extent(s) \cap extent(t) = {}
      /\ \A k \in 1 .. Len(i.rels) : i.rels[k].offset \in Nat
      /\ \A k, m \in slots : k # m => i.rels[k].offset # i.rels[m].offset
      /\ i.main \in -1 .. HeapEnd

ASSUME LoaderAssumption ==
  /\ HeapEnd \in Nat \ {0} /\ BufferPointerSize \in Nat \ {0}
  /\ DlBufferSize \in Nat \ {0} /\ DlSlots \in Nat \ {0} /\ MaxOpens \in Nat
  /\ FileHandles \in Nat /\ LibraryLengths \subseteq Nat
  /\ \A i \in Images : Len(i.file) \in Nat \ {0} /\ (i.elf => Linked(i))

VARIABLES
  pc,
  image,             \* the program on the disk
  mem,
  blocks,            \* the size of every block in use, by its address
  symtable,
  buffer, exec, entry,
  step,              \* the segment or relocation that is next
  hit,               \* the blocks besides exec that the load has written to
  dl_count,
  dynamic_libraries,
  files,             \* the descriptors in use, and the dlopen each was opened by
  dl_opens,          \* how often dlopen was called
  dl_handles,        \* what its callers hold, by the number of the call
  dl_lifo,           \* so far every dlclose was of the handle opened last
  dl_shared          \* dlopen has returned a handle that another caller still held

loadvars == <<pc, image, symtable, buffer, exec, entry, step, hit>>
dlvars == <<dl_count, dynamic_libraries, files, dl_opens, dl_handles, dl_lifo, dl_shared>>
loadervars == <<loadvars, mem, blocks, dlvars>>

LoaderInit ==
  /\ pc = "idle"
  /\ image \in Images
  /\ mem = [a \in 1 .. HeapEnd |-> <<"junk">>]
  /\ blocks = [a \in {} |-> 0]
  /\ symtable = << >>
  /\ buffer = 0 /\ exec = 0 /\ entry = 0 /\ step = 1 /\ hit = {}
  /\ dl_count = 0
  /\ dynamic_libraries = [d \in 0 .. DlSlots - 1 |-> [buffer |-> 0, fd |-> 0]]
  /\ files = [f \in {} |-> 0]
  /\ dl_opens = 0 /\ dl_handles = [n \in {} |-> 0]
  /\ dl_lifo = TRUE /\ dl_shared = FALSE

----------------------------------------------------------------------------
(* The heap.                                                               *)
InUse == UNION {Words(a - 1, blocks[a] + 1) : a \in DOMAIN blocks}

\* Mistaken places: as if the size of a chunk included its header.
PlacesWithHeader(n) == {a \in 2 .. HeapEnd - n + 2 : Words(a - 1, n + 1) \cap InUse = {}}

\* A header, n words, and at least one word more: malloc wants a larger chunk.  (A word
\* that is left over alone, which the block gets too, stays outside it here: no block
\* can be put there.)
Places(n) == {a \in 2 .. HeapEnd - n : Words(a - 1, n + 2) \cap InUse = {}}

\* A mistaken allocator: the highest place.
malloc_last_fit(n) ==
  IF Places(n) = {} THEN 0 ELSE CHOOSE a \in Places(n) : \A b \in Places(n) : a >= b

\* 0 when nothing fits.
malloc(n) ==
  IF Places(n) = {} THEN 0 ELSE CHOOSE a \in Places(n) : \A b \in Places(n) : a <= b

Allocated(a, n) == [b \in DOMAIN blocks \cup {a} |-> IF b = a THEN n ELSE blocks[b]]

Freed(a) == [b \in DOMAIN blocks \ {a} |-> blocks[b]]

\* memmove and memset; what lies behind the heap is not seen.
Written(a, words) ==
  [b \in DOMAIN mem |-> IF b \in Words(a, Len(words)) THEN words[b - a + 1] ELSE mem[b]]

Zero == <<"zero">>
Zeroes(n) == [k \in 1 .. n |-> Zero]

----------------------------------------------------------------------------
(* symtable.c.                                                             *)
\* The block of the table lies in front of the blocks of this module.
init_symtable ==
  /\ pc = "idle" /\ symtable = << >>
  /\ symtable' = Symbols
  /\ UNCHANGED <<pc, image, buffer, exec, entry, step, hit, mem, blocks, dlvars>>

\* The address registered first under the name: where it is in the table, here; 0
\* for a name nobody registered.
resolve_symbol(name) ==
  LET at == {k \in 1 .. Len(symtable) : symtable[k] = name}
  IN  IF at = {} THEN Zero ELSE <<"address", CHOOSE k \in at : \A m \in at : k <= m>>

----------------------------------------------------------------------------
(* kernel_main reads the program, loads it with the size of a pointer for  *)
(* the size of the program, and frees the buffer.                          *)
Length == Len(image.file)

read_program ==
  /\ pc = "idle" /\ symtable # << >>
  /\ buffer' = malloc(Length)
  /\ buffer' # 0
  /\ blocks' = Allocated(buffer', Length)
  /\ mem' = Written(buffer', image.file)
  /\ pc' = "image_load"
  /\ UNCHANGED <<image, symtable, exec, entry, step, hit, dlvars>>

\* Without room for the file the null pointer is used.
read_program_to_null ==
  /\ pc = "idle" /\ symtable # << >>
  /\ malloc(Length) = 0
  /\ pc' = "undefined"
  /\ UNCHANGED <<image, symtable, buffer, exec, entry, step, hit, mem, blocks, dlvars>>

\* Not an ELF file, or no memory: 0 is returned and the program entered there.
image_load_fails ==
  /\ pc = "image_load"
  /\ ~(image.elf /\ malloc(BufferPointerSize) # 0)
  /\ pc' = "loaded"
  /\ UNCHANGED <<image, symtable, buffer, exec, entry, step, hit, mem, blocks, dlvars>>

image_load ==
  /\ pc = "image_load"
  /\ image.elf
  /\ exec' = malloc(BufferPointerSize)
  /\ exec' # 0
  /\ blocks' = Allocated(exec', BufferPointerSize)
  /\ mem' = Written(exec', Zeroes(BufferPointerSize))
  /\ step' = 1
  /\ pc' = "segments"
  /\ UNCHANGED <<image, symtable, buffer, entry, hit, dlvars>>

\* The blocks the words belong to, headers included, besides exec's own.
Hits(a, n) ==
  {b \in DOMAIN blocks \ {exec} : Words(b - 1, blocks[b] + 1) \cap Words(a, n) # {}}

load_segment ==
  /\ pc = "segments" /\ step <= Len(image.segments)
  /\ LET s == image.segments[step]
         copied == IF s.load THEN s.filesz ELSE 0
     IN  /\ mem' = Written(exec + s.vaddr,
                           [k \in 1 .. copied |-> mem[buffer + s.offset + k - 1]])
         /\ hit' = hit \cup Hits(exec + s.vaddr, copied)
  /\ step' = step + 1
  /\ UNCHANGED <<pc, image, symtable, buffer, exec, entry, blocks, dlvars>>

segments_done ==
  /\ pc = "segments" /\ step > Len(image.segments)
  /\ step' = 1
  /\ pc' = "relocate"
  /\ UNCHANGED <<image, symtable, buffer, exec, entry, hit, mem, blocks, dlvars>>

\* A mistaken relocation: of every type.
relocate_all ==
  /\ pc = "relocate" /\ step <= Len(image.rels)
  /\ LET r == image.rels[step]
     IN  /\ mem' = Written(exec + r.offset, <<resolve_symbol(r.sym)>>)
         /\ hit' = hit \cup Hits(exec + r.offset, 1)
  /\ step' = step + 1
  /\ UNCHANGED <<pc, image, symtable, buffer, exec, entry, blocks, dlvars>>

\* A GLOB_DAT relocation is passed over.
relocate ==
  /\ pc = "relocate" /\ step <= Len(image.rels)
  /\ LET r == image.rels[step]
         words == IF r.type = "JMP_SLOT" THEN <<resolve_symbol(r.sym)>> ELSE << >>
     IN  /\ mem' = Written(exec + r.offset, words)
         /\ hit' = hit \cup Hits(exec + r.offset, Len(words))
  /\ step' = step + 1
  /\ UNCHANGED <<pc, image, symtable, buffer, exec, entry, blocks, dlvars>>

\* find_sym("main"): 0 when the symbol table does not have it.
find_main ==
  /\ pc = "relocate" /\ step > Len(image.rels)
  /\ entry' = IF image.main = -1 THEN 0 ELSE exec + image.main
  /\ pc' = "loaded"
  /\ UNCHANGED <<image, symtable, buffer, exec, step, hit, mem, blocks, dlvars>>

free_buffer ==
  /\ pc = "loaded"
  /\ blocks' = Freed(buffer)
  /\ pc' = "execute"
  /\ UNCHANGED <<image, symtable, buffer, exec, entry, step, hit, mem, dlvars>>

Load ==
  \/ init_symtable
  \/ read_program \/ read_program_to_null
  \/ image_load_fails \/ image_load \/ load_segment \/ segments_done
  \/ relocate \/ find_main \/ free_buffer

----------------------------------------------------------------------------
(* elf_so.c.  A library is told from the others by the number of the       *)
(* dlopen that opens it.                                                   *)
NotFound == -1

\* The buffer after memset and fat16_read: the file as far as it goes, zeroes behind
\* it, and nothing but zeroes when the file could not be opened.
LibraryWord(n, length, k) == IF k <= length THEN <<"library", n>> ELSE Zero
Library(n, length) == [k \in 1 .. DlBufferSize |-> LibraryWord(n, length, k)]

FreeFiles == (0 .. FileHandles - 1) \ DOMAIN files

\* fat16_open(path, 'r') for a file in a subdirectory: the lowest descriptor, or -1.
fat16_open(length) ==
  IF length = NotFound THEN -1 ELSE CHOOSE f \in FreeFiles : \A g \in FreeFiles : f <= g

\* dlopen tests nothing.  Without room in the heap it clears memory from the null
\* pointer on, with sixteen libraries open it writes behind dynamic_libraries, and with
\* no descriptor left fat16_open writes behind handles.
Overruns(length) ==
  \/ malloc(DlBufferSize) = 0
  \/ dl_count >= DlSlots
  \/ length # NotFound /\ FreeFiles = {}

DlopenWith(slot, length) ==
  /\ pc = "idle" /\ dl_opens < MaxOpens /\ ~Overruns(length)
  /\ LET fd == fat16_open(length)
         a == malloc(DlBufferSize)
     IN  /\ files' = [f \in DOMAIN files \cup ({fd} \ {-1}) |->
                        IF f = fd THEN dl_opens ELSE files[f]]
         /\ blocks' = Allocated(a, DlBufferSize)
         /\ mem' = Written(a, Library(dl_opens, length))
         /\ dynamic_libraries' = [d \in DOMAIN dynamic_libraries |->
              IF d = slot THEN [buffer |-> a, fd |-> fd] ELSE dynamic_libraries[d]]
         /\ dl_handles' = [n \in DOMAIN dl_handles \cup {dl_opens} |->
              IF n = dl_opens THEN [dl |-> dl_count, fd |-> fd, length |-> length]
              ELSE dl_handles[n]]
  /\ dl_count' = dl_count + 1
  /\ dl_opens' = dl_opens + 1
  /\ dl_shared' = (dl_shared \/ \E n \in DOMAIN dl_handles : dl_handles[n].dl = dl_count)
  /\ UNCHANGED <<loadvars, dl_lifo>>

\* A mistaken dlopen: the slot behind the last one.
dlopen_next_slot(length) == DlopenWith(dl_count + 1, length)

\* A library that cannot be opened or read gets a slot and a handle all the same.
dlopen(length) == DlopenWith(dl_count, length)

dlopen_overruns(length) ==
  /\ pc = "idle" /\ dl_opens < MaxOpens /\ Overruns(length)
  /\ dl_count' = dl_count + 1
  /\ dl_opens' = dl_opens + 1
  /\ pc' = "undefined"
  /\ UNCHANGED <<image, symtable, buffer, exec, entry, step, hit, mem, blocks,
                 dynamic_libraries, files, dl_handles, dl_lifo, dl_shared>>

SlotOf(n) == dynamic_libraries[dl_handles[n].dl]

\* The slot keeps its pointer; the next dlopen takes the last slot, whichever was closed.
dlclose(n) ==
  /\ pc = "idle" /\ n \in DOMAIN dl_handles
  /\ SlotOf(n).buffer \in DOMAIN blocks
  /\ blocks' = Freed(SlotOf(n).buffer)
  /\ files' = [f \in DOMAIN files \ {SlotOf(n).fd} |-> files[f]]
  /\ dl_count' = dl_count - 1
  /\ dl_handles' = [m \in DOMAIN dl_handles \ {n} |-> dl_handles[m]]
  /\ dl_lifo' = (dl_lifo /\ dl_handles[n].dl = dl_count - 1)
  /\ UNCHANGED <<loadvars, mem, dynamic_libraries, dl_opens, dl_shared>>

\* Another holder of the handle has freed the buffer: free merges it a second time.
dlclose_again(n) ==
  /\ pc = "idle" /\ n \in DOMAIN dl_handles
  /\ SlotOf(n).buffer \notin DOMAIN blocks
  /\ pc' = "undefined"
  /\ UNCHANGED <<image, symtable, buffer, exec, entry, step, hit, mem, blocks, dlvars>>

\* What dlsym looks at: the words of the buffer behind the handle.
dlsym(n) == [k \in 1 .. DlBufferSize |-> mem[SlotOf(n).buffer + (k - 1)]]

SharedObjects ==
  \/ \E length \in LibraryLengths \cup {NotFound} : dlopen(length) \/ dlopen_overruns(length)
  \/ \E n \in DOMAIN dl_handles : dlclose(n) \/ dlclose_again(n)

LoaderNext == Load \/ SharedObjects

LoaderSpec == LoaderInit /\ [][LoaderNext]_loadervars

----------------------------------------------------------------------------
\* The blocks lie in the heap, dl_count is the number of handles there are (until
\* the overrun of dlopen, which counts on), and the program is entered in or behind
\* the heap.
TypeOK ==
  /\ pc \in {"idle", "image_load", "segments", "relocate", "loaded", "execute", "undefined"}
  /\ \A a \in DOMAIN blocks : a \in 2 .. HeapEnd /\ a + blocks[a] - 1 <= HeapEnd
  /\ pc # "undefined" => dl_count = Cardinality(DOMAIN dl_handles)
  /\ entry \in 0 .. 2 * HeapEnd

\* The load overflows the block of one pointer that image_load is given, but only
\* into memory no block owns: exec is the last block as long as no hole in front of
\* it is large enough for a pointer, that is, as long as libraries are closed in the
\* reverse order of their opening.
LoadHitsNoBlock == dl_lifo => hit = {}

\* The words of the program's segments, and its relocations: a slot holds the address
\* registered for its symbol, or 0; a GLOB_DAT word stays as it is in the file.
ExpectedWord(v) ==
  LET r == {k \in 1 .. Len(image.rels) :
              image.rels[k].type = "JMP_SLOT" /\ image.rels[k].offset = v}
      s == CHOOSE s \in 1 .. Len(image.segments) :
             image.segments[s].load /\ v \in Words(image.segments[s].vaddr, image.segments[s].filesz)
  IN  IF r # {} THEN resolve_symbol(image.rels[CHOOSE k \in r : TRUE].sym)
      ELSE image.file[image.segments[s].offset + (v - image.segments[s].vaddr) + 1]

Extent == UNION {Words(image.segments[s].vaddr, image.segments[s].filesz) :
                   s \in {t \in 1 .. Len(image.segments) : image.segments[t].load}}

\* The program that is entered is the one in the file, relocated, and it is entered
\* at main: the copying, the relocations and the freeing of the buffer come in an
\* order in which none of them spoils what another one needs.
ProgramIntact ==
  pc = "execute" /\ entry # 0 /\ dl_lifo
    => /\ entry = exec + image.main
       /\ \A v \in Extent : exec + v <= HeapEnd => mem[exec + v] = ExpectedWord(v)

\* Whatever the order of dlopen and dlclose, and also when a program is loaded: a
\* handle leads to the words of its library (to zeroes when the file could not be
\* opened), dlclose of it closes the library's own file, and no file stays open
\* without a handle, until dlopen returns a handle that another caller still holds
\* (dlclose only counts down, so after a close out of order the next dlopen does) or
\* the load overflows into a block.
HandlesLeadToTheirLibrary ==
  ~dl_shared /\ hit = {} =>
    /\ \A n \in DOMAIN dl_handles :
         /\ SlotOf(n).buffer \in DOMAIN blocks
         /\ dlsym(n) = Library(n, dl_handles[n].length)
         /\ dl_handles[n].length # NotFound =>
              SlotOf(n).fd \in DOMAIN files /\ files[SlotOf(n).fd] = n
    /\ \A f \in DOMAIN files : files[f] \in DOMAIN dl_handles
=============================================================================
