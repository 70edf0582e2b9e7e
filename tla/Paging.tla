------------------------------- MODULE Paging -------------------------------
(***************************************************************************)
(* Paging: memory/paging.c and include/memory/paging.h, with the callers   *)
(* of map_page (hardware/pci.c, exec/usermode.c).                          *)
(*                                                                         *)
(* A page, virtual or physical, is the pair of its directory index and its *)
(* table index, the upper 20 bits of an address.  Only the first N         *)
(* physical pages are kept, as the tables they are read as: the block      *)
(* manager was never initialised, so paging_enable builds the directory    *)
(* and the first table in page 0, one over the other, and directory entry  *)
(* d points to physical page d, whatever that page holds.                  *)
(***************************************************************************)
EXTENDS Integers

CONSTANTS
  Half,            \* half the number of entries of a table (512)
  StackPages,      \* pages of the first table pci_enumerate_devices maps
  UserPages,       \* pages execute_user_mode maps
  KernelMemory,    \* physical pages in which the kernel keeps its data
  Leftover,        \* entries the words of untouched memory are read as
  NewTable         \* the page malloc_aligned would return for a table

N == 2 * Half

Index == 0 .. N - 1

Page == Index \X Index

Attributes == {"PRESENT", "RW", "USER"}

Entries == [frame : Page, flags : SUBSET Attributes]

Low == {0} \X Index

None == <<-1, -1>>

ASSUME PagingAssumption ==
  /\ Half \in Nat \ {0}
  /\ StackPages \subseteq Low
  /\ UserPages \subseteq (1 .. Half - 1) \X Index
  /\ KernelMemory \subseteq Low \ {<<0, 0>>}
  /\ NewTable \in KernelMemory
  /\ \A v \in UserPages : <<0, v[1]>> \notin KernelMemory
  /\ Leftover \subseteq Entries

VARIABLES
  on,              \* paging is enabled
  mem,             \* the first N physical pages, read as tables
  tlb,             \* the translations the CPU holds, None where it has none
  asked            \* the attributes map_page was called with, {} if it was not

vars == <<on, mem, tlb, asked>>

PD_INDEX(v) == v[1]
PT_INDEX(v) == v[2]

SET_ATTRIBUTE(e, attr) == [frame |-> e.frame, flags |-> e.flags \cup attr]

\* The address of page p with the bits low below the page number is or-ed in.
\* ~0x7FFFF000 keeps the lower 12 bits and bit 31 of what was there.
SET_FRAME(e, p, low) ==
  [frame |-> <<IF e.frame[1] >= Half /\ p[1] < Half THEN p[1] + Half ELSE p[1],
               p[2]>>,
   flags |-> e.flags \cup low]

Blank(attr) == [frame |-> <<0, 0>>, flags |-> attr]

Init ==
  /\ on = FALSE
  /\ mem \in [Low -> {[i \in Index |-> e] : e \in Leftover}]
  /\ tlb = [v \in Low \cup UserPages |-> None]
  /\ asked = [v \in Low \cup UserPages |-> {}]

----------------------------------------------------------------------------
\* max_blocks and used_blocks are 0: max_blocks - used_blocks <= num_blocks.
alloc_blocks == <<0, 0>>

directory == alloc_blocks

\* A mistaken loop that leaves the last page out.
IdentityShort ==
  [i \in Index |-> IF i = N - 1 THEN Blank({})
                   ELSE [frame |-> <<0, i>>, flags |-> {"PRESENT", "RW"}]]

\* The loop over the 1024 entries of the first table.
Identity == [i \in Index |-> [frame |-> <<0, i>>, flags |-> {"PRESENT", "RW"}]]

Put(m, table, i, e) == [m EXCEPT ![table] = [@ EXCEPT ![i] = e]]

SetTable(m, p, t) == [m EXCEPT ![p] = t]

\* SET_ATTRIBUTE(entry, PDE_PRESENT | PDE_RW); SET_FRAME(entry, table)
PointTo(e, table) == SET_FRAME(SET_ATTRIBUTE(e, {"PRESENT", "RW"}), table, {})

\* The directory is cleared, then the table is filled, then the directory's first
\* entry is set: the order matters, since both are page 0.
paging_enable ==
  LET table == alloc_blocks
      m == SetTable(SetTable(mem, directory, [i \in Index |-> Blank({"RW"})]),
                    table, Identity)
  IN  /\ ~on /\ on' = TRUE
      /\ mem' = Put(m, directory, 0, PointTo(m[directory][0], table))
      /\ UNCHANGED <<tlb, asked>>

\* What map_page does first: a table for a directory entry that is not present.
WithTable(m, d) ==
  IF "PRESENT" \in m[directory][d].flags THEN m
  ELSE Put(SetTable(m, NewTable, [i \in Index |-> Blank({})]),
           directory, d, PointTo(m[directory][d], NewTable))

\* The entry map_page leaves for page v, mapped onto itself.
Mapped(e, v, low, flags) ==
  SET_FRAME(SET_ATTRIBUTE(e, flags \cup {"PRESENT"}), v, low)

\* A mistaken map_page that does not flush the TLB.
flush_tlb_entry_forgotten(v) == UNCHANGED tlb

flush_tlb_entry(v) == tlb' = [tlb EXCEPT ![v] = None]

\* All callers map a page onto itself.
map_page(v, low, flags) ==
  LET m == WithTable(mem, PD_INDEX(v))
      table == m[directory][PD_INDEX(v)].frame
  IN  /\ on
      /\ mem' = Put(m, table, PT_INDEX(v),
                     Mapped(m[table][PT_INDEX(v)], v, low, flags))
      /\ flush_tlb_entry(v)
      /\ asked' = [asked EXCEPT ![v] = @ \cup flags]
      /\ UNCHANGED on

\* The addresses pci_enumerate_devices passes are those of words on its stack
\* (port_base + 4096 * page): multiples of 4, bit 2 being USER.
map_stack(v, low) == map_page(v, low, {"RW"})

map_user(v) == map_page(v, {}, {"PRESENT", "USER", "RW"})

----------------------------------------------------------------------------
(* External: the CPU's walk, and the kernel writing to its own memory.     *)
Walk(v) == mem[mem[directory][PD_INDEX(v)].frame][PT_INDEX(v)]

access(v) ==
  /\ on
  /\ "PRESENT" \in mem[directory][PD_INDEX(v)].flags
  /\ "PRESENT" \in Walk(v).flags
  /\ tlb' = [tlb EXCEPT ![v] = Walk(v).frame]
  /\ UNCHANGED <<on, mem, asked>>

kernel_store(p, i, e) ==
  /\ mem' = Put(mem, p, i, e)
  /\ UNCHANGED <<on, tlb, asked>>

Next ==
  \/ paging_enable
  \/ \E v \in StackPages, low \in SUBSET {"USER"} : map_stack(v, low)
  \/ \E v \in UserPages : map_user(v)
  \/ \E v \in Low \cup UserPages : access(v)
  \/ \E p \in KernelMemory, i \in Index, e \in Leftover : kernel_store(p, i, e)

Spec == Init /\ [][Next]_vars

----------------------------------------------------------------------------
TypeOK ==
  /\ on \in BOOLEAN
  /\ mem \in [Low -> [Index -> Entries]]
  /\ tlb \in [Low \cup UserPages -> Page \cup {None}]
  /\ asked \in [Low \cup UserPages -> SUBSET Attributes]

(***************************************************************************)
(* Although the directory is its own first table, and map_page writes to   *)
(* it through both, the first 4 MiB, where the kernel, its heap and its    *)
(* stack are, stay mapped onto themselves and writable, in the tables and  *)
(* in the TLB (paging.c:72-137).                                           *)
(***************************************************************************)
KernelIdentity ==
  on => \A v \in Low :
          /\ Walk(v).frame = v
          /\ {"PRESENT", "RW"} \subseteq Walk(v).flags
          /\ tlb[v] \in {None, v}

(***************************************************************************)
(* A page map_page was called for leads where it was asked to, with the    *)
(* attributes asked for, whatever the page used as its table held before,  *)
(* whatever is mapped and stored elsewhere, and whatever the CPU had       *)
(* cached.                                                                 *)
(***************************************************************************)
MappedAsAsked ==
  \A v \in DOMAIN asked : asked[v] # {} =>
    /\ Walk(v).frame = v
    /\ asked[v] \subseteq Walk(v).flags
    /\ tlb[v] \in {None, v}
=============================================================================
