-------------------------------- MODULE Ahci --------------------------------
(***************************************************************************)
(* The AHCI driver, kernel/src/driver/sata, with malloc_aligned of         *)
(* mem_manager.c: every port with a disk is stopped, given its command     *)
(* list, FIS area and command tables, and started again; sata_read issues  *)
(* one command and waits for it.                                           *)
(*                                                                         *)
(* Sectors are the unit of the buffer.  The heap has no holes while the    *)
(* devices are searched, so that malloc hands out one block behind the     *)
(* other.                                                                  *)
(***************************************************************************)
EXTENDS Integers, Sequences, FiniteSets

CONSTANTS
  Ports,             \* the ports of the HBA, 0 .. 31
  Slots,             \* 32, the command headers of a port
  CapNcs,            \* the field of abar->cap that find_cmd_slot looks at
  Alignment,         \* 4096
  PointerSize,       \* 4
  HeaderSize,        \* sizeof(MemoryChunk)
  HeapStart, HeapEnd,
  ClbSize, FbSize, TableSize,
  EntrySectors,      \* 16, the sectors of one PRDT entry
  BufStep,           \* 8, the sectors buf moves on by for each of them
  SpinLimit,         \* 1000000
  Counts,            \* the numbers of sectors that are read
  MaxReads           \* bound: calls of sata_read

ASSUME AhciAssumption ==
  /\ Ports \subseteq Nat /\ \E p \in Ports : \A q \in Ports : q <= p
  /\ Slots \in Nat \ {0} /\ CapNcs \in Nat
  /\ Alignment \in Nat \ {0} /\ PointerSize \in Nat \ {0} /\ HeaderSize \in Nat
  /\ HeapStart \in Nat \ {0} /\ HeapEnd \in Nat /\ HeapStart <= HeapEnd
  /\ ClbSize \in Nat /\ FbSize \in Nat /\ TableSize \in Nat
  /\ EntrySectors \in Nat \ {0} /\ BufStep \in Nat /\ SpinLimit \in Nat \ {0}
  /\ Counts \subseteq Nat \ {0} /\ MaxReads \in Nat

VARIABLES
  pc,
  i,                 \* the port probe_port is at
  port,              \* its result, the port found last
  hba,               \* the registers of every port
  heap_top,          \* the heap is in use up to here
  tables,            \* what clb, fb and the command headers of a port point to
  exhausted,         \* malloc has returned 0
  call,              \* the call of sata_read
  buffer             \* what the disk has put into memory

portvars == <<i, port, heap_top, tables, exhausted>>
readvars == <<call, buffer>>
ahcivars == <<pc, portvars, hba, readvars>>

NoPort == -1

NoCall == [count |-> 0, slot |-> 0, prdt |-> << >>, sectors |-> 0, spin |-> 0,
           result |-> FALSE, number |-> 0]

\* External: as the BIOS leaves the ports.
InitAhci ==
  /\ i = 0
  /\ port = NoPort
  /\ hba \in [Ports -> [type : {"null", "sata"}, st : BOOLEAN, cr : BOOLEAN, fre : BOOLEAN,
                        fr : BOOLEAN, busy : {FALSE}, ci : {{}}, tfes : {FALSE}, halted : {FALSE}]]
  /\ \A p \in Ports : hba[p].cr = hba[p].st /\ hba[p].fr = hba[p].fre
  /\ heap_top = HeapStart
  /\ tables = [p \in Ports |-> << >>]
  /\ exhausted = FALSE
  /\ call = NoCall
  /\ buffer = [s \in {} |-> 0]

----------------------------------------------------------------------------
(* External: the HBA and the disks.                                        *)
hba_follows(p) ==
  /\ \/ hba[p].cr # hba[p].st /\ hba' = [hba EXCEPT ![p].cr = hba[p].st]
     \/ hba[p].fr # hba[p].fre /\ hba' = [hba EXCEPT ![p].fr = hba[p].fre]
  /\ UNCHANGED <<pc, portvars, readvars>>

\* Only sata_read looks at it.
disk_busy(p) ==
  /\ pc \in {"done", "spin"} /\ p = port
  /\ hba[p].ci = {}
  /\ hba' = [hba EXCEPT ![p].busy = ~@]
  /\ UNCHANGED <<pc, portvars, readvars>>

Runs(p) ==
  /\ hba[p].cr /\ hba[p].fr /\ ~hba[p].halted
  /\ call.slot \in hba[p].ci

\* The sectors in the order of the PRDT, as many as the command asks for.
Transfer(prdt, sectors) ==
  LET entry(s) == (s \div EntrySectors) + 1
  IN  [a \in {prdt[entry(s)].dba + (s % EntrySectors) : s \in 0 .. sectors - 1} |->
         CHOOSE s \in 0 .. sectors - 1 : prdt[entry(s)].dba + (s % EntrySectors) = a]

command_done(p) ==
  /\ Runs(p)
  /\ buffer' = Transfer(call.prdt, call.sectors)
  /\ hba' = [hba EXCEPT ![p].ci = @ \ {call.slot}]
  /\ UNCHANGED <<pc, portvars, call>>

\* After a task file error the port does nothing more until it is restarted.
command_failed(p) ==
  /\ Runs(p)
  /\ hba' = [hba EXCEPT ![p].tfes = TRUE, ![p].halted = TRUE]
  /\ UNCHANGED <<pc, portvars, readvars>>

HbaStep ==
  \E p \in Ports : hba_follows(p) \/ disk_busy(p) \/ command_done(p) \/ command_failed(p)

----------------------------------------------------------------------------
(* malloc on a heap without holes, and malloc_aligned.                     *)
\* The chunk must be larger than what is asked for.
malloc(n) == IF heap_top + HeaderSize + n < HeapEnd THEN heap_top + HeaderSize ELSE 0

\* A mistaken request: no room for the alignment.
BlockSizeTight(n) == n + PointerSize

BlockSize(n) == n + Alignment - 1 + PointerSize

malloc_aligned(p) ==
  LET aligned_pointer == p + Alignment - 1 + PointerSize
  IN  aligned_pointer - (aligned_pointer % Alignment)

----------------------------------------------------------------------------
(* probe_port.                                                             *)
LastPort == CHOOSE p \in Ports : \A q \in Ports : q <= p

\* The port is implemented, and get_type returns AHCI_DEV_SATA.
HasDisk(p) == p \in Ports /\ hba[p].type = "sata"

probe_ports_done ==
  /\ pc = "probe" /\ i > LastPort
  /\ pc' = "pci"
  /\ UNCHANGED <<portvars, hba, readvars>>

probe_skip ==
  /\ pc = "probe" /\ i <= LastPort
  /\ ~HasDisk(i)
  /\ i' = i + 1
  /\ UNCHANGED <<pc, port, hba, heap_top, tables, exhausted, readvars>>

stop_cmd ==
  /\ pc = "probe" /\ HasDisk(i)
  /\ port' = i
  /\ hba' = [hba EXCEPT ![i].st = FALSE, ![i].fre = FALSE]
  /\ pc' = "stop_cmd"
  /\ UNCHANGED <<i, heap_top, tables, exhausted, readvars>>

\* A mistaken wait: only for the FIS engine.
stop_cmd_waits_for_fr ==
  /\ pc = "stop_cmd"
  /\ ~hba[i].fr
  /\ pc' = "port_rebase"
  /\ UNCHANGED <<portvars, hba, readvars>>

stop_cmd_wait ==
  /\ pc = "stop_cmd"
  /\ ~hba[i].fr /\ ~hba[i].cr
  /\ pc' = "port_rebase"
  /\ UNCHANGED <<portvars, hba, readvars>>

SizeOfTable(k) == IF k = 1 THEN ClbSize ELSE IF k = 2 THEN FbSize ELSE TableSize

\* The next of clb, fb and the command tables; nobody looks whether malloc gave 0.
port_rebase ==
  /\ pc = "port_rebase"
  /\ LET k == Len(tables[i]) + 1
         p == malloc(BlockSize(SizeOfTable(k)))
     IN  /\ tables' = [tables EXCEPT ![i] =
                         Append(@, [at |-> malloc_aligned(p), size |-> SizeOfTable(k)])]
         /\ heap_top' = IF p = 0 THEN heap_top ELSE p + BlockSize(SizeOfTable(k))
         /\ exhausted' = (exhausted \/ p = 0)
         /\ pc' = IF k = Slots + 2 THEN "start_cmd" ELSE "port_rebase"
  /\ UNCHANGED <<i, port, hba, readvars>>

\* A mistaken start: received FISes have nowhere to go.
start_cmd_no_fre ==
  /\ pc = "start_cmd"
  /\ ~hba[i].cr
  /\ hba' = [hba EXCEPT ![i].st = TRUE]
  /\ i' = i + 1
  /\ pc' = "probe"
  /\ UNCHANGED <<port, heap_top, tables, exhausted, readvars>>

start_cmd ==
  /\ pc = "start_cmd"
  /\ ~hba[i].cr
  /\ hba' = [hba EXCEPT ![i].fre = TRUE, ![i].st = TRUE]
  /\ i' = i + 1
  /\ pc' = "probe"
  /\ UNCHANGED <<port, heap_top, tables, exhausted, readvars>>

probe_port ==
  \/ probe_ports_done \/ probe_skip \/ stop_cmd \/ stop_cmd_wait
  \/ port_rebase \/ start_cmd

----------------------------------------------------------------------------
(* sata_read.                                                              *)
FreeSlots == {s \in 0 .. CapNcs - 1 : s \notin hba[port].ci}

\* The lowest free one of the slots the capabilities seem to offer, or -1.
find_cmd_slot ==
  IF FreeSlots = {} THEN -1 ELSE CHOOSE s \in FreeSlots : \A t \in FreeSlots : s <= t

Prdtl(count) == ((count - 1) \div EntrySectors) + 1

\* What is left of count after the loop: it goes into the last entry and the command.
LastCount(count) == count - (Prdtl(count) - 1) * EntrySectors

Prdt(count) ==
  [e \in 1 .. Prdtl(count) |->
     [dba |-> (e - 1) * BufStep,
      sectors |-> IF e = Prdtl(count) THEN LastCount(count) ELSE EntrySectors]]

sata_read(count) ==
  /\ pc = "done" /\ port # NoPort
  /\ call.number < MaxReads
  /\ hba' = [hba EXCEPT ![port].tfes = FALSE]
  /\ buffer' = [s \in {} |-> 0]
  /\ \/ /\ find_cmd_slot = -1
        /\ call' = [NoCall EXCEPT !.number = call.number + 1]
        /\ pc' = pc
     \/ /\ find_cmd_slot # -1
        /\ call' = [count |-> count, slot |-> find_cmd_slot, prdt |-> Prdt(count),
                    sectors |-> LastCount(count), spin |-> 0, result |-> FALSE,
                    number |-> call.number + 1]
        /\ pc' = "spin"
  /\ UNCHANGED portvars

\* The result is FALSE as long as none is stored.
spin_busy ==
  /\ pc = "spin"
  /\ hba[port].busy
  /\ call' = [call EXCEPT !.spin = @ + 1]
  /\ pc' = IF call.spin + 1 = SpinLimit THEN "done" ELSE "spin"
  /\ UNCHANGED <<portvars, hba, buffer>>

issue ==
  /\ pc = "spin"
  /\ ~hba[port].busy
  /\ hba' = [hba EXCEPT ![port].ci = @ \cup {call.slot}]
  /\ pc' = "wait"
  /\ UNCHANGED <<portvars, readvars>>

\* A mistaken end: an error ends the wait, but is not reported.
sata_read_done_on_error ==
  /\ pc = "wait"
  /\ call.slot \notin hba[port].ci \/ hba[port].tfes
  /\ call' = [call EXCEPT !.result = TRUE]
  /\ pc' = "done"
  /\ UNCHANGED <<portvars, hba, buffer>>

sata_read_done ==
  /\ pc = "wait"
  /\ call.slot \notin hba[port].ci
  /\ call' = [call EXCEPT !.result = ~hba[port].tfes]
  /\ pc' = "done"
  /\ UNCHANGED <<portvars, hba, buffer>>

sata_read_error ==
  /\ pc = "wait"
  /\ hba[port].tfes
  /\ pc' = "done"
  /\ UNCHANGED <<portvars, hba, readvars>>

Read ==
  \/ \E count \in Counts : sata_read(count)
  \/ spin_busy \/ issue \/ sata_read_done \/ sata_read_error
=============================================================================
