-------------------------------- MODULE Pci ---------------------------------
(***************************************************************************)
(* pci_enumerate_devices of kernel/src/hardware/pci.c: it asks every       *)
(* function of every device for its identification and its base addresses, *)
(* and hands the AHCI controller it knows to init_sata (Ahci).             *)
(*                                                                         *)
(* A configuration gives the functions that exist; one that does not reads *)
(* as all ones.  The pages of the controller's registers are not mapped    *)
(* when the driver touches them, see init_sata.                            *)
(***************************************************************************)
EXTENDS Ahci

CONSTANTS
  Configs,           \* the machines
  Devices,           \* the devices of all buses, numbered: 8 * 32 of them
  Functions,         \* 8
  BarSize            \* sizeof(BAR)

IsAhci(f) == f.id = "8086:2829"

\* An AHCI function whose registers are at the address the kernel takes.
Controller(f) == IsAhci(f) /\ f.bars[4] = "hba"

\* An AHCI function is no bridge, and there is one HBA.
ASSUME PciAssumption ==
  /\ Devices \in Nat /\ Functions \in Nat \ {0} /\ BarSize \in Nat
  /\ \A c \in Configs :
       /\ DOMAIN c \subseteq (0 .. Devices - 1) \X (0 .. Functions - 1)
       /\ \A x \in DOMAIN c : IsAhci(c[x]) => c[x].header_type = 0
       /\ \A x, y \in DOMAIN c : Controller(c[x]) /\ Controller(c[y]) => x = y

VARIABLES
  config,            \* the functions of this machine
  device,
  function,
  handed,            \* history: the functions init_sata has been called for
  reached            \* history: one of these calls has come to the HBA's registers

history == <<handed, reached>>
pcivars == <<config, device, function, history>>
vars == <<ahcivars, pcivars>>

Init ==
  /\ InitAhci
  /\ config \in Configs
  /\ pc = "pci"
  /\ device = 0 /\ function = 0
  /\ handed = {} /\ reached = FALSE

Present(d, f) == <<d, f>> \in DOMAIN config

\* A mistaken test: a device that is not there has one function.
has_functions_of_present(d) == Present(d, 0) /\ config[<<d, 0>>].multi

\* Bit 7 of the header type; all ones when function 0 is not there.
has_functions(d) == ~Present(d, 0) \/ config[<<d, 0>>].multi

function_count(d) == IF has_functions(d) THEN Functions ELSE 1

\* A mistaken count: one function more than there can be.
AdvanceTooFar ==
  IF function + 1 <= function_count(device)
    THEN function' = function + 1 /\ device' = device
    ELSE function' = 0 /\ device' = device + 1

\* The last of the device's functions is followed by the next device's first.
Advance ==
  IF function + 1 < function_count(device)
    THEN function' = function + 1 /\ device' = device
    ELSE function' = 0 /\ device' = device + 1

\* pci_get_bar: a bridge has two addresses; for the others the block from malloc is
\* returned as it is, with the address that was in it before.
port_base(f, bar) ==
  IF bar < 6 - 4 * f.header_type THEN f.bars[bar] ELSE "stale"

visit_absent ==
  /\ pc = "pci" /\ device < Devices
  /\ ~Present(device, function)
  /\ Advance
  /\ UNCHANGED <<ahcivars, config, history>>

\* The six BARs are read into a block that is freed again.
visit_other ==
  /\ pc = "pci" /\ device < Devices
  /\ Present(device, function) /\ ~IsAhci(config[<<device, function>>])
  /\ exhausted' = (exhausted \/ malloc(BarSize) = 0)
  /\ Advance
  /\ UNCHANGED <<pc, i, port, heap_top, tables, hba, readvars, config, history>>

\* init_sata(port_base[4]).  The loop before it maps pages of the stack, where the
\* array port_base is, and none at the address in it.  The page table of that address
\* is memory nobody has cleared (Paging): it may lead to the registers, if they are
\* there at all; to other memory, in which ports may be seen, and waiting for one of
\* them to stop never ends; or nowhere, and the stub of the page fault goes astray on
\* its way back (interrupt_handler.asm leaves the error code on the stack).
init_sata ==
  /\ pc = "pci" /\ device < Devices
  /\ Present(device, function) /\ IsAhci(config[<<device, function>>])
  /\ exhausted' = (exhausted \/ malloc(BarSize) = 0)
  /\ i' = 0
  /\ \/ port_base(config[<<device, function>>], 4) = "hba" /\ pc' = "probe"
     \/ pc' \in {"pci", "hang", "fault"}
  /\ handed' = handed \cup {<<device, function>>}
  /\ reached' = (reached \/ pc' = "probe")
  /\ Advance
  /\ UNCHANGED <<port, heap_top, tables, hba, readvars, config>>

pci_done ==
  /\ pc = "pci" /\ device = Devices
  /\ pc' = "done"
  /\ UNCHANGED <<portvars, hba, readvars, pcivars>>

pci_enumerate_devices ==
  visit_absent \/ visit_other \/ init_sata \/ pci_done

Kernel == pci_enumerate_devices \/ ((probe_port \/ Read) /\ UNCHANGED pcivars)

Next == Kernel \/ (HbaStep /\ UNCHANGED pcivars)

\* The CPU goes on; the HBA follows the driver's ST and FRE bits and ends every
\* command it runs, one way or the other.
Fairness ==
  /\ WF_vars(Kernel)
  /\ \A p \in Ports : /\ WF_vars(hba_follows(p) /\ UNCHANGED pcivars)
                      /\ WF_vars((command_done(p) \/ command_failed(p)) /\ UNCHANGED pcivars)

Spec == Init /\ [][Next]_vars /\ Fairness

----------------------------------------------------------------------------
\* The scan stays within the devices and functions that can be addressed, the heap
\* within its arena, and the port found is one of the HBA's.
TypeOK ==
  /\ pc \in {"pci", "probe", "stop_cmd", "port_rebase", "start_cmd", "done", "spin", "wait",
            "hang", "fault"}
  /\ heap_top \in HeapStart .. HeapEnd
  /\ device \in 0 .. Devices /\ function \in 0 .. Functions - 1
  /\ port \in Ports \cup {NoPort}

AllTables == {x \in Ports \X (1 .. Slots + 2) : x[2] <= Len(tables[x[1]])}

\* port_rebase gives the HBA aligned tables in the heap that do not overlap, of this
\* or of another port, although malloc_aligned rounds down behind malloc's back; this
\* ends when the heap is exhausted, which nobody notices.
TablesApart ==
  ~exhausted =>
  \A x \in AllTables :
    LET t == tables[x[1]][x[2]]
    IN  /\ t.at % Alignment = 0
        /\ t.at >= HeapStart /\ t.at + t.size <= heap_top
        /\ \A y \in AllTables \ {x} :
             LET u == tables[y[1]][y[2]] IN t.at + t.size <= u.at \/ u.at + u.size <= t.at

\* port_rebase changes a port's tables only while the HBA is neither processing its
\* command list nor receiving FISes for it.
TablesOfStoppedPorts ==
  [][\A p \in Ports : tables'[p] # tables[p] => ~hba[p].cr /\ ~hba[p].fr]_vars

\* The AHCI functions a scan of the bus can see.
Visible(x) == IsAhci(config[x]) /\ (x[2] = 0 \/ ~Present(x[1], 0) \/ config[<<x[1], 0>>].multi)

\* A search that ends has handed every AHCI function a scan can see to init_sata, and
\* no other; and if one of these calls has come to the registers of the HBA, every
\* disk's port is running with all its tables.
DisksFound ==
  pc = "done" =>
    /\ handed = {x \in DOMAIN config : Visible(x)}
    /\ reached => \A p \in Ports : hba[p].type = "sata" =>
                     hba[p].st /\ hba[p].fre /\ Len(tables[p]) = Slots + 2

\* sata_read reports success only when all the sectors asked for, and no others, are
\* in the buffer; this is so for reads of at most one PRDT entry.
SataReadTruthful ==
  pc = "done" /\ call.result /\ call.count <= EntrySectors
    => buffer = [s \in 0 .. call.count - 1 |-> s]

\* The search for devices ends unless the address in BAR 4 leads to other memory or
\* nowhere, and every read ends unless an earlier one has failed on the port: stop_cmd,
\* start_cmd and sata_read wait without a limit.
SataReturns ==
  /\ <>(pc \in {"done", "hang", "fault"})
  /\ (pc = "spin" /\ ~hba[port].halted) ~> (pc = "done")
=============================================================================
