-------------------------------- MODULE Boot --------------------------------
(***************************************************************************)
(* The boot loader: the boot sector (Stage1) loads stage 2 and jumps to it *)
(* (Stage2), and stage 2 loads the kernel.  Neither comes back.            *)
(***************************************************************************)
EXTENDS Stage1, Stage2

Init == Init1 /\ Init2

\* The segments and the stack of stage 2, its message, cli.
entry ==
  /\ pc1 = "stage2" /\ pc2 = "off"
  /\ pc2' = "disable"
  /\ UNCHANGED <<vars1, a20vars, diskvars, mountvars, filevars>>

Next ==
  \/ Next1 /\ UNCHANGED vars2
  \/ entry
  \/ Next2 /\ UNCHANGED vars1

\* The CPU and the keyboard controller do not stop; nobody has to type.
Fairness ==
  /\ WF_vars1(Next1)
  /\ WF_vars2(entry \/ enable_a20 \/ protected_mode \/ stage2_main)
  /\ WF_vars2(controller)

Spec == Init /\ [][Next]_<<vars1, vars2>> /\ Fairness

----------------------------------------------------------------------------
\* The labels, the stack and the retries of stage 1 and the loaded bytes of stage 2
\* have their types.
TypeOK ==
  /\ TypeOK1
  /\ pc2 = "off" \/ pc1 = "stage2"
  /\ faults \in 0 .. MaxFaults
  /\ Len(image) <= ksize

\* Stage 2 starts with all of its sectors in memory and a balanced stack, however
\* often disk_read had to reset the controller and try again; and the boot sector
\* returns to a register it took for an address only after the disk error it shows.
Stage2EnteredWhole ==
  /\ pc1 = "stage2" => /\ at500 = Stage2Lba .. Stage2Lba + Stage2Sectors - 1
                       /\ stack = << >>
  /\ pc1 = "lost" => message

\* enable_a20 writes back what the controller's output port held, with the A20 bit
\* added: only a key typed before the keyboard is disabled can be taken for the
\* port's value, and can then reset the machine through the port's lowest bit.
A20Opened ==
  \/ kbc.typed
  \/ /\ pc2 # "reset"
     /\ pc2 \notin {"off", "disable", "read_control_output", "take_output",
                    "write_control_output", "data", "enable", "protected_mode"}
          => kbc.port = "port" /\ kbc.a20

\* What it is for a volume to hold /BOOT/KERNEL0.ELF.  For such a volume the record has
\* the number of BOOT's entry in the root directory (boot), its clusters (dir), the
\* number of the file's entry there (elf), its clusters (chain) and where its bytes
\* are (kernel); the code reads none of these.
BytesPerCluster(v) == v.bpb.sectors_per_cluster * SectorSize

RootPosition(v, n) == LayoutOf(v.bpb).root + n * EntrySize

ClusterStart(v, c) == LayoutOf(v.bpb).data + (c - 2) * BytesPerCluster(v)

\* Byte i of what lies in these clusters.
Position(v, clusters, i) ==
  ClusterStart(v, clusters[i \div BytesPerCluster(v) + 1]) + (i % BytesPerCluster(v))

FatPosition(v, c) == LayoutOf(v.bpb).fat + c * FatEntrySize

Chained(v, clusters) ==
  /\ clusters \in Seq(Nat) /\ clusters # << >>
  /\ \A k \in 1 .. Len(clusters) :
       clusters[k] >= 2 /\ ClusterStart(v, clusters[k]) + BytesPerCluster(v) <= Word
  /\ \A k \in 1 .. Len(clusters) - 1 :
       /\ FatPosition(v, clusters[k]) \in DOMAIN v.fat
       /\ v.fat[FatPosition(v, clusters[k])] = clusters[k + 1]
       /\ clusters[k + 1] < EndOfChain

Named(e, name) == ~Skipped(e) /\ e.name = name
Passed(e, name) == Skipped(e) \/ e.name \notin {"end", name}

Mountable(b) ==
  /\ b.jump # "bad" /\ b.bytes_per_sector = SectorSize /\ b.sectors_per_cluster \in ClusterSizes
  /\ ClusterCount(b) >= MinClusters /\ ClusterCount(b) < MaxClusters

HoldsBoot(v) ==
  LET entry_of(n) == v.entries[RootPosition(v, n)]
  IN  /\ v.boot \in 0 .. v.bpb.root_entry_count - 1
      /\ \A n \in 0 .. v.boot : RootPosition(v, n) \in DOMAIN v.entries
      /\ \A n \in 0 .. v.boot - 1 : Passed(entry_of(n), "BOOT")
      /\ Named(entry_of(v.boot), "BOOT") /\ "volume" \notin entry_of(v.boot).attribute
      /\ Chained(v, v.dir) /\ entry_of(v.boot).cluster = v.dir[1]

HoldsFile(v) ==
  LET position(n) == Position(v, v.dir, n * EntrySize)
      entry_of(n) == v.entries[position(n)]
  IN  /\ v.elf \in Nat /\ v.elf * EntrySize < Len(v.dir) * BytesPerCluster(v)
      /\ \A n \in 0 .. v.elf : position(n) \in DOMAIN v.entries
      /\ \A n \in 0 .. v.elf - 1 : Passed(entry_of(n), "KERNEL0")
      /\ Named(entry_of(v.elf), "KERNEL0") /\ entry_of(v.elf).attribute \cap {"volume", "subdir"} = {}
      /\ Chained(v, v.chain) /\ entry_of(v.elf).cluster = v.chain[1]
      /\ entry_of(v.elf).size = Len(v.kernel)
      /\ ksize <= Len(v.kernel) /\ Len(v.kernel) <= Len(v.chain) * BytesPerCluster(v)
      /\ v.kernel = [i \in 1 .. Len(v.kernel) |-> Position(v, v.chain, i - 1)]

ASSUME BootAssumption ==
  \A m \in Machines : m["master"] # NoDisk /\ m["master"].kernel # << >>
    => LET v == m["master"] IN Mountable(v.bpb) /\ HoldsBoot(v) /\ HoldsFile(v)

\* What stage 2 must find: no second disk, as it would be preferred to the one the
\* boot sector came from, and a volume with the kernel on it.
Bootable ==
  /\ machine["slave"] = NoDisk
  /\ machine["master"] # NoDisk
  /\ machine["master"].kernel # << >>

\* When every sector could be read, the kernel is entered with the first ksize bytes
\* of /BOOT/KERNEL0.ELF in memory, in their order: find_entry_in_subdir and
\* read_from_handle follow fragmented chains, whatever is deleted or long-named in
\* the directories, and read puts together the parts of sectors.
KernelLoaded ==
  pc2 = "kernel" /\ Bootable /\ faults = 0
    => image = [i \in 1 .. ksize |-> <<"master", machine["master"].kernel[i]>>]

\* A machine with a bootable disk on which nothing fails gets to the kernel: the
\* retries of the boot sector, the waits for the keyboard controller and the searches
\* through the directories end.
KernelReached ==
  Bootable => <>(pc2 = "kernel" \/ message \/ faults > 0 \/ kbc.typed)
=============================================================================
