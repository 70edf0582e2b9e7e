------------------------------- MODULE Stage2 -------------------------------
(***************************************************************************)
(* The second stage of the boot loader, bootloader/src/stage2: it opens    *)
(* the A20 gate through the keyboard controller, identifies the disks,     *)
(* mounts the FAT16 volume at sector 100 and loads /BOOT/KERNEL0.ELF so    *)
(* that its code lies at 0x100000, where it jumps.                         *)
(*                                                                         *)
(* No result is looked at.  A sector that cannot be read leaves whatever   *)
(* the buffer held; a mount that is refused leaves the layout zero; and    *)
(* the -1 of navigate_to_subdir, which returns a bool, is 255 to its       *)
(* caller.  Reading where the volume has nothing of the kind, or failing   *)
(* to read, gives any value.                                               *)
(***************************************************************************)
EXTENDS Integers, Sequences, FiniteSets

CONSTANTS
  Machines,          \* what may be attached to the first ATA port
  NoDisk,
  Bpbs,              \* the boot sectors there may be
  SectorSize,        \* 512
  EntrySize,         \* 32, a directory entry
  FatEntrySize,      \* 2
  MinClusters,       \* 4085
  MaxClusters,       \* 65525
  EndOfChain,        \* 0xFFF8
  Word,              \* uint32_t arithmetic is modulo Word
  ksize,             \* the bytes of KERNEL0.ELF to load, from the linker
  MaxFaults          \* bound: the sectors that cannot be read

\* struct BPB, and struct DirEntry with the names that mark a free entry and the end.
BootSectors ==
  [jump : {"short", "near", "bad"}, bytes_per_sector : Nat, sectors_per_cluster : Nat,
   reserved_sector_count : Nat, num_fats : Nat, root_entry_count : Nat, sector_count : Nat,
   fat_size : Nat]

DirEntries ==
  [name : {"free", "end", "other", "BOOT", "KERNEL0"},
   attribute : SUBSET {"read_only", "hidden", "system", "volume", "subdir", "archive"},
   cluster : Nat, size : Nat]

ASSUME Stage2Assumption ==
  /\ SectorSize \in Nat \ {0} /\ EntrySize \in Nat \ {0} /\ FatEntrySize \in Nat \ {0}
  /\ SectorSize % EntrySize = 0 /\ EntrySize % FatEntrySize = 0
  /\ MinClusters \in Nat /\ MaxClusters \in Nat /\ EndOfChain \in Nat
  /\ Word \in Nat \ {0} /\ ksize \in Nat \ {0} /\ MaxFaults \in Nat
  /\ Bpbs \subseteq BootSectors
  /\ \A m \in Machines : \A d \in {"master", "slave"} : m[d] # NoDisk =>
       /\ m[d].bpb \in BootSectors
       /\ \A pos \in DOMAIN m[d].entries : m[d].entries[pos] \in DirEntries
       /\ \A pos \in DOMAIN m[d].fat : m[d].fat[pos] \in Nat

VARIABLES
  pc2,
  kbc,               \* the keyboard controller
  al,                \* the byte enable_a20 read from it
  machine,
  default_disk,
  disk_pointer,
  bpb,
  layout,
  handle,            \* the EntryHandle of fat16_read
  filename,
  image,             \* the bytes loaded so far
  faults             \* the sectors that could not be read

a20vars == <<kbc, al>>
diskvars == <<machine, default_disk>>
mountvars == <<bpb, layout>>
filevars == <<disk_pointer, handle, filename, image, faults>>
vars2 == <<pc2, a20vars, diskvars, mountvars, filevars>>

ZeroBpb == [bytes_per_sector |-> 0, sectors_per_cluster |-> 0, reserved_sector_count |-> 0,
            num_fats |-> 0, root_entry_count |-> 0, sector_count |-> 0, fat_size |-> 0]

NoLayout == [fat |-> 0, root |-> 0, data |-> 0]

NoHandle == [cluster |-> 0, offset |-> 0, remaining |-> 0]

Init2 ==
  /\ pc2 = "off"
  /\ kbc = [command |-> "none", out |-> << >>, disabled |-> FALSE, a20 |-> FALSE,
            port |-> "port", typed |-> FALSE]
  /\ al = "none"
  /\ machine \in Machines
  /\ default_disk = "none"
  /\ disk_pointer = 0
  /\ bpb = ZeroBpb
  /\ layout = NoLayout
  /\ handle = NoHandle
  /\ filename = "none"
  /\ image = << >>
  /\ faults = 0

----------------------------------------------------------------------------
(* enable_a20.  The controller has one input register and one output       *)
(* register; what it has to say waits until the output register is free.   *)

\* External: a key is typed while the controller listens to the keyboard.
type_key ==
  /\ pc2 \in {"disable", "read_control_output"}
  /\ ~kbc.disabled /\ ~kbc.typed
  /\ kbc' = [kbc EXCEPT !.out = Append(@, "key"), !.typed = TRUE]
  /\ UNCHANGED <<pc2, al, diskvars, mountvars, filevars>>

\* External: the controller carries out the command in its input register.  The
\* lowest bit of the output port is the reset line of the CPU: the port's own
\* value has it set, that of a key may not.
controller ==
  /\ kbc.command # "none"
  /\ kbc' = [kbc EXCEPT !.command = "none",
               !.disabled = IF kbc.command = "disable" THEN TRUE
                            ELSE IF kbc.command = "enable" THEN FALSE ELSE @,
               !.out = IF kbc.command = "read_control_output" THEN Append(@, kbc.port) ELSE @,
               !.port = IF kbc.command = "data" THEN al ELSE @,
               !.a20 = kbc.command = "data" \/ @]
  /\ \/ pc2' = pc2
     \/ kbc.command = "data" /\ al # "port" /\ pc2' = "reset"
  /\ UNCHANGED <<al, diskvars, mountvars, filevars>>

\* a20_wait_input, then a byte to the controller.
Send(label, command, next) ==
  /\ pc2 = label
  /\ kbc.command = "none"
  /\ kbc' = [kbc EXCEPT !.command = command]
  /\ pc2' = next
  /\ UNCHANGED <<al, diskvars, mountvars, filevars>>

\* A mistaken wait: the byte is read whether or not there is one.
take_output_at_once ==
  /\ pc2 = "take_output"
  /\ al' = IF kbc.out = << >> THEN "nothing" ELSE Head(kbc.out)
  /\ kbc' = [kbc EXCEPT !.out = IF @ = << >> THEN @ ELSE Tail(@)]
  /\ pc2' = "write_control_output"
  /\ UNCHANGED <<diskvars, mountvars, filevars>>

\* a20_wait_output, in al
take_output ==
  /\ pc2 = "take_output"
  /\ kbc.out # << >>
  /\ al' = Head(kbc.out)
  /\ kbc' = [kbc EXCEPT !.out = Tail(@)]
  /\ pc2' = "write_control_output"
  /\ UNCHANGED <<diskvars, mountvars, filevars>>

\* The last wait, load_gdt and the switch to protected mode.
protected_mode ==
  /\ pc2 = "protected_mode"
  /\ kbc.command = "none"
  /\ pc2' = "ata0m"
  /\ UNCHANGED <<a20vars, diskvars, mountvars, filevars>>

enable_a20 ==
  \/ Send("disable", "disable", "read_control_output")
  \/ Send("read_control_output", "read_control_output", "take_output")
  \/ take_output
  \/ Send("write_control_output", "write_control_output", "data")
  \/ Send("data", "data", "enable")
  \/ Send("enable", "enable", "protected_mode")

----------------------------------------------------------------------------
(* ata.c.                                                                  *)
Present(d) == machine[d] # NoDisk

\* Both disks are tried: the one identified last is used.
identify_disk(d, label, next) ==
  /\ pc2 = label
  /\ default_disk' = IF Present(d) THEN d ELSE default_disk
  /\ disk_pointer' = 0
  /\ pc2' = next
  /\ UNCHANGED <<machine, a20vars, mountvars, handle, filename, image, faults>>

\* External: the volume behind default_disk.  Through the null pointer nothing
\* of a disk is read.
Volume == machine[default_disk]
Readable == default_disk # "none"

VolumeSector == 100

\* Where on the volume the bytes come from that read copies to the buffer: the rest
\* of the first sector, whole sectors, and the beginning of the last.
BytesRead(pos, length) ==
  LET offset == pos % SectorSize
      first == IF offset = 0 THEN 0
               ELSE IF length < SectorSize - offset THEN length ELSE SectorSize - offset
      rest(i) == i - 1 - first
      sector(i) == pos \div SectorSize + VolumeSector
                     + (IF first = 0 THEN 0 ELSE 1) + rest(i) \div SectorSize
  IN  [i \in 1 .. length |->
         IF i <= first THEN pos + i - 1
         ELSE (sector(i) - VolumeSector) * SectorSize + (rest(i) % SectorSize)]

SectorOf(pos) == pos \div SectorSize

\* The reads of which some sectors fail, with the bytes they give: from the disk,
\* or what was in the buffer before.
Reads(length) ==
  LET from == BytesRead(disk_pointer, length)
      sectors == {SectorOf(from[i]) : i \in 1 .. length}
  IN  {[bytes |-> [i \in 1 .. length |->
                     IF Readable /\ SectorOf(from[i]) \notin bad THEN <<default_disk, from[i]>>
                     ELSE <<"junk">>],
        bad |-> Cardinality(bad)] : bad \in {b \in SUBSET sectors : faults + Cardinality(b) <= MaxFaults}}

\* A directory entry or an entry of the FAT at pos is what the volume has there, or
\* one of any if it has none there or the sector fails.
MayRead(content, pos, any) ==
  LET good == Readable /\ pos \in DOMAIN content
  IN  {[value |-> IF good THEN content[pos] ELSE v, bad |-> 0] : v \in any}
        \cup {[value |-> v, bad |-> 1] : v \in IF faults < MaxFaults THEN any ELSE {}}

AnyEntry == {[name |-> n, attribute |-> {}, cluster |-> 2, size |-> 0] : n \in {"end", "other", filename}}

AnyCluster == {0, 2, EndOfChain}

----------------------------------------------------------------------------
(* fat16_init, with its result ignored.                                    *)
ClusterSizes == {1, 2, 4, 8, 16, 32, 64, 128}

\* What fat16_read_bpb has stored when it returns, true or false.
fat16_read_bpb(b) ==
  IF b.jump = "bad" THEN ZeroBpb
  ELSE IF b.bytes_per_sector # SectorSize
    THEN [ZeroBpb EXCEPT !.bytes_per_sector = b.bytes_per_sector]
  ELSE IF b.sectors_per_cluster \notin ClusterSizes
    THEN [ZeroBpb EXCEPT !.bytes_per_sector = b.bytes_per_sector,
                         !.sectors_per_cluster = b.sectors_per_cluster]
  ELSE [f \in DOMAIN ZeroBpb |-> b[f]]

RootSectors(b) == (b.root_entry_count * EntrySize) \div b.bytes_per_sector

ClusterCount(b) ==
  ((b.sector_count - (b.reserved_sector_count + b.num_fats * b.fat_size + RootSectors(b))) % Word)
    \div b.sectors_per_cluster

LayoutOf(b) ==
  IF ClusterCount(b) < MinClusters \/ ClusterCount(b) >= MaxClusters THEN NoLayout
  ELSE LET fat == b.reserved_sector_count * b.bytes_per_sector
           root == fat + b.num_fats * b.fat_size * b.bytes_per_sector
       IN  [fat |-> fat, root |-> root, data |-> root + RootSectors(b) * b.bytes_per_sector]

fat16_init ==
  /\ pc2 = "fat16_init"
  /\ \E r \in MayRead([pos \in {0} |-> Volume.bpb], 0, Bpbs) :
       LET stored == fat16_read_bpb(r.value)
       IN  /\ bpb' = stored
           /\ faults' = faults + r.bad
           /\ IF stored.bytes_per_sector = 0 \/ stored.sectors_per_cluster = 0
                THEN pc2' = "divide_error" /\ UNCHANGED <<layout, disk_pointer, filename>>
                ELSE /\ pc2' = "root"
                     /\ layout' = LayoutOf(stored)
                     /\ disk_pointer' = LayoutOf(stored).root
                     /\ filename' = "BOOT"
  /\ UNCHANGED <<a20vars, diskvars, handle, image>>

----------------------------------------------------------------------------
(* navigate_to_subdir: BOOT in the root directory.                         *)
VFAT_DIR_ENTRY == {"read_only", "hidden", "system", "volume"}

Skipped(e) == e.name = "free" \/ (e.name # "end" /\ VFAT_DIR_ENTRY \subseteq e.attribute)

\* The root directory is read from where the entry before has left disk_pointer.
find_root_directory_entry ==
  /\ pc2 = "root"
  /\ disk_pointer < layout.root + bpb.root_entry_count * EntrySize
  /\ \E r \in MayRead(Volume.entries, disk_pointer, AnyEntry) :
       /\ faults' = faults + r.bad
       /\ disk_pointer' = disk_pointer + EntrySize
       /\ pc2' = IF Skipped(r.value) THEN "root"
                 ELSE IF r.value.name = "end" THEN "navigate_failed"
                 ELSE IF r.value.name = filename THEN "root_entry" ELSE "root"
  /\ UNCHANGED <<a20vars, diskvars, mountvars, handle, filename, image>>

root_exhausted ==
  /\ pc2 = "root"
  /\ disk_pointer >= layout.root + bpb.root_entry_count * EntrySize
  /\ pc2' = "navigate_failed"
  /\ UNCHANGED <<a20vars, diskvars, mountvars, filevars>>

Opened(e) == [cluster |-> e.cluster, offset |-> 0, remaining |-> e.size]

\* The entry is read once more.
open_directory_in_root ==
  /\ pc2 = "root_entry"
  /\ \E r \in MayRead(Volume.entries, disk_pointer - EntrySize, AnyEntry) :
       /\ faults' = faults + r.bad
       /\ IF "volume" \in r.value.attribute
            THEN pc2' = "navigate_failed" /\ UNCHANGED <<handle, filename>>
            ELSE pc2' = "subdir" /\ handle' = Opened(r.value) /\ filename' = "KERNEL0"
  /\ UNCHANGED <<a20vars, diskvars, mountvars, disk_pointer, image>>

\* fat16_read goes on with a handle that was never written, and searches wherever
\* it points for a file named BOOT.
open_with_no_handle ==
  /\ pc2 = "navigate_failed"
  /\ \/ pc2' = "kernel" /\ image' \in {<< >>, <<<<"junk">>>>}
     \/ pc2' = "hang" /\ image' = image
  /\ UNCHANGED <<a20vars, diskvars, mountvars, disk_pointer, handle, filename, faults>>

----------------------------------------------------------------------------
(* open_file_in_subdir: KERNEL0.ELF in BOOT.                               *)
ClusterBytes == bpb.sectors_per_cluster * bpb.bytes_per_sector

move_to_data_region(cluster, offset) ==
  (layout.data + (cluster - 2) * ClusterBytes + offset) % Word

move_to_fat_region(cluster) == layout.fat + cluster * FatEntrySize

next_cluster_of_subdir ==
  /\ pc2 = "subdir"
  /\ handle.offset = ClusterBytes
  /\ \E r \in MayRead(Volume.fat, move_to_fat_region(handle.cluster), AnyCluster) :
       /\ faults' = faults + r.bad
       /\ handle' = [handle EXCEPT !.cluster = r.value, !.offset = 0]
       /\ pc2' = IF r.value >= EndOfChain THEN "kernel" ELSE "subdir"
  /\ UNCHANGED <<a20vars, diskvars, mountvars, disk_pointer, filename, image>>

\* find_entry_in_subdir up to the entry that matches, and open_entry_in_subdir; when
\* it fails, so does fat16_read, and the kernel is entered all the same.
find_entry_in_subdir ==
  /\ pc2 = "subdir"
  /\ handle.offset # ClusterBytes
  /\ \E r \in MayRead(Volume.entries, move_to_data_region(handle.cluster, handle.offset), AnyEntry) :
       LET hit == ~Skipped(r.value) /\ r.value.name = filename
           opens == r.value.attribute \cap {"volume", "subdir"} = {}
       IN  /\ faults' = faults + r.bad
           /\ handle' = IF hit THEN Opened(r.value) ELSE [handle EXCEPT !.offset = @ + EntrySize]
           /\ pc2' = IF hit THEN (IF opens THEN "read_from_handle" ELSE "kernel")
                     ELSE IF r.value.name = "end" THEN "kernel" ELSE "subdir"
  /\ UNCHANGED <<a20vars, diskvars, mountvars, disk_pointer, filename, image>>

----------------------------------------------------------------------------
(* read_from_handle.                                                       *)
read_from_handle ==
  /\ pc2 = "read_from_handle"
  /\ IF handle.remaining = 0 \/ handle.cluster = 0
       THEN pc2' = "kernel" /\ disk_pointer' = disk_pointer
       ELSE /\ pc2' = "chunk"
            /\ disk_pointer' = move_to_data_region(handle.cluster, handle.offset)
  /\ UNCHANGED <<a20vars, diskvars, mountvars, handle, filename, image, faults>>

Least(S) == CHOOSE n \in S : \A m \in S : n <= m

ChunkLength ==
  Least({ksize - Len(image), ClusterBytes - handle.offset, handle.remaining})

read_chunk ==
  /\ pc2 = "chunk"
  /\ ksize > Len(image) /\ handle.remaining > 0
  /\ \E r \in Reads(ChunkLength) :
       /\ image' = image \o r.bytes
       /\ faults' = faults + r.bad
  /\ disk_pointer' = disk_pointer + ChunkLength
  /\ LET end == handle.offset + ChunkLength = ClusterBytes
     IN  /\ handle' = [handle EXCEPT !.remaining = @ - ChunkLength,
                         !.offset = IF end THEN 0 ELSE @ + ChunkLength]
         /\ pc2' = IF end /\ handle.remaining # ChunkLength THEN "hop" ELSE "chunk"
  /\ UNCHANGED <<a20vars, diskvars, mountvars, filename>>

\* A mistaken hop: disk_pointer stays behind the cluster that was read.
next_cluster_no_seek ==
  /\ pc2 = "hop"
  /\ \E r \in MayRead(Volume.fat, move_to_fat_region(handle.cluster), AnyCluster) :
       /\ handle' = [handle EXCEPT !.cluster = r.value]
       /\ faults' = faults + r.bad
  /\ pc2' = "chunk"
  /\ UNCHANGED <<a20vars, diskvars, mountvars, disk_pointer, filename, image>>

\* The end of the chain is taken for a cluster too.
next_cluster ==
  /\ pc2 = "hop"
  /\ \E r \in MayRead(Volume.fat, move_to_fat_region(handle.cluster), AnyCluster) :
       /\ handle' = [handle EXCEPT !.cluster = r.value]
       /\ faults' = faults + r.bad
       /\ disk_pointer' = move_to_data_region(r.value, handle.offset)
  /\ pc2' = "chunk"
  /\ UNCHANGED <<a20vars, diskvars, mountvars, filename, image>>

read_returns ==
  /\ pc2 = "chunk"
  /\ ksize = Len(image) \/ handle.remaining = 0
  /\ pc2' = "kernel"
  /\ UNCHANGED <<a20vars, diskvars, mountvars, filevars>>

fat16_read ==
  \/ find_root_directory_entry \/ root_exhausted \/ open_directory_in_root
  \/ open_with_no_handle
  \/ next_cluster_of_subdir \/ find_entry_in_subdir
  \/ read_from_handle \/ read_chunk \/ next_cluster \/ read_returns

stage2_main ==
  \/ identify_disk("master", "ata0m", "ata0s")
  \/ identify_disk("slave", "ata0s", "fat16_init")
  \/ fat16_init
  \/ fat16_read

Next2 == type_key \/ controller \/ enable_a20 \/ protected_mode \/ stage2_main
=============================================================================
