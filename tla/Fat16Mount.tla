----------------------------- MODULE Fat16Mount -----------------------------
(***************************************************************************)
(* Mounting a FAT16 volume: fat16_read_bpb and fat16_init of               *)
(* kernel/src/fs/fat16/fat16.c.  fat16_read_bpb reads the boot sector      *)
(* field by field, one step per field, from wherever the fields before it  *)
(* have left disk_pointer; fat16_init turns the fields into the layout.    *)
(*                                                                         *)
(* A boot sector is the function from the offset of a field to its value,  *)
(* for the fields somebody looks at.                                       *)
(***************************************************************************)
EXTENDS Integers

CONSTANTS
  Images,           \* the boot sectors the disk may hold
  SectorSize,       \* 512
  EntrySize,        \* 32, the size of a directory entry
  MinClusters,      \* 4085: with fewer clusters it is FAT12
  MaxClusters,      \* 65525: from here on it is FAT32
  MaxByte,          \* the largest uint8_t
  MaxHalf,          \* the largest uint16_t
  Word,             \* uint32_t arithmetic is modulo Word
  MAX_BYTES_PER_CLUSTER

\* External: where a FAT16 boot sector has its fields.
FieldOffset ==
  [bytes_per_sector |-> 11, sectors_per_cluster |-> 13, reserved_sector_count |-> 14,
   num_fats |-> 16, root_entry_count |-> 17, sector_count |-> 19, fat_size |-> 22]

Jump0 == 0
Jump2 == 2
SectorCount32 == 32
Signature == 38

ByteFields == {"sectors_per_cluster", "num_fats"}

Fields == {"bytes_per_sector", "sectors_per_cluster", "reserved_sector_count",
           "num_fats", "root_entry_count", "sector_count", "fat_size"}

Offsets == {Jump0, Jump2, 11, 13, 14, 16, 17, 19, 22, SectorCount32, Signature}

\* The values a uint8_t or uint16_t field can have.
Values(f) == IF f \in ByteFields THEN 0 .. MaxByte ELSE 0 .. MaxHalf

\* The values of sectors_per_cluster that fat16_read_bpb accepts.
ClusterSizes == {1, 2, 4, 8, 16, 32, 64, 128}

\* What the arithmetic needs from the integers' widths: neither the largest
\* overhead of a volume nor the largest volume comes near the word size.
ASSUME Fat16MountAssumption ==
  /\ SectorSize \in Nat \ {0}
  /\ EntrySize \in Nat \ {0}
  /\ MinClusters \in Nat \ {0} /\ MaxClusters \in Nat
  /\ MaxByte \in Nat /\ MaxHalf \in Nat /\ Word \in Nat \ {0}
  /\ MAX_BYTES_PER_CLUSTER \in Nat
  /\ \A i \in Images : /\ DOMAIN i = Offsets
                       /\ \A f \in Fields : i[FieldOffset[f]] \in Values(f)
  /\ MaxHalf + MaxByte * MaxHalf + MaxHalf * EntrySize + 128 * MaxClusters < Word
  /\ MaxHalf * SectorSize < Word
  /\ \A n \in ClusterSizes :
       n * MinClusters <= MaxHalf => n * SectorSize <= MAX_BYTES_PER_CLUSTER

VARIABLES
  image,            \* the boot sector on the disk
  disk_pointer,     \* where the next byte is read
  bpb,              \* the FAT16BPB
  layout,           \* the FAT16Layout
  pc,               \* the field read next, or the phase
  ret               \* the value returned, -1 while running

vars == <<image, disk_pointer, bpb, layout, pc, ret>>

NoLayout == [start_fat_region |-> 0, start_root_directory_region |-> 0,
             start_data_region |-> 0, data_cluster_count |-> 0]

\* disk_pointer = 0, the memset of bpb, and dev->seek(layout.offset); the kernel
\* mounts the volume at offset 0.
Init ==
  /\ image \in Images
  /\ disk_pointer = 0
  /\ bpb = [f \in Fields |-> 0]
  /\ layout = NoLayout
  /\ pc = "jump"
  /\ ret = -1

----------------------------------------------------------------------------
(* fat16_read_bpb.                                                         *)

\* The FAT_ERROR enumeration.
INAVLID_JUMP_INSTRUCTION == 0
INVALID_BYTES_PER_SECTOR == 1
INVALID_SECTORS_PER_CLUSTER == 2
INVALID_SECTOR_COUNT == 5

\* The disk's content at a position that is no field's offset does not matter.
At(p) == IF p \in Offsets THEN image[p] ELSE 0

\* n bytes are consumed and the code goes on at next.
Advance(n, next) ==
  /\ disk_pointer' = disk_pointer + n
  /\ pc' = next
  /\ UNCHANGED <<image, layout, ret>>

\* fat16_read_bpb returns the code after n bytes; fat16_init's test
\* `if(ret > 0) return ret` takes code 0 for success.
Fail(n, code) ==
  /\ disk_pointer' = disk_pointer + n
  /\ IF code > 0 THEN pc' = "done" /\ ret' = code ELSE pc' = "layout" /\ ret' = ret
  /\ UNCHANGED <<image, layout>>

\* dev->read(&bpb.<f>, n)
Store(f) == pc = f /\ bpb' = [bpb EXCEPT ![f] = At(disk_pointer)]

ReadField(f, n, next) == Store(f) /\ Advance(n, next)

\* A field that is read and thrown away.
Skip(label, n, next) == pc = label /\ bpb' = bpb /\ Advance(n, next)

GoodJump == image[Jump0] = 233 \/ (image[Jump0] = 235 /\ image[Jump2] = 144)

read_jump ==
  /\ pc = "jump"
  /\ bpb' = bpb
  /\ \/ GoodJump /\ Advance(3, "oem_name")
     \/ ~GoodJump /\ Fail(IF image[Jump0] = 235 THEN 3 ELSE 1, INAVLID_JUMP_INSTRUCTION)

read_oem_name == Skip("oem_name", 8, "bytes_per_sector")

read_bytes_per_sector ==
  /\ Store("bytes_per_sector")
  /\ \/ At(disk_pointer) = SectorSize /\ Advance(2, "sectors_per_cluster")
     \/ At(disk_pointer) # SectorSize /\ Fail(2, INVALID_BYTES_PER_SECTOR)

read_sectors_per_cluster ==
  /\ Store("sectors_per_cluster")
  /\ \/ At(disk_pointer) \in ClusterSizes /\ Advance(1, "reserved_sector_count")
     \/ At(disk_pointer) \notin ClusterSizes /\ Fail(1, INVALID_SECTORS_PER_CLUSTER)

read_reserved_sector_count == ReadField("reserved_sector_count", 2, "num_fats")

read_num_fats == ReadField("num_fats", 1, "root_entry_count")

read_root_entry_count == ReadField("root_entry_count", 2, "sector_count")

read_sector_count == ReadField("sector_count", 2, "media")

\* A mistaken reader: the media byte is taken for part of the field before it.
skip_media_forgotten == Skip("media", 0, "fat_size")

skip_media == Skip("media", 1, "fat_size")

read_fat_size == ReadField("fat_size", 2, "geometry")

skip_geometry == Skip("geometry", 8, "sector_count_32")

\* Exactly one of the two sector counts is in use.
OneSectorCount(c16, c32) == (c16 = 0) # (c32 = 0)

read_sector_count_32 ==
  /\ pc = "sector_count_32"
  /\ bpb' = bpb
  /\ \/ OneSectorCount(bpb["sector_count"], At(disk_pointer)) /\ Advance(4, "drive")
     \/ /\ ~OneSectorCount(bpb["sector_count"], At(disk_pointer))
        /\ Fail(4, INVALID_SECTOR_COUNT)

skip_drive == Skip("drive", 2, "signature")

\* The volume id, label and type behind the signature are read and not used.
read_signature ==
  /\ pc = "signature"
  /\ bpb' = bpb
  /\ Advance(IF At(disk_pointer) = 41 THEN 24 ELSE 1, "layout")

----------------------------------------------------------------------------
(* The rest of fat16_init.                                                 *)
RootDirectorySectors(b) ==
  (b["root_entry_count"] * EntrySize) \div b["bytes_per_sector"]

Overhead(b) ==
  b["reserved_sector_count"] + b["num_fats"] * b["fat_size"] + RootDirectorySectors(b)

\* Mistaken arithmetic: the copies of the FAT are not counted.
DataSectorsOneFat(b) ==
  (b["sector_count"]
     - (b["reserved_sector_count"] + b["fat_size"] + RootDirectorySectors(b))) % Word

\* data_sector_count is a uint32_t: it wraps when the overhead is too large.
DataSectors(b) == (b["sector_count"] - Overhead(b)) % Word

DataClusters(b) == DataSectors(b) \div b["sectors_per_cluster"]

\* A mistaken test: the lower bound is left out.
IsFat16NoLower(n) == n < MaxClusters

IsFat16(n) == n >= MinClusters /\ n < MaxClusters

LayoutOf(b) ==
  LET fat == (b["reserved_sector_count"] * b["bytes_per_sector"]) % Word
      root == (((b["num_fats"] * b["fat_size"]) % Word) * b["bytes_per_sector"] + fat) % Word
      data == (RootDirectorySectors(b) * b["bytes_per_sector"] + root) % Word
  IN  [start_fat_region |-> fat, start_root_directory_region |-> root,
       start_data_region |-> data, data_cluster_count |-> DataClusters(b)]

\* After an accepted bad jump instruction bpb is all zeros: the division by
\* bytes_per_sector faults, and the handler of vector 0 returns to it.
divide_error ==
  /\ pc = "layout"
  /\ bpb["bytes_per_sector"] = 0
  /\ pc' = "fault"
  /\ UNCHANGED <<image, disk_pointer, bpb, layout, ret>>

init_layout ==
  /\ pc = "layout"
  /\ bpb["bytes_per_sector"] # 0
  /\ pc' = "done"
  /\ \/ /\ IsFat16(DataClusters(bpb))
        /\ layout' = LayoutOf(bpb)
        /\ ret' = 0
     \/ /\ ~IsFat16(DataClusters(bpb))
        /\ layout' = [layout EXCEPT !.data_cluster_count = DataClusters(bpb)]
        /\ ret' = 100
  /\ UNCHANGED <<image, disk_pointer, bpb>>

fat16_read_bpb ==
  \/ read_jump \/ read_oem_name
  \/ read_bytes_per_sector \/ read_sectors_per_cluster
  \/ read_reserved_sector_count \/ read_num_fats \/ read_root_entry_count
  \/ read_sector_count \/ skip_media \/ read_fat_size \/ skip_geometry
  \/ read_sector_count_32 \/ skip_drive \/ read_signature

fat16_init == fat16_read_bpb \/ init_layout \/ divide_error

Next == fat16_init

Spec == Init /\ [][Next]_vars

----------------------------------------------------------------------------
\* The boot sector's own value of a field, and the volume it describes.
On(f) == image[FieldOffset[f]]

Mounted == pc = "done" /\ ret = 0

SectorsOnDisk == On("sector_count")

RootSectorsOnDisk == (On("root_entry_count") * EntrySize) \div SectorSize

DataSectorsOnDisk ==
  SectorsOnDisk - On("reserved_sector_count") - On("num_fats") * On("fat_size")
    - RootSectorsOnDisk

(***************************************************************************)
(* The reads and skips of fat16_read_bpb stay in step with the boot        *)
(* sector: when a volume is mounted each field of bpb has the value stored *)
(* at its own offset, and the two sector counts were told apart.           *)
(***************************************************************************)
BpbMatchesDisk ==
  Mounted => /\ \A f \in Fields : bpb[f] = On(f)
             /\ OneSectorCount(On("sector_count"), image[SectorCount32])

(***************************************************************************)
(* A mounted volume lies inside its partition: the regions follow one      *)
(* another, and the data region with all its clusters ends before the last *)
(* sector.  (data_sector_count may wrap, and so may the layout's products: *)
(* every volume where that happens is refused by the cluster count.)       *)
(***************************************************************************)
LayoutInsideVolume ==
  Mounted =>
    /\ layout.start_fat_region <= layout.start_root_directory_region
    /\ layout.start_root_directory_region <= layout.start_data_region
    /\ layout.start_data_region
         + layout.data_cluster_count * On("sectors_per_cluster") * SectorSize
         <= SectorsOnDisk * SectorSize

(***************************************************************************)
(* Only a volume whose data region, counted without wrapping, has as many  *)
(* clusters as a FAT16 volume may have is mounted.                         *)
(***************************************************************************)
OnlyFat16Mounted ==
  Mounted => /\ On("sectors_per_cluster") * MinClusters <= DataSectorsOnDisk
             /\ DataSectorsOnDisk < On("sectors_per_cluster") * MaxClusters

(***************************************************************************)
(* MAX_BYTES_PER_CLUSTER bounds the cluster size of a mounted volume, so   *)
(* that EntryHandle.offset, a uint16_t, can reach the end of a cluster.    *)
(* fat16_read_bpb accepts 128 sectors per cluster, which would be more;    *)
(* but a volume has less than 2^16 sectors here, and then the lower bound  *)
(* on the number of clusters refuses it.                                   *)
(***************************************************************************)
ClusterWithinMax ==
  Mounted => On("sectors_per_cluster") * SectorSize <= MAX_BYTES_PER_CLUSTER

(***************************************************************************)
(* A boot sector for which fat16_read_bpb returns an error of FAT_ERROR is *)
(* refused: fat16_init never goes on to the layout with it.                *)
(***************************************************************************)
BadJumpRefused == pc \in {"layout", "fault"} => GoodJump
=============================================================================
