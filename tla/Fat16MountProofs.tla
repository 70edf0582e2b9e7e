-------------------------- MODULE Fat16MountProofs --------------------------
(***************************************************************************)
(* Proofs about Fat16Mount for every set of boot sectors and every width   *)
(* of the integers that satisfies Fat16MountAssumption.                    *)
(*                                                                         *)
(* The inductive invariant says where disk_pointer stands before each      *)
(* field and which fields of bpb are known by then.  The layout's          *)
(* arithmetic is a matter of one lemma, DataSectorsDoNotWrap: a cluster    *)
(* count that passes the test comes from a subtraction that did not wrap.  *)
(***************************************************************************)
EXTENDS Fat16Mount, TLAPS

\* Where disk_pointer stands when a field is about to be read.
PointerInPlace ==
  /\ pc = "jump" => disk_pointer = 0
  /\ pc = "oem_name" => disk_pointer = 3
  /\ pc = "bytes_per_sector" => disk_pointer = 11
  /\ pc = "sectors_per_cluster" => disk_pointer = 13
  /\ pc = "reserved_sector_count" => disk_pointer = 14
  /\ pc = "num_fats" => disk_pointer = 16
  /\ pc = "root_entry_count" => disk_pointer = 17
  /\ pc = "sector_count" => disk_pointer = 19
  /\ pc = "media" => disk_pointer = 21
  /\ pc = "fat_size" => disk_pointer = 22
  /\ pc = "geometry" => disk_pointer = 24
  /\ pc = "sector_count_32" => disk_pointer = 32

Labels == {"jump", "oem_name", "bytes_per_sector", "sectors_per_cluster",
           "reserved_sector_count", "num_fats", "root_entry_count", "sector_count",
           "media", "fat_size", "geometry", "sector_count_32", "drive", "signature",
           "layout", "fault", "done"}

Same(f) == bpb[f] = On(f)

After1 == {"sectors_per_cluster", "reserved_sector_count", "num_fats", "root_entry_count",
           "sector_count", "media", "fat_size", "geometry", "sector_count_32", "drive",
           "signature"}
After2 == After1 \ {"sectors_per_cluster"}
After3 == After2 \ {"reserved_sector_count"}
After4 == After3 \ {"num_fats"}
After5 == After4 \ {"root_entry_count"}
After6 == After5 \ {"sector_count"}
After7 == After6 \ {"media", "fat_size"}
After8 == {"drive", "signature"}

\* What has been read and tested at a label.
Read ==
  /\ pc = "jump" => bpb = [f \in Fields |-> 0]
  /\ pc \in After1 => Same("bytes_per_sector") /\ bpb["bytes_per_sector"] = SectorSize
  /\ pc \in After2 => /\ Same("sectors_per_cluster")
                      /\ bpb["sectors_per_cluster"] \in ClusterSizes
  /\ pc \in After3 => Same("reserved_sector_count")
  /\ pc \in After4 => Same("num_fats")
  /\ pc \in After5 => Same("root_entry_count")
  /\ pc \in After6 => Same("sector_count")
  /\ pc \in After7 => Same("fat_size")
  /\ pc \in After8 => OneSectorCount(On("sector_count"), image[SectorCount32])

\* The boot sector passed every test of fat16_read_bpb.
Passed ==
  /\ \A f \in Fields : bpb[f] = On(f)
  /\ bpb["bytes_per_sector"] = SectorSize
  /\ bpb["sectors_per_cluster"] \in ClusterSizes
  /\ OneSectorCount(On("sector_count"), image[SectorCount32])

MountInv ==
  /\ image \in Images
  /\ bpb \in [Fields -> Int]
  /\ pc \in Labels
  /\ pc \notin {"done"} => ret = -1
  /\ PointerInPlace
  /\ Read
  /\ pc = "layout" => Passed \/ bpb["bytes_per_sector"] = 0
  /\ Mounted => /\ Passed
                /\ IsFat16(DataClusters(bpb))
                /\ layout = LayoutOf(bpb)

----------------------------------------------------------------------------
LEMMA InitMountInv == Init => MountInv
BY DEF Init, MountInv, Labels, PointerInPlace, Read, After1, After2, After3, After4,
       After5, After6, After7, After8, Mounted, Fields

LEMMA FieldPlaces ==
  /\ At(11) = On("bytes_per_sector")
  /\ At(13) = On("sectors_per_cluster")
  /\ At(14) = On("reserved_sector_count")
  /\ At(16) = On("num_fats")
  /\ At(17) = On("root_entry_count")
  /\ At(19) = On("sector_count")
  /\ At(22) = On("fat_size")
  /\ At(32) = image[SectorCount32]
BY DEF At, On, FieldOffset, Offsets, SectorCount32

LEMMA FieldValues ==
  ASSUME MountInv
  PROVE  \A f \in Fields : On(f) \in Nat
BY Fat16MountAssumption DEF MountInv, On, Values

LEMMA NextMountInv == MountInv /\ [Next]_vars => MountInv'
<1> SUFFICES ASSUME MountInv, [Next]_vars PROVE MountInv'
  OBVIOUS
<1> USE DEF MountInv, Labels, PointerInPlace, Mounted
<1> USE DEF After1, After2, After3, After4, After5, After6, After7, After8
<1>0. CASE UNCHANGED vars
  BY <1>0 DEF vars, Read, Same, On, Passed, DataClusters, DataSectors, Overhead,
     RootDirectorySectors, LayoutOf
<1>1. CASE read_jump
  BY <1>1 DEF read_jump, Advance, Fail, INAVLID_JUMP_INSTRUCTION, Read, Fields
<1>2. CASE read_oem_name
  BY <1>2 DEF read_oem_name, Skip, Advance, Read
<1>3. CASE read_bytes_per_sector
  BY <1>3, FieldPlaces, FieldValues DEF read_bytes_per_sector, Store, Advance, Fail,
     INVALID_BYTES_PER_SECTOR, Read, Same, On, Fields
<1>4. CASE read_sectors_per_cluster
  BY <1>4, FieldPlaces, FieldValues DEF read_sectors_per_cluster, Store, Advance, Fail,
     INVALID_SECTORS_PER_CLUSTER, Read, Same, On, Fields
<1>5. CASE read_reserved_sector_count
  BY <1>5, FieldPlaces, FieldValues DEF read_reserved_sector_count, ReadField, Store,
     Advance, Read, Same, On, Fields
<1>6. CASE read_num_fats
  BY <1>6, FieldPlaces, FieldValues DEF read_num_fats, ReadField, Store,
     Advance, Read, Same, On, Fields
<1>7. CASE read_root_entry_count
  BY <1>7, FieldPlaces, FieldValues DEF read_root_entry_count, ReadField, Store,
     Advance, Read, Same, On, Fields
<1>8. CASE read_sector_count
  BY <1>8, FieldPlaces, FieldValues DEF read_sector_count, ReadField, Store,
     Advance, Read, Same, On, Fields
<1>9. CASE skip_media
  BY <1>9 DEF skip_media, Skip, Advance, Read, Same, On
<1>10. CASE read_fat_size
  BY <1>10, FieldPlaces, FieldValues DEF read_fat_size, ReadField, Store,
     Advance, Read, Same, On, Fields
<1>11. CASE skip_geometry
  BY <1>11 DEF skip_geometry, Skip, Advance, Read, Same, On
<1>12. CASE read_sector_count_32
  BY <1>12, FieldPlaces DEF read_sector_count_32, Advance, Fail, INVALID_SECTOR_COUNT,
     Read, Same, On
<1>13. CASE skip_drive
  BY <1>13 DEF skip_drive, Skip, Advance, Read, Same, On
<1>14. CASE read_signature
  <2>1. Passed'
    BY <1>14 DEF read_signature, Advance, Read, Same, On, Passed, Fields
  <2>2. QED
    BY <1>14, <2>1 DEF read_signature, Advance, Read
<1>15. CASE divide_error
  BY <1>15 DEF divide_error, Read
<1>16. CASE init_layout
  <2>1. Passed'
    BY <1>16 DEF init_layout, Passed, On
  <2>2. CASE ret' = 0
    BY <1>16, <2>1, <2>2 DEF init_layout, Read, DataClusters, DataSectors, Overhead,
       RootDirectorySectors, LayoutOf
  <2>3. CASE ret' # 0
    BY <1>16, <2>3 DEF init_layout, Read
  <2>4. QED
    BY <2>2, <2>3
<1>17. QED
  BY <1>0, <1>1, <1>2, <1>3, <1>4, <1>5, <1>6, <1>7, <1>8, <1>9, <1>10, <1>11, <1>12,
     <1>13, <1>14, <1>15, <1>16 DEF Next, fat16_init, fat16_read_bpb

----------------------------------------------------------------------------
(* Arithmetic.                                                             *)
LEMMA ProductMonotone ==
  ASSUME NEW a \in Nat, NEW b \in Nat, NEW c \in Nat, a <= b
  PROVE  a * c <= b * c /\ a * c \in Nat /\ b * c \in Nat
<1>1. PICK d \in Nat : b = a + d
  <2>1. b - a \in Nat /\ b = a + (b - a)
    OBVIOUS
  <2>2. QED
    BY <2>1
<1>2. b * c = a * c + d * c
  BY <1>1
<1>3. d * c >= 0 /\ a * c \in Nat /\ b * c \in Nat /\ d * c \in Nat
  OBVIOUS
<1>4. QED
  BY <1>2, <1>3

LEMMA ProductBound ==
  ASSUME NEW a \in Nat, NEW b \in Nat, NEW m \in Nat, NEW n \in Nat, a <= m, b <= n
  PROVE  a * b <= m * n /\ a * b \in Nat
<1>1. a * b <= m * b
  BY ProductMonotone
<1>2. b * m <= n * m
  BY ProductMonotone
<1>3. m * b = b * m /\ m * n = n * m /\ a * b \in Nat /\ m * b \in Nat /\ m * n \in Nat
  OBVIOUS
<1>4. QED
  BY <1>1, <1>2, <1>3

LEMMA Quotient ==
  ASSUME NEW x \in Nat, NEW y \in Nat \ {0}
  PROVE  /\ x \div y \in Nat
         /\ (x \div y) * y <= x
         /\ x < (x \div y) * y + y
         /\ x \div y <= x
<1>1. /\ x \div y \in Int
      /\ x = y * (x \div y) + (x % y)
      /\ x % y \in 0 .. y - 1
  OBVIOUS
<1>2. y * (x \div y) = (x \div y) * y
  BY <1>1
<1>3. x \div y >= 0
  BY <1>1
<1>4. 1 * (x \div y) <= y * (x \div y)
  BY <1>1, <1>3, ProductMonotone
<1>5. QED
  BY <1>1, <1>2, <1>3, <1>4

\* A number that lies below the word size does not wrap; a negative one does.
LEMMA WordRange ==
  ASSUME NEW x \in Int
  PROVE  /\ (0 <= x /\ x < Word) => x % Word = x
         /\ (x < 0 /\ -Word < x) => x % Word = x + Word
         /\ x % Word \in Nat
BY Fat16MountAssumption

----------------------------------------------------------------------------
(* The layout of a boot sector that passed the tests.                      *)

\* The terms of the layout as numbers of sectors.
LEMMA Terms ==
  ASSUME image \in Images, Passed
  PROVE  /\ bpb["sector_count"] \in 0 .. MaxHalf
         /\ bpb["reserved_sector_count"] \in 0 .. MaxHalf
         /\ bpb["num_fats"] * bpb["fat_size"] \in 0 .. MaxByte * MaxHalf
         /\ RootDirectorySectors(bpb) \in 0 .. MaxHalf * EntrySize
<1>1. \A f \in Fields : bpb[f] \in Values(f)
  BY Fat16MountAssumption DEF Passed, On
<1>2. /\ bpb["sector_count"] \in 0 .. MaxHalf
      /\ bpb["reserved_sector_count"] \in 0 .. MaxHalf
      /\ bpb["root_entry_count"] \in 0 .. MaxHalf
      /\ bpb["fat_size"] \in 0 .. MaxHalf
      /\ bpb["num_fats"] \in 0 .. MaxByte
  BY <1>1 DEF Fields, Values, ByteFields
<1>0. MaxHalf \in Nat /\ MaxByte \in Nat /\ EntrySize \in Nat /\ SectorSize \in Nat \ {0}
  BY Fat16MountAssumption
<1>3. bpb["num_fats"] * bpb["fat_size"] \in 0 .. MaxByte * MaxHalf
  <2> DEFINE a == bpb["num_fats"]
             b == bpb["fat_size"]
  <2>1. a \in Nat /\ b \in Nat /\ a <= MaxByte /\ b <= MaxHalf
    BY <1>0, <1>2
  <2> HIDE DEF a, b
  <2>2. a * b <= MaxByte * MaxHalf /\ a * b \in Nat
    BY <1>0, <2>1, ProductBound
  <2>3. a * b \in 0 .. MaxByte * MaxHalf
    BY <1>0, <2>2
  <2>4. QED
    BY <2>3 DEF a, b
<1>4. bpb["root_entry_count"] * EntrySize \in 0 .. MaxHalf * EntrySize
  <2> DEFINE a == bpb["root_entry_count"]
  <2>1. a \in Nat /\ a <= MaxHalf
    BY <1>0, <1>2
  <2> HIDE DEF a
  <2>2. a * EntrySize <= MaxHalf * EntrySize /\ a * EntrySize \in Nat
    BY <1>0, <2>1, ProductMonotone
  <2>3. a * EntrySize \in 0 .. MaxHalf * EntrySize
    BY <1>0, <2>2
  <2>4. QED
    BY <2>3 DEF a
<1>5. RootDirectorySectors(bpb) \in 0 .. MaxHalf * EntrySize
  <2>1. bpb["bytes_per_sector"] = SectorSize
    BY DEF Passed
  <2>2. /\ (bpb["root_entry_count"] * EntrySize) \div SectorSize \in Nat
        /\ (bpb["root_entry_count"] * EntrySize) \div SectorSize
             <= bpb["root_entry_count"] * EntrySize
    BY <1>0, <1>4, Quotient
  <2>3. QED
    BY <1>0, <1>4, <2>1, <2>2 DEF RootDirectorySectors
<1>6. QED
  BY <1>2, <1>3, <1>5

\* If the overhead exceeded the volume, data_sector_count would wrap to a number
\* with too many clusters even at 128 sectors per cluster.
LEMMA DataSectorsDoNotWrap ==
  ASSUME image \in Images, Passed, IsFat16(DataClusters(bpb))
  PROVE  /\ Overhead(bpb) \in Nat
         /\ Overhead(bpb) <= bpb["sector_count"]
         /\ DataSectors(bpb) = bpb["sector_count"] - Overhead(bpb)
         /\ DataSectors(bpb) \in Nat
<1> DEFINE s == bpb["sector_count"]
           over == Overhead(bpb)
           r == bpb["reserved_sector_count"]
           p == bpb["num_fats"] * bpb["fat_size"]
           d == RootDirectorySectors(bpb)
           c == bpb["sectors_per_cluster"]
<1>0. over = r + p + d /\ DataSectors(bpb) = (s - over) % Word
  BY DEF Overhead, DataSectors
<1>1. /\ s \in 0 .. MaxHalf /\ r \in 0 .. MaxHalf
      /\ p \in 0 .. MaxByte * MaxHalf
      /\ d \in 0 .. MaxHalf * EntrySize
  BY Terms
<1>2. /\ MaxHalf \in Nat /\ MaxByte * MaxHalf \in Nat /\ MaxHalf * EntrySize \in Nat
      /\ 128 * MaxClusters \in Nat /\ MaxClusters \in Nat /\ Word \in Nat
      /\ MaxHalf + MaxByte * MaxHalf + MaxHalf * EntrySize + 128 * MaxClusters < Word
  BY Fat16MountAssumption
<1> HIDE DEF s, over, r, p, d
<1>3. /\ over \in Nat /\ s - over \in Int
      /\ s - over < Word
      /\ -Word < s - over
      /\ s - over + Word > 128 * MaxClusters
  BY <1>0, <1>1, <1>2
<1>4. c \in ClusterSizes /\ DataSectors(bpb) \div c < MaxClusters
  BY DEF Passed, IsFat16, DataClusters
<1>5. ASSUME s < over PROVE FALSE
  <2>1. (s - over) % Word = s - over + Word
    BY <1>1, <1>3, <1>5, WordRange
  <2> DEFINE x == DataSectors(bpb)
  <2>2. x \in Nat /\ x > 128 * MaxClusters
    BY <1>0, <1>2, <1>3, <2>1
  <2> HIDE DEF x, c
  <2>3. c \in Nat \ {0} /\ c <= 128
    BY <1>4 DEF ClusterSizes
  <2>4. x < (x \div c) * c + c /\ x \div c \in Nat
    BY <2>2, <2>3, Quotient
  <2>5. (x \div c) + 1 <= MaxClusters /\ (x \div c) + 1 \in Nat
    BY <1>2, <1>4, <2>4 DEF x
  <2>6. ((x \div c) + 1) * c <= MaxClusters * 128
    BY <1>2, <2>3, <2>5, ProductBound
  <2>7. ((x \div c) + 1) * c = (x \div c) * c + c
    BY <2>3, <2>4
  <2>8. MaxClusters * 128 = 128 * MaxClusters /\ (x \div c) * c \in Nat
    BY <1>2, <2>3, <2>4
  <2>9. QED
    BY <1>2, <2>2, <2>3, <2>4, <2>6, <2>7, <2>8
<1>6. over <= s
  BY <1>1, <1>2, <1>3, <1>5
<1>7. (s - over) % Word = s - over
  BY <1>1, <1>3, <1>6, WordRange
<1>8. QED
  BY <1>0, <1>1, <1>3, <1>6, <1>7 DEF s, over

\* None of the layout's products wraps either.
LEMMA LayoutDoesNotWrap ==
  ASSUME image \in Images, Passed, IsFat16(DataClusters(bpb))
  PROVE  LET r == bpb["reserved_sector_count"] * SectorSize
             p == (bpb["num_fats"] * bpb["fat_size"]) * SectorSize
             d == RootDirectorySectors(bpb) * SectorSize
             l == LayoutOf(bpb)
         IN  /\ r \in Nat /\ p \in Nat /\ d \in Nat
             /\ l.start_fat_region = r
             /\ l.start_root_directory_region = r + p
             /\ l.start_data_region = r + p + d
             /\ r + p + d = Overhead(bpb) * SectorSize
<1> DEFINE r == bpb["reserved_sector_count"]
           p == bpb["num_fats"] * bpb["fat_size"]
           d == RootDirectorySectors(bpb)
           s == bpb["sector_count"]
           over == Overhead(bpb)
           S == SectorSize
<1>1. /\ r \in Nat /\ p \in Nat /\ d \in Nat /\ s \in Nat /\ s <= MaxHalf
  BY Terms, Fat16MountAssumption
<1>2. over = r + p + d /\ over <= s
  BY DataSectorsDoNotWrap DEF Overhead
<1>3. S \in Nat /\ MaxHalf \in Nat /\ MaxHalf * S < Word /\ Word \in Nat /\ 0 < S
  BY Fat16MountAssumption
<1>4. LayoutOf(bpb).start_fat_region = (r * S) % Word
  BY DEF LayoutOf, Passed
<1>5. LayoutOf(bpb).start_root_directory_region
        = ((p % Word) * S + ((r * S) % Word)) % Word
  BY DEF LayoutOf, Passed
<1>6. LayoutOf(bpb).start_data_region
        = (d * S + (((p % Word) * S + ((r * S) % Word)) % Word)) % Word
  BY DEF LayoutOf, Passed
<1> HIDE DEF r, p, d, s, over, S
<1>7. /\ r * S \in Nat /\ p * S \in Nat /\ d * S \in Nat /\ over * S \in Nat
      /\ over * S = r * S + p * S + d * S
  <2>1. over * S = (r + p + d) * S
    BY <1>2
  <2>2. (r + p + d) * S = r * S + p * S + d * S
    BY <1>1, <1>3
  <2>3. QED
    BY <1>1, <1>3, <2>1, <2>2
<1>8. over * S < Word
  <2>1. over * S <= MaxHalf * S /\ MaxHalf * S \in Nat
    BY <1>1, <1>2, <1>3, ProductMonotone
  <2>2. QED
    BY <1>3, <1>7, <2>1
<1>9. p < Word
  <2>1. p * 1 <= S * p
    <3>1. 1 * p <= S * p
      BY <1>1, <1>3, ProductMonotone
    <3>2. QED
      BY <1>1, <3>1
  <2>2. S * p = p * S
    BY <1>1, <1>3
  <2>3. QED
    BY <1>1, <1>3, <1>7, <1>8, <2>1, <2>2
<1>10. (r * S) % Word = r * S /\ p % Word = p
  <2>1. r * S \in Int /\ 0 <= r * S /\ r * S < Word
    BY <1>3, <1>7, <1>8
  <2>2. p \in Int /\ 0 <= p /\ p < Word
    BY <1>1, <1>9
  <2>3. QED
    BY <2>1, <2>2, WordRange
<1>11. (p * S + r * S) % Word = p * S + r * S
  BY <1>3, <1>7, <1>8, WordRange
<1>12. (d * S + (p * S + r * S)) % Word = d * S + (p * S + r * S)
  BY <1>3, <1>7, <1>8, WordRange
<1>13. /\ LayoutOf(bpb).start_fat_region = r * S
       /\ LayoutOf(bpb).start_root_directory_region = r * S + p * S
       /\ LayoutOf(bpb).start_data_region = r * S + p * S + d * S
  BY <1>4, <1>5, <1>6, <1>7, <1>10, <1>11, <1>12
<1>14. QED
  BY <1>7, <1>13 DEF r, p, d, over, S

----------------------------------------------------------------------------
\* The reads and skips of fat16_read_bpb stay in step with the boot sector.
THEOREM MountReadsBpb == Spec => []BpbMatchesDisk
<1>1. MountInv => BpbMatchesDisk
  BY DEF MountInv, BpbMatchesDisk, Passed
<1>2. QED
  BY InitMountInv, NextMountInv, <1>1, PTL DEF Spec

\* A mounted volume's regions are in order and inside the partition, although
\* fat16_init computes them with integers that wrap.
THEOREM MountLayoutInside == Spec => []LayoutInsideVolume
<1>1. MountInv => LayoutInsideVolume
  <2> SUFFICES ASSUME MountInv, Mounted PROVE LayoutInsideVolume
    BY DEF LayoutInsideVolume
  <2>1. /\ image \in Images /\ Passed /\ IsFat16(DataClusters(bpb))
        /\ layout = LayoutOf(bpb)
    BY DEF MountInv
  <2> DEFINE c == bpb["sectors_per_cluster"]
             x == DataSectors(bpb)
             n == DataClusters(bpb)
             s == bpb["sector_count"]
             over == Overhead(bpb)
             S == SectorSize
  <2>2. /\ over \in Nat /\ over <= s /\ x = s - over /\ x \in Nat
        /\ s \in Nat /\ S \in Nat
    BY <2>1, DataSectorsDoNotWrap, Terms, Fat16MountAssumption
  <2>3. c \in Nat \ {0} /\ n = x \div c
    BY <2>1 DEF Passed, ClusterSizes, DataClusters
  <2>4. /\ layout.start_fat_region <= layout.start_root_directory_region
        /\ layout.start_root_directory_region <= layout.start_data_region
        /\ layout.start_data_region = over * S
    BY <2>1, LayoutDoesNotWrap
  <2>5. layout.data_cluster_count = n
    BY <2>1 DEF LayoutOf
  <2>6. On("sectors_per_cluster") = c /\ SectorsOnDisk = s
    BY <2>1 DEF Passed, Fields, SectorsOnDisk
  <2> HIDE DEF c, x, n, s, over, S
  <2>7. n \in Nat /\ n * c <= x /\ n * c \in Nat
    BY <2>2, <2>3, Quotient
  <2>8. (n * c) * S <= x * S /\ (n * c) * S \in Nat /\ x * S \in Nat
    BY <2>2, <2>7, ProductMonotone
  <2>9. s * S = over * S + x * S
    <3>1. s = over + x
      BY <2>2
    <3>2. (over + x) * S = over * S + x * S
      BY <2>2
    <3>3. QED
      BY <3>1, <3>2
  <2>10. over * S + (n * c) * S <= s * S
    <3>1. over * S \in Nat
      BY <2>2
    <3>2. QED
      BY <2>8, <2>9, <3>1
  <2>11. QED
    BY <2>4, <2>5, <2>6, <2>10 DEF LayoutInsideVolume, S
<1>2. QED
  BY InitMountInv, NextMountInv, <1>1, PTL DEF Spec

\* Only a volume with a FAT16 number of clusters is mounted.
THEOREM MountOnlyFat16 == Spec => []OnlyFat16Mounted
<1>1. MountInv => OnlyFat16Mounted
  <2> SUFFICES ASSUME MountInv, Mounted PROVE OnlyFat16Mounted
    BY DEF OnlyFat16Mounted
  <2>1. image \in Images /\ Passed /\ IsFat16(DataClusters(bpb))
    BY DEF MountInv
  <2> DEFINE c == bpb["sectors_per_cluster"]
             x == DataSectors(bpb)
  <2>2. x \in Nat /\ x = bpb["sector_count"] - Overhead(bpb)
    BY <2>1, DataSectorsDoNotWrap
  <2>3. /\ c \in Nat \ {0} /\ MinClusters <= x \div c /\ x \div c < MaxClusters
        /\ MinClusters \in Nat /\ MaxClusters \in Nat
    BY <2>1, Fat16MountAssumption DEF Passed, ClusterSizes, IsFat16, DataClusters
  <2>4. DataSectorsOnDisk = x /\ On("sectors_per_cluster") = c
    <3>1. /\ On("sectors_per_cluster") = c
          /\ SectorsOnDisk = bpb["sector_count"]
          /\ On("reserved_sector_count") = bpb["reserved_sector_count"]
          /\ On("num_fats") = bpb["num_fats"]
          /\ On("fat_size") = bpb["fat_size"]
          /\ RootSectorsOnDisk = RootDirectorySectors(bpb)
      BY <2>1 DEF Passed, Fields, SectorsOnDisk, RootSectorsOnDisk, RootDirectorySectors
    <3> DEFINE p == bpb["num_fats"] * bpb["fat_size"]
    <3>2. /\ bpb["sector_count"] \in Int /\ bpb["reserved_sector_count"] \in Int
          /\ p \in Int /\ RootDirectorySectors(bpb) \in Int
      BY <2>1, Terms
    <3>3. DataSectorsOnDisk
            = bpb["sector_count"] - bpb["reserved_sector_count"] - p - RootDirectorySectors(bpb)
      BY <3>1 DEF DataSectorsOnDisk
    <3>4. x = bpb["sector_count"]
                - (bpb["reserved_sector_count"] + p + RootDirectorySectors(bpb))
      BY <2>2 DEF Overhead
    <3> HIDE DEF p
    <3>5. QED
      BY <3>1, <3>2, <3>3, <3>4
  <2> HIDE DEF c, x
  <2>5. (x \div c) * c <= x /\ x < (x \div c) * c + c /\ x \div c \in Nat
    BY <2>2, <2>3, Quotient
  <2>6. MinClusters * c <= (x \div c) * c
    BY <2>3, <2>5, ProductMonotone
  <2>7. ((x \div c) + 1) * c <= MaxClusters * c
    BY <2>3, <2>5, ProductMonotone
  <2>8. /\ ((x \div c) + 1) * c = (x \div c) * c + c
        /\ MinClusters * c = c * MinClusters /\ MaxClusters * c = c * MaxClusters
        /\ (x \div c) * c \in Nat /\ c * MinClusters \in Nat /\ c * MaxClusters \in Nat
    BY <2>3, <2>5
  <2>9. c * MinClusters <= x /\ x < c * MaxClusters
    BY <2>2, <2>3, <2>5, <2>6, <2>7, <2>8
  <2>10. QED
    BY <2>4, <2>9 DEF OnlyFat16Mounted
<1>2. QED
  BY InitMountInv, NextMountInv, <1>1, PTL DEF Spec

\* A cluster of a mounted volume is small enough for EntryHandle.offset.
THEOREM MountClusterSize == Spec => []ClusterWithinMax
<1>1. MountInv => ClusterWithinMax
  <2> SUFFICES ASSUME MountInv, Mounted PROVE ClusterWithinMax
    BY DEF ClusterWithinMax
  <2> DEFINE c == bpb["sectors_per_cluster"]
             x == DataSectors(bpb)
  <2>1. image \in Images /\ Passed /\ IsFat16(DataClusters(bpb))
    BY DEF MountInv
  <2>2. /\ x \in Nat /\ x <= MaxHalf /\ MaxHalf \in Nat
    BY <2>1, DataSectorsDoNotWrap, Terms, Fat16MountAssumption
  <2>3. /\ c \in ClusterSizes /\ c \in Nat \ {0} /\ MinClusters <= x \div c
        /\ MinClusters \in Nat /\ On("sectors_per_cluster") = c
    BY <2>1, Fat16MountAssumption
    DEF Passed, ClusterSizes, IsFat16, DataClusters, Fields
  <2> HIDE DEF c, x
  <2>4. (x \div c) * c <= x /\ x \div c \in Nat
    BY <2>2, <2>3, Quotient
  <2>5. MinClusters * c <= (x \div c) * c
    BY <2>3, <2>4, ProductMonotone
  <2>6. c * MinClusters <= MaxHalf
    <3>1. /\ c * MinClusters = MinClusters * c /\ MinClusters * c \in Nat
          /\ (x \div c) * c \in Nat
      BY <2>3, <2>4
    <3>2. QED
      BY <2>2, <2>4, <2>5, <3>1
  <2>7. c * SectorSize <= MAX_BYTES_PER_CLUSTER
    BY <2>3, <2>6, Fat16MountAssumption
  <2>8. QED
    BY <2>3, <2>7 DEF ClusterWithinMax
<1>2. QED
  BY InitMountInv, NextMountInv, <1>1, PTL DEF Spec
=============================================================================
