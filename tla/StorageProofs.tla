--------------------------- MODULE StorageProofs ----------------------------
(***************************************************************************)
(* For every sector size, volume, alignment and length of a read: _read    *)
(* delivers the bytes of the stream, whatever sectors the disk fails on.   *)
(***************************************************************************)
EXTENDS Storage, SequenceTheorems, TLAPS

Bytes == Nat \cup {Junk}

Parts == {"none", "first", "full", "last"}

Types ==
  /\ disk_pointer \in Nat
  /\ pc \in {"idle", "read28", "poll", "return"}
  /\ part \in Parts
  /\ start \in Nat /\ length \in Nat
  /\ sector \in Nat /\ remaining \in Nat /\ lba \in Nat
  /\ sector_buffer \in [1 .. SECTOR_SIZE -> Bytes]
  /\ buffer \in Seq(Bytes)

\* The sector in which a position of the stream lies.
SectorAt(p) == FirstSector + (p \div SECTOR_SIZE)

\* What has been delivered and what remains make up the whole read.
Progress ==
  /\ pc # "idle" => disk_pointer = start + Len(buffer) /\ Len(buffer) + remaining = length
  /\ pc = "return" => remaining = 0

\* A part that is due begins in `sector`; every part but the first begins at the
\* start of it, a full one fills it, and the last one ends inside it.
PartDue ==
  pc \in {"read28", "poll"} =>
    /\ part # "none"
    /\ sector = SectorAt(disk_pointer)
    /\ part # "first" => disk_pointer % SECTOR_SIZE = 0
    /\ part = "full" => remaining >= SECTOR_SIZE
    /\ part = "last" => remaining < SECTOR_SIZE

\* The command the driver waits for is the one for `sector`.
CommandDue == pc = "poll" => lba = sector

StorageInv == Types /\ Progress /\ PartDue /\ CommandDue /\ ReadDelivers

----------------------------------------------------------------------------
\* Quotient and remainder are the only decomposition of a position.
LEMMA DivisionUnique ==
  ASSUME NEW S \in Nat \ {0}, NEW q \in Nat, NEW r \in 0 .. S - 1
  PROVE  (S * q + r) \div S = q /\ (S * q + r) % S = r
<1> DEFINE n == S * q + r
           d == n \div S
<1>1. n \in Nat /\ n = S * q + r
  OBVIOUS
<1> HIDE DEF n
<1>2. d \in Int /\ n % S \in 0 .. S - 1 /\ n = S * d + (n % S)
  BY <1>1
<1> HIDE DEF d
<1>3. ASSUME d > q PROVE FALSE
  <2>1. S * d >= S * q + S
    BY <1>3, <1>2
  <2> QED
    BY <1>1, <1>2, <2>1
<1>4. ASSUME d < q PROVE FALSE
  <2>1. S * q >= S * d + S
    BY <1>4, <1>2
  <2> QED
    BY <1>1, <1>2, <2>1
<1>5. d = q
  BY <1>3, <1>4, <1>2
<1>6. n % S = r
  BY <1>1, <1>5, <1>2
<1> QED
  BY <1>5, <1>6 DEF n, d

\* Going on by i bytes stays in the sector as long as they fit in it, and reaches the
\* start of the next one when they fill it.
LEMMA SectorSteps ==
  ASSUME NEW a \in Nat, NEW i \in Nat
  PROVE  /\ a % SECTOR_SIZE \in 0 .. SECTOR_SIZE - 1
         /\ a \div SECTOR_SIZE \in Nat
         /\ a = SECTOR_SIZE * (a \div SECTOR_SIZE) + (a % SECTOR_SIZE)
         /\ (a % SECTOR_SIZE) + i < SECTOR_SIZE => (a + i) \div SECTOR_SIZE = a \div SECTOR_SIZE
         /\ (a % SECTOR_SIZE) + i = SECTOR_SIZE =>
              /\ (a + i) \div SECTOR_SIZE = a \div SECTOR_SIZE + 1
              /\ (a + i) % SECTOR_SIZE = 0
<1> DEFINE S == SECTOR_SIZE
           q == a \div S
           r == a % S
<1>1. S \in Nat \ {0}
  BY StorageAssumption
<1>2. r \in 0 .. S - 1 /\ q \in Nat /\ a = S * q + r
  BY <1>1
<1>3. r + i < S => (a + i) \div S = q
  <2> SUFFICES ASSUME r + i < S PROVE (a + i) \div S = q
    OBVIOUS
  <2>1. r + i \in 0 .. S - 1 /\ a + i = S * q + (r + i)
    BY <1>1, <1>2
  <2> HIDE DEF S, q, r
  <2> QED
    BY <1>1, <1>2, <2>1, DivisionUnique
<1>4. r + i = S => (a + i) \div S = q + 1 /\ (a + i) % S = 0
  <2> SUFFICES ASSUME r + i = S PROVE (a + i) \div S = q + 1 /\ (a + i) % S = 0
    OBVIOUS
  <2> HIDE DEF S, q, r
  <2>1. S * (q + 1) = S * q + S
    BY <1>1, <1>2
  <2>2. a + i = S * (q + 1) + 0 /\ 0 \in 0 .. S - 1 /\ q + 1 \in Nat
    BY <1>1, <1>2, <2>1
  <2>3. (S * (q + 1) + 0) \div S = q + 1 /\ (S * (q + 1) + 0) % S = 0
    BY <1>1, <2>2, DivisionUnique, Zenon
  <2> QED
    BY <2>2, <2>3
<1> QED
  BY <1>2, <1>3, <1>4, Zenon

\* What a sector holds are bytes, and so is what a part finds in its destination.
LEMMA SectorBytes ==
  /\ \A l \in Nat : SectorOf(l) \in [1 .. SECTOR_SIZE -> Bytes]
  /\ JunkSector \in [1 .. SECTOR_SIZE -> Bytes]
<1>1. ASSUME NEW l \in Nat PROVE SectorOf(l) \in [1 .. SECTOR_SIZE -> Bytes]
  <2>1. \A p \in 1 .. SECTOR_SIZE : l * SECTOR_SIZE + p - 1 \in Nat
    BY StorageAssumption
  <2> QED
    BY <2>1 DEF SectorOf, Bytes
<1> QED
  BY <1>1 DEF JunkSector, Bytes

----------------------------------------------------------------------------
(* A part of a read.                                                       *)

\* A part copies from the stream's position in the sector on, at most to the end of the
\* sector and at most what remains; and only to the end when something is left after it.
LEMMA PartFits ==
  ASSUME StorageInv, pc \in {"read28", "poll"}
  PROVE  /\ From = disk_pointer % SECTOR_SIZE
         /\ From \in 0 .. SECTOR_SIZE - 1
         /\ Count \in Nat /\ Count <= remaining /\ From + Count <= SECTOR_SIZE
         /\ remaining - Count # 0 => From + Count = SECTOR_SIZE /\ part # "last"
<1>1. disk_pointer \in Nat /\ remaining \in Nat /\ part \in {"first", "full", "last"}
  BY DEF StorageInv, Types, Parts, PartDue
<1>2. /\ part # "first" => disk_pointer % SECTOR_SIZE = 0
      /\ part = "full" => remaining >= SECTOR_SIZE
      /\ part = "last" => remaining < SECTOR_SIZE
  BY DEF StorageInv, PartDue
<1>3. SECTOR_SIZE \in Nat \ {0} /\ disk_pointer % SECTOR_SIZE \in 0 .. SECTOR_SIZE - 1
  BY <1>1, StorageAssumption
<1>4. From = disk_pointer % SECTOR_SIZE
  BY <1>1, <1>2 DEF From
<1>5. CASE part = "first"
  <2>1. Count = Least(remaining, SECTOR_SIZE - From)
    BY <1>5 DEF Count
  <2> QED
    BY <1>1, <1>3, <1>4, <1>5, <2>1 DEF Least
<1>6. CASE part = "full"
  <2>1. Count = SECTOR_SIZE
    BY <1>6 DEF Count
  <2> QED
    BY <1>1, <1>2, <1>3, <1>4, <1>6, <2>1
<1>7. CASE part = "last"
  <2>1. Count = remaining
    BY <1>7 DEF Count
  <2> QED
    BY <1>1, <1>2, <1>3, <1>4, <1>7, <2>1
<1> QED
  BY <1>1, <1>5, <1>6, <1>7

\* What Deliver appends: Count bytes, the sector's from the stream's position on.
LEMMA Appended ==
  ASSUME StorageInv, pc \in {"read28", "poll"},
         NEW r \in [1 .. SECTOR_SIZE -> Bytes], Deliver(r)
  PROVE  /\ buffer' \in Seq(Bytes)
         /\ Len(buffer') = Len(buffer) + Count
         /\ \A j \in 1 .. Len(buffer) : buffer'[j] = buffer[j]
         /\ \A j \in 1 .. Count : buffer'[Len(buffer) + j] = r[From + j]
<1> DEFINE m == From + 1
           n == From + Count
           t == SubSeq(r, m, n)
<1>1. From \in 0 .. SECTOR_SIZE - 1 /\ Count \in Nat /\ From + Count <= SECTOR_SIZE
  BY PartFits
<1>2. SECTOR_SIZE \in Nat
  BY StorageAssumption
<1>3. m \in Int /\ n \in Int /\ m = From + 1 /\ n = From + Count
      /\ \A j \in m .. n : r[j] \in Bytes
  BY <1>1, <1>2
<1>4. buffer' = buffer \o t
  BY DEF Deliver
<1> HIDE DEF m, n
<1>5. /\ t \in Seq(Bytes)
      /\ Len(t) = IF m <= n THEN n - m + 1 ELSE 0
      /\ \A j \in 1 .. n - m + 1 : t[j] = r[m + j - 1]
  BY <1>3, SubSeqProperties
<1> HIDE DEF t
<1>6. Len(t) = Count /\ \A j \in 1 .. Count : t[j] = r[From + j]
  <2>1. n - m + 1 = Count /\ \A j \in 1 .. Count : m + j - 1 = From + j
    BY <1>1, <1>2, <1>3
  <2> QED
    BY <1>1, <1>2, <1>3, <1>5, <2>1
<1>7. buffer \in Seq(Bytes) /\ Len(buffer) \in Nat
  BY LenProperties DEF StorageInv, Types
<1>8. /\ buffer' \in Seq(Bytes)
      /\ Len(buffer') = Len(buffer) + Len(t)
      /\ \A j \in 1 .. Len(buffer) + Len(t) :
           buffer'[j] = IF j <= Len(buffer) THEN buffer[j] ELSE t[j - Len(buffer)]
  BY <1>4, <1>5, <1>7, ConcatProperties, Zenon
<1>9. ASSUME NEW j \in 1 .. Count PROVE buffer'[Len(buffer) + j] = r[From + j]
  <2>1. Len(buffer) + j \in 1 .. Len(buffer) + Len(t) /\ ~(Len(buffer) + j <= Len(buffer))
        /\ Len(buffer) + j - Len(buffer) = j
    BY <1>1, <1>6, <1>7
  <2> QED
    BY <1>6, <1>8, <2>1
<1>10. ASSUME NEW j \in 1 .. Len(buffer) PROVE buffer'[j] = buffer[j]
  BY <1>1, <1>6, <1>7, <1>8
<1> QED
  BY <1>6, <1>8, <1>9, <1>10

\* After a part the next one is due at the start of the next sector, or none is.
LEMMA DeliverGoesOn ==
  ASSUME StorageInv, pc \in {"read28", "poll"},
         NEW r \in [1 .. SECTOR_SIZE -> Bytes], Deliver(r)
  PROVE  Types' /\ Progress' /\ PartDue' /\ CommandDue'
<1>1. /\ From = disk_pointer % SECTOR_SIZE
      /\ Count \in Nat /\ Count <= remaining
      /\ remaining - Count # 0 => From + Count = SECTOR_SIZE /\ part # "last"
  BY PartFits
<1>2. buffer' \in Seq(Bytes) /\ Len(buffer') = Len(buffer) + Count
  BY Appended
<1>3. SECTOR_SIZE \in Nat \ {0} /\ FirstSector \in Nat
  BY StorageAssumption
<1>4. /\ disk_pointer \in Nat /\ remaining \in Nat /\ sector \in Nat /\ lba \in Nat
      /\ start \in Nat /\ length \in Nat
      /\ sector_buffer \in [1 .. SECTOR_SIZE -> Bytes]
      /\ Len(buffer) \in Nat
  BY LenProperties DEF StorageInv, Types
<1>5. /\ remaining' = remaining - Count
      /\ disk_pointer' = disk_pointer + Count
      /\ sector' = IF part = "last" THEN sector ELSE sector + 1
      /\ sector_buffer' = IF part = "full" THEN sector_buffer ELSE r
      /\ part' = NextPart(remaining - Count)
      /\ pc' = IF part' = "none" THEN "return" ELSE "read28"
      /\ start' = start /\ length' = length /\ lba' = lba
  BY DEF Deliver, GoOn
<1>6. part' = IF remaining' >= SECTOR_SIZE THEN "full"
              ELSE IF remaining' > 0 THEN "last" ELSE "none"
  BY <1>5 DEF NextPart
<1>7. Types'
  <2>1. disk_pointer' \in Nat /\ remaining' \in Nat /\ sector' \in Nat /\ lba' \in Nat
        /\ start' \in Nat /\ length' \in Nat
    BY <1>1, <1>4, <1>5
  <2>2. sector_buffer' \in [1 .. SECTOR_SIZE -> Bytes]
    BY <1>4, <1>5
  <2>3. part' \in Parts /\ pc' \in {"return", "read28"}
    BY <1>5, <1>6 DEF Parts
  <2> QED
    BY <1>2, <2>1, <2>2, <2>3 DEF Types
<1>8. Progress'
  <2>1. disk_pointer = start + Len(buffer) /\ Len(buffer) + remaining = length
    BY DEF StorageInv, Progress
  <2>2. disk_pointer' = start' + Len(buffer') /\ Len(buffer') + remaining' = length'
    BY <1>1, <1>2, <1>4, <1>5, <2>1
  <2>3. pc' = "return" => remaining' = 0
    BY <1>1, <1>3, <1>4, <1>5, <1>6
  <2> QED
    BY <2>2, <2>3 DEF Progress
<1>9. PartDue'
  <2> SUFFICES ASSUME part' # "none"
               PROVE  /\ sector' = SectorAt(disk_pointer')
                      /\ disk_pointer' % SECTOR_SIZE = 0
                      /\ part' = "full" => remaining' >= SECTOR_SIZE
                      /\ part' = "last" => remaining' < SECTOR_SIZE
    BY <1>5, <1>6 DEF PartDue, SectorAt
  <2>1. remaining - Count # 0
    BY <1>1, <1>3, <1>4, <1>5, <1>6
  <2>2. sector = FirstSector + (disk_pointer \div SECTOR_SIZE)
    BY DEF StorageInv, PartDue, SectorAt
  <2>3. /\ disk_pointer \div SECTOR_SIZE \in Nat
        /\ (disk_pointer + Count) \div SECTOR_SIZE = disk_pointer \div SECTOR_SIZE + 1
        /\ (disk_pointer + Count) % SECTOR_SIZE = 0
    BY <1>1, <1>4, <2>1, SectorSteps
  <2>4. sector' = sector + 1
    BY <1>1, <1>5, <2>1
  <2>5. sector' = SectorAt(disk_pointer')
    BY <1>3, <1>5, <2>2, <2>3, <2>4 DEF SectorAt
  <2> QED
    BY <1>1, <1>3, <1>4, <1>5, <1>6, <2>3, <2>5
<1>10. CommandDue'
  BY <1>5 DEF CommandDue
<1> QED
  BY <1>7, <1>8, <1>9, <1>10

\* A part whose destination holds the sector, or whose sector is recorded as failed,
\* delivers what ReadDelivers asks for.
LEMMA DeliverIsTrue ==
  ASSUME StorageInv, pc \in {"read28", "poll"},
         NEW r \in [1 .. SECTOR_SIZE -> Bytes], Deliver(r),
         failed \subseteq failed', r = SectorOf(sector) \/ sector \in failed'
  PROVE  ReadDelivers'
<1>1. /\ From = disk_pointer % SECTOR_SIZE /\ From \in 0 .. SECTOR_SIZE - 1
      /\ Count \in Nat /\ From + Count <= SECTOR_SIZE
  BY PartFits
<1>2. /\ Len(buffer') = Len(buffer) + Count
      /\ \A j \in 1 .. Len(buffer) : buffer'[j] = buffer[j]
      /\ \A j \in 1 .. Count : buffer'[Len(buffer) + j] = r[From + j]
  BY Appended
<1>3. SECTOR_SIZE \in Nat \ {0} /\ FirstSector \in Nat
  BY StorageAssumption
<1>4. disk_pointer \in Nat /\ start \in Nat /\ Len(buffer) \in Nat
  BY LenProperties DEF StorageInv, Types
<1>5. disk_pointer = start + Len(buffer) /\ sector = FirstSector + (disk_pointer \div SECTOR_SIZE)
  BY DEF StorageInv, Progress, PartDue, SectorAt
<1>6. start' = start
  BY DEF Deliver
<1> SUFFICES ASSUME NEW i \in 1 .. Len(buffer')
             PROVE  \/ buffer'[i] = StreamByte(start + i - 1)
                    \/ FirstSector + ((start + i - 1) \div SECTOR_SIZE) \in failed'
  BY <1>6 DEF ReadDelivers, StreamByte
<1>7. CASE i <= Len(buffer)
  <2>1. i \in 1 .. Len(buffer) /\ buffer'[i] = buffer[i]
    BY <1>1, <1>2, <1>4, <1>7
  <2>2. \/ buffer[i] = StreamByte(start + i - 1)
        \/ FirstSector + ((start + i - 1) \div SECTOR_SIZE) \in failed
    BY <2>1 DEF StorageInv, ReadDelivers
  <2> QED
    BY <2>1, <2>2
<1>8. CASE ~(i <= Len(buffer))
  <2> DEFINE j == i - Len(buffer)
             q == disk_pointer \div SECTOR_SIZE
  <2>1. j \in 1 .. Count /\ i = Len(buffer) + j
    BY <1>1, <1>2, <1>4, <1>8
  <2> HIDE DEF j
  <2>2. buffer'[i] = r[From + j]
    BY <1>2, <2>1
  <2>3. start + i - 1 = disk_pointer + (j - 1) /\ j - 1 \in Nat /\ From + (j - 1) < SECTOR_SIZE
    BY <1>1, <1>3, <1>4, <1>5, <2>1
  <2>4. /\ q \in Nat /\ disk_pointer = SECTOR_SIZE * q + From
        /\ (disk_pointer + (j - 1)) \div SECTOR_SIZE = q
    <3>1. /\ q \in Nat
          /\ disk_pointer = SECTOR_SIZE * q + (disk_pointer % SECTOR_SIZE)
          /\ (disk_pointer % SECTOR_SIZE) + (j - 1) < SECTOR_SIZE =>
               (disk_pointer + (j - 1)) \div SECTOR_SIZE = q
      BY <1>4, <2>3, SectorSteps, Zenon
    <3> QED
      BY <1>1, <2>3, <3>1
  <2>5. CASE sector \in failed'
    BY <1>5, <2>3, <2>4, <2>5
  <2>6. CASE r = SectorOf(sector)
    <3>1. From + j \in 1 .. SECTOR_SIZE
      BY <1>1, <1>3, <2>1
    <3>2. r[From + j] = sector * SECTOR_SIZE + (From + j) - 1
      BY <2>6, <3>1 DEF SectorOf
    <3>3. sector = FirstSector + q
      BY <1>5
    <3> HIDE DEF q
    <3> DEFINE x == FirstSector * SECTOR_SIZE
               y == SECTOR_SIZE * q
    <3>4. sector * SECTOR_SIZE = x + y /\ disk_pointer = y + From
      BY <1>3, <2>4, <3>3
    <3>5. x \in Nat /\ y \in Nat
      BY <1>3, <2>4
    <3> HIDE DEF x, y
    <3>6. r[From + j] = x + (disk_pointer + (j - 1))
      BY <1>1, <1>3, <2>1, <3>2, <3>4, <3>5
    <3> QED
      BY <2>2, <2>3, <3>6 DEF StreamByte, x
  <2> QED
    BY <2>5, <2>6
<1> QED
  BY <1>7, <1>8

----------------------------------------------------------------------------
(* The invariant.                                                          *)

LEMMA InitStorageInv == Init => StorageInv
<1> SUFFICES ASSUME Init PROVE StorageInv
  OBVIOUS
<1>1. buffer \in Seq(Bytes) /\ Len(buffer) = 0
  BY EmptySeq DEF Init
<1>2. Types
  BY <1>1, SectorBytes DEF Init, Types, Parts
<1> QED
  BY <1>1, <1>2 DEF Init, StorageInv, Progress, PartDue, CommandDue, ReadDelivers

LEMMA ReadStartsInv ==
  ASSUME StorageInv, NEW n \in Lengths, _read(n)
  PROVE  StorageInv'
<1>1. SECTOR_SIZE \in Nat \ {0} /\ FirstSector \in Nat /\ n \in Nat
  BY StorageAssumption
<1>2. disk_pointer \in Nat /\ lba \in Nat
  BY DEF StorageInv, Types
<1>3. disk_pointer \div SECTOR_SIZE \in Nat
  BY <1>1, <1>2
<1>4. /\ start' = disk_pointer /\ length' = n /\ remaining' = n
      /\ sector' = (disk_pointer \div SECTOR_SIZE) + FirstSector
      /\ sector_buffer' = JunkSector /\ buffer' = << >>
      /\ disk_pointer' = disk_pointer /\ lba' = lba
      /\ pc' = IF part' = "none" THEN "return" ELSE "read28"
  BY DEF _read, GoOn
<1>5. part' = IF disk_pointer % SECTOR_SIZE # 0 THEN "first"
              ELSE IF n >= SECTOR_SIZE THEN "full" ELSE IF n > 0 THEN "last" ELSE "none"
  BY DEF _read, GoOn, NextPart
<1>6. buffer' \in Seq(Bytes) /\ Len(buffer') = 0
  BY <1>4, EmptySeq
<1>7. sector' \in Nat
  BY <1>1, <1>3, <1>4
<1>8. Types'
  BY <1>1, <1>2, <1>4, <1>5, <1>6, <1>7, SectorBytes DEF Types, Parts
<1>9. Progress'
  BY <1>1, <1>2, <1>4, <1>5, <1>6 DEF Progress
<1>10. PartDue'
  BY <1>1, <1>2, <1>3, <1>4, <1>5 DEF PartDue, SectorAt
<1>11. CommandDue' /\ ReadDelivers'
  BY <1>4, <1>6 DEF CommandDue, ReadDelivers
<1> QED
  BY <1>8, <1>9, <1>10, <1>11 DEF StorageInv

\* read28_disk ends without a transfer: the destination keeps what it held.
LEMMA FailedPartInv ==
  ASSUME StorageInv, pc \in {"read28", "poll"}, Deliver(Before), failed' = failed \cup {sector}
  PROVE  StorageInv'
<1>1. Before \in [1 .. SECTOR_SIZE -> Bytes]
  BY SectorBytes DEF Before, StorageInv, Types
<1> QED
  BY <1>1, DeliverGoesOn, DeliverIsTrue DEF StorageInv

LEMMA StepStorageInv ==
  StorageInv /\ [Next]_vars => StorageInv'
<1> SUFFICES ASSUME StorageInv, [Next]_vars PROVE StorageInv'
  OBVIOUS
<1>1. CASE UNCHANGED vars
  BY <1>1 DEF vars, locals, StorageInv, Types, Progress, PartDue, CommandDue, ReadDelivers,
              SectorAt, StreamByte
<1>2. ASSUME NEW o \in Offsets, _seek(o) PROVE StorageInv'
  BY <1>2, StorageAssumption
     DEF _seek, locals, StorageInv, Types, Progress, PartDue, CommandDue, ReadDelivers,
         SectorAt, StreamByte
<1>3. ASSUME NEW n \in Lengths, _read(n) PROVE StorageInv'
  BY <1>3, ReadStartsInv
<1>4. CASE read28_refuses
  BY <1>4, FailedPartInv DEF read28_refuses
<1>5. CASE read28_issues
  BY <1>5 DEF read28_issues, locals, StorageInv, Types, Progress, PartDue, CommandDue,
              ReadDelivers, SectorAt, StreamByte
<1>6. CASE read28_transfers
  <2>1. lba = sector /\ lba \in Nat
    BY <1>6 DEF read28_transfers, StorageInv, CommandDue, Types
  <2>2. SectorOf(lba) \in [1 .. SECTOR_SIZE -> Bytes]
    BY <2>1, SectorBytes
  <2> QED
    BY <1>6, <2>1, <2>2, DeliverGoesOn, DeliverIsTrue DEF read28_transfers, StorageInv
<1>7. CASE read28_fails
  <2>1. lba = sector
    BY <1>7 DEF read28_fails, StorageInv, CommandDue
  <2> QED
    BY <1>7, <2>1, FailedPartInv DEF read28_fails
<1>8. CASE read_return
  BY <1>8 DEF read_return, locals, StorageInv, Types, Progress, PartDue, CommandDue,
              ReadDelivers, SectorAt, StreamByte
<1>9. CASE disk_answers
  BY <1>9 DEF disk_answers, locals, StorageInv, Types, Progress, PartDue, CommandDue,
              ReadDelivers, SectorAt, StreamByte
<1> QED
  BY <1>1, <1>2, <1>3, <1>4, <1>5, <1>6, <1>7, <1>8, <1>9 DEF Next, Serve

LEMMA SpecStorageInv == Spec => []StorageInv
BY InitStorageInv, StepStorageInv, PTL DEF Spec

(***************************************************************************)
(* Whatever the sector size, where a read begins and ends and which        *)
(* sectors read28_disk fails on, _read stores in the caller's buffer the   *)
(* bytes of the stream from its position on, each once and in order, but   *)
(* for the bytes of the failed sectors.                                    *)
(***************************************************************************)
THEOREM ReadDeliversTheStream == Spec => []ReadDelivers
<1>1. StorageInv => ReadDelivers
  BY DEF StorageInv
<1> QED
  BY <1>1, SpecStorageInv, PTL

(***************************************************************************)
(* The stream's position stays in step with the bytes _read has delivered, *)
(* and a read that returns has delivered as many bytes as were asked for.  *)
(***************************************************************************)
THEOREM PointerStaysInStep == Spec => []PointerInStep
<1>1. ASSUME StorageInv PROVE PointerInStep
  <2>1. Len(buffer) \in Nat /\ remaining \in Nat /\ length \in Nat
    BY <1>1, LenProperties DEF StorageInv, Types
  <2> QED
    BY <1>1, <2>1 DEF StorageInv, Progress, PointerInStep
<1> QED
  BY <1>1, SpecStorageInv, PTL
=============================================================================
