------------------------------ MODULE Storage ------------------------------
(***************************************************************************)
(* The byte stream the FAT16 driver reads from: _read and _seek of         *)
(* kernel/src/fs/fat16/fat16.c on top of read28_disk of                    *)
(* kernel/src/driver/ata/ata.c, which drives the disk by polling.          *)
(*                                                                         *)
(* The disk is external: it works on one command at a time and ends it     *)
(* with a sector to be transferred or with an error.  The byte stored at   *)
(* position p of sector l is represented by its place on the disk,         *)
(* l * SECTOR_SIZE + p; Junk is a byte that was never read from it.        *)
(***************************************************************************)
EXTENDS Integers, Sequences

CONSTANTS
  SECTOR_SIZE,
  FirstSector,     \* the volume's first sector: 100
  SectorLimit,     \* read28_disk refuses sectors from 2^28 on
  Offsets,         \* where callers seek to
  Lengths,         \* how much callers read
  StreamEnd,       \* bound: callers read below this position
  Junk

ASSUME StorageAssumption ==
  /\ SECTOR_SIZE \in Nat \ {0}
  /\ FirstSector \in Nat
  /\ SectorLimit \in Nat
  /\ Offsets \subseteq Nat
  /\ Lengths \subseteq Nat
  /\ StreamEnd \in Nat
  /\ Junk \notin Nat

VARIABLES
  disk_pointer,    \* the stream's position
  pc,              \* idle; a part of _read calls read28, and waits for the disk
  part,            \* the part: the first sector, a full sector or the last sector
  start, length,   \* the read being served
  sector,          \* its local `sector`
  remaining,       \* its local `remaining`
  sector_buffer,   \* its local array
  buffer,          \* what has been stored in the caller's buffer
  device,          \* what the disk does: idle, busy, data or error
  lba,             \* the sector of its current command
  failed           \* the sectors for which read28 returned false during this read

locals == <<start, length, sector, remaining, sector_buffer, buffer>>

vars == <<disk_pointer, pc, part, locals, device, lba, failed>>

SectorOf(l) == [p \in 1 .. SECTOR_SIZE |-> l * SECTOR_SIZE + p - 1]

JunkSector == [p \in 1 .. SECTOR_SIZE |-> Junk]

Init ==
  /\ disk_pointer = 0
  /\ pc = "idle" /\ part = "none"
  /\ start = 0 /\ length = 0
  /\ sector = 0 /\ remaining = 0
  /\ sector_buffer = JunkSector
  /\ buffer = << >>
  /\ device = "idle" /\ lba = 0
  /\ failed = {}

----------------------------------------------------------------------------
_seek(o) ==
  /\ pc = "idle"
  /\ disk_pointer' = o
  /\ UNCHANGED <<pc, part, locals, device, lba, failed>>

\* A mistaken test: the last part is repeated when nothing remains.
NextPartForever(r) == IF r >= SECTOR_SIZE THEN "full" ELSE "last"

\* The part that comes next when r bytes remain and the first one is over.
NextPart(r) ==
  IF r >= SECTOR_SIZE THEN "full" ELSE IF r > 0 THEN "last" ELSE "none"

GoOn(p) == part' = p /\ pc' = IF p = "none" THEN "return" ELSE "read28"

\* Nothing tells a read of no bytes in the middle of a sector from another one:
\* its first part reads the sector and copies nothing.
_read(n) ==
  /\ pc = "idle"
  /\ disk_pointer + n <= StreamEnd
  /\ start' = disk_pointer /\ length' = n
  /\ sector' = (disk_pointer \div SECTOR_SIZE) + FirstSector
  /\ remaining' = n
  /\ sector_buffer' = JunkSector
  /\ buffer' = << >>
  /\ failed' = {}
  /\ GoOn(IF disk_pointer % SECTOR_SIZE # 0 THEN "first" ELSE NextPart(n))
  /\ UNCHANGED <<disk_pointer, device, lba>>

----------------------------------------------------------------------------
(* One part of _read.                                                      *)
Least(a, b) == IF a < b THEN a ELSE b

\* A mistaken first part: it copies from the start of the sector.
FromStart == 0

\* The local `offset`.
From == IF part = "first" THEN disk_pointer % SECTOR_SIZE ELSE 0

\* How many bytes the part delivers: to_copy, a sector, or what remains.
Count ==
  CASE part = "first" -> Least(remaining, SECTOR_SIZE - From)
    [] part = "full" -> SECTOR_SIZE
    [] part = "last" -> remaining

\* What read28's destination holds before the call; a full sector goes straight
\* into the caller's buffer.
Before == IF part = "full" THEN JunkSector ELSE sector_buffer

\* Mistaken bookkeeping: the stream's position stays behind on the last part.
DeliverKeepsPointer(r) ==
  /\ buffer' = buffer \o SubSeq(r, From + 1, From + Count)
  /\ sector_buffer' = IF part = "full" THEN sector_buffer ELSE r
  /\ remaining' = remaining - Count
  /\ disk_pointer' = IF part = "last" THEN disk_pointer ELSE disk_pointer + Count
  /\ sector' = IF part = "last" THEN sector ELSE sector + 1
  /\ GoOn(NextPart(remaining - Count))
  /\ UNCHANGED <<start, length, lba>>

\* read28 is over and r is what its destination holds now.
Deliver(r) ==
  /\ buffer' = buffer \o SubSeq(r, From + 1, From + Count)
  /\ sector_buffer' = IF part = "full" THEN sector_buffer ELSE r
  /\ remaining' = remaining - Count
  /\ disk_pointer' = disk_pointer + Count
  /\ sector' = IF part = "last" THEN sector ELSE sector + 1
  /\ GoOn(NextPart(remaining - Count))
  /\ UNCHANGED <<start, length, lba>>

----------------------------------------------------------------------------
(* read28_disk.  _read does not look at what it returns.                   *)
read28_refuses ==
  /\ pc = "read28"
  /\ sector >= SectorLimit
  /\ failed' = failed \cup {sector}
  /\ Deliver(Before)
  /\ device' = device

read28_issues ==
  /\ pc = "read28"
  /\ sector < SectorLimit
  /\ device' = "busy" /\ lba' = sector
  /\ pc' = "poll"
  /\ UNCHANGED <<disk_pointer, part, locals, failed>>

\* External: the disk ends its command.
disk_answers ==
  /\ device = "busy"
  /\ device' \in {"data", "error"}
  /\ UNCHANGED <<disk_pointer, pc, part, locals, lba, failed>>

\* BSY is off and ERR too: the sector is transferred word by word.
read28_transfers ==
  /\ pc = "poll" /\ device = "data"
  /\ Deliver(SectorOf(lba))
  /\ device' = "idle"
  /\ failed' = failed

\* ERR: the destination is left alone.
read28_fails ==
  /\ pc = "poll" /\ device = "error"
  /\ Deliver(Before)
  /\ failed' = failed \cup {lba}
  /\ device' = device

read_return ==
  /\ pc = "return"
  /\ pc' = "idle"
  /\ UNCHANGED <<disk_pointer, part, locals, device, lba, failed>>

Serve ==
  read28_refuses \/ read28_issues \/ read28_transfers \/ read28_fails \/ read_return

Next ==
  \/ \E o \in Offsets : _seek(o)
  \/ \E n \in Lengths : _read(n)
  \/ Serve
  \/ disk_answers

Spec == Init /\ [][Next]_vars

\* The driver polls without end, so the disk has to answer.
FairSpec == Spec /\ WF_vars(Serve) /\ WF_vars(disk_answers)

----------------------------------------------------------------------------
\* The byte the stream has at a position.
StreamByte(p) == FirstSector * SECTOR_SIZE + p

(***************************************************************************)
(* A read delivers the bytes of the stream from its position on, each once *)
(* and in order, across any alignment of its two ends with the sectors;    *)
(* and a sector that failed spoils no byte of another one.                 *)
(***************************************************************************)
ReadDelivers ==
  \A i \in 1 .. Len(buffer) :
    \/ buffer[i] = StreamByte(start + i - 1)
    \/ FirstSector + ((start + i - 1) \div SECTOR_SIZE) \in failed

(***************************************************************************)
(* The stream's position stays in step with the bytes delivered, also when *)
(* sectors fail, and a finished read has delivered exactly what was asked. *)
(***************************************************************************)
PointerInStep ==
  /\ pc # "idle" => disk_pointer = start + Len(buffer)
  /\ pc = "return" => Len(buffer) = length

(***************************************************************************)
(* Every read returns if the disk answers every command.                   *)
(***************************************************************************)
ReadReturns == (pc # "idle") ~> (pc = "idle")
=============================================================================
