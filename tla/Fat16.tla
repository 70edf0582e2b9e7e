------------------------------- MODULE Fat16 -------------------------------
(***************************************************************************)
(* The kernel's FAT16 driver, kernel/src/fs/fat16: the handle table and    *)
(* the calls fat16_open, fat16_read, fat16_close, fat16_size and fat16_ls  *)
(* on a mounted volume.  A call is made, runs one step per loop iteration  *)
(* of the code, and returns.                                               *)
(*                                                                         *)
(* The volume is a constant (the driver has no write path).  Its unit of   *)
(* space is one directory entry: offsets, sizes, counts and disk positions *)
(* are counted in it, and a FAT entry takes one unit too.  The byte stored *)
(* at a position is represented by the position itself, so what a read     *)
(* delivers says where on the disk it came from.  disk_pointer is tracked  *)
(* in read_from_handle only: everywhere else the code seeks right before   *)
(* it reads.  Paths are sequences of names; a name in ValidNames is one    *)
(* that to_short_filename accepts.                                         *)
(***************************************************************************)
EXTENDS Integers, Sequences

CONSTANTS
  HANDLE_COUNT,    \* handles[] has HANDLE_COUNT entries
  INVALID_HANDLE,  \* the index used when all of them are busy
  ClusterBytes,    \* bpb.sectors_per_cluster * bpb.bytes_per_sector
  OffsetMod,       \* EntryHandle.offset wraps here (a uint16_t)
  EOC,             \* FAT values from here on end a chain (0xFFF8)
  FatEntries,      \* number of entries of the FAT
  Fat,             \* cluster -> next cluster
  Root,            \* the root directory, a sequence of DirEntry
  Dirs,            \* cluster -> what its bytes are when read as DirEntry
  ValidNames,      \* the names to_short_filename accepts
  Requests         \* the calls callers make

\* struct DirEntry; "free" and "end" stand for the names that mark such entries.
DirEntries ==
  [status : {"used", "free", "end"}, name : STRING,
   attribute : SUBSET {"READ_ONLY", "HIDDEN", "SYSTEM", "VOLUME", "SUBDIR", "ARCHIVE"},
   cluster : Nat, size : Nat]

ASSUME Fat16Assumption ==
  /\ HANDLE_COUNT \in Nat \ {0}
  /\ INVALID_HANDLE \in Nat /\ INVALID_HANDLE >= HANDLE_COUNT
  /\ ClusterBytes \in Nat \ {0}
  /\ OffsetMod \in Nat \ {0}
  /\ ClusterBytes < OffsetMod    \* Fat16Mount's ClusterWithinMax
  /\ EOC \in Nat /\ FatEntries \in Nat \ {0}
  /\ Fat \in [0 .. FatEntries - 1 -> Nat]
  /\ Root \in Seq(DirEntries)
  /\ Dirs \in [2 .. FatEntries - 1 -> [1 .. ClusterBytes -> DirEntries]]
  /\ \A c \in Requests : /\ c.op = "read" => c.count \in Nat
                         /\ c.op = "ls" => c.index \in Nat
                         /\ c.op \in {"open", "size", "ls"} => c.path \in Seq(STRING)

VARIABLES
  handles,         \* handles[]; only mode counts in a handle that is not open
  stray,           \* this call wrote to handles[INVALID_HANDLE], outside the array
  disk_pointer,    \* the device's position during a read
  call,            \* the call being served
  pc,              \* where its code is
  dh,              \* the EntryHandle the code works on: dir_handle, or handles[slot]
  loc,             \* its other locals
  buf,             \* the caller's buffer of a read in progress
  ret,             \* the value the last call returned
  data             \* what the last read or ls delivered

vars == <<handles, stray, disk_pointer, call, pc, dh, loc, buf, ret, data>>

Slots == 0 .. HANDLE_COUNT - 1

NoCall == [op |-> "none"]

\* The modes fat16_open takes; `mode == 0`, no open file, is "none".
Modes == {"r", "w", "a"}

\* struct EntryHandle after memset(handles, 0, sizeof(handles)).
NoHandle == [mode |-> "none", pos_entry |-> 0, cluster |-> 0, offset |-> 0,
             remaining_bytes |-> 0]

\* A DirEntry whose name starts with 0.
EndEntry == [status |-> "end", name |-> "", attribute |-> {}, cluster |-> 0,
             size |-> 0]

\* slot: the local `handle`; name: entry_name; goal: what the entry is looked up
\* for; start: starting_cluster; entry, pos: the entry found; left: a loop count.
NoLocals == [slot |-> 0, name |-> "", goal |-> "", start |-> 0,
             entry |-> EndEntry, pos |-> 0, left |-> 0]

Init ==
  /\ handles = [h \in Slots |-> NoHandle]
  /\ stray = FALSE
  /\ disk_pointer = 0
  /\ call = NoCall
  /\ pc = "idle"
  /\ dh = NoHandle
  /\ loc = NoLocals
  /\ buf = << >>
  /\ ret = 0
  /\ data = << >>

----------------------------------------------------------------------------
(* The volume: the FAT, the root directory and the data region follow one  *)
(* another on the disk.  Each move_to_ operator is the position it seeks.  *)
move_to_root_directory_region(index) == FatEntries + index

move_to_data_region(cluster, offset) ==
  FatEntries + Len(Root) + (cluster - 2) * ClusterBytes + offset

get_next_cluster(cluster) == Fat[cluster]

\* What is read as an entry there.  Nobody looks whether the cluster is a directory's:
\* open_directory_in_root and open_directory_in_subdir open a file just as well.
EntryAt(cluster, offset) == Dirs[cluster][offset + 1]

VFAT_DIR_ENTRY == {"READ_ONLY", "HIDDEN", "SYSTEM", "VOLUME"}

Matches(e, name) ==
  e.status = "used" /\ ~(VFAT_DIR_ENTRY \subseteq e.attribute) /\ e.name = name

----------------------------------------------------------------------------
(* The handle table.                                                       *)
\* A mistaken loop bound: the last handle is never tried.
find_available_handle_short ==
  IF \A h \in Slots \ {HANDLE_COUNT - 1} : handles[h].mode # "none"
    THEN INVALID_HANDLE
    ELSE CHOOSE h \in Slots : /\ handles[h].mode = "none"
                              /\ \A g \in 0 .. h - 1 : handles[g].mode # "none"

find_available_handle ==
  IF \A h \in Slots : handles[h].mode # "none"
    THEN INVALID_HANDLE
    ELSE CHOOSE h \in Slots : /\ handles[h].mode = "none"
                              /\ \A g \in 0 .. h - 1 : handles[g].mode # "none"

check_handle(h) == h \in Slots /\ handles[h].mode # "none"

\* handles[slot] = h, or only handles[slot].mode = 0 when h is NoHandle.
Store(slot, h) ==
  /\ handles' = [s \in Slots |-> IF s = slot THEN h ELSE handles[s]]
  /\ stray' = (slot = INVALID_HANDLE)

NoStore == UNCHANGED <<handles, stray>>

\* The tests open_entry_in_root and open_entry_in_subdir make on an entry.
Accepts(e, mode, is_file) ==
  /\ "VOLUME" \notin e.attribute
  /\ ~(is_file /\ "SUBDIR" \in e.attribute)
  /\ ~("READ_ONLY" \in e.attribute /\ mode # "r")

\* The EntryHandle they fill in; mode "a" then walks to the last cluster.
Opened(e, pos, mode) ==
  [mode |-> mode, pos_entry |-> pos, cluster |-> e.cluster, offset |-> 0,
   remaining_bytes |-> IF mode = "r" THEN e.size ELSE 0]

\* The index of the first entry called name before the end mark, -1 if none.
RootStops(name) ==
  {i \in 1 .. Len(Root) : Root[i].status = "end" \/ Matches(Root[i], name)}

find_root_directory_entry(name) ==
  LET stop == CHOOSE i \in RootStops(name) : \A j \in RootStops(name) : i <= j
  IN  IF RootStops(name) # {} /\ Root[stop].status = "used" THEN stop - 1 ELSE -1

RootEntry(name) == Root[find_root_directory_entry(name) + 1]

\* open_directory_in_root
DirInRoot(name) ==
  /\ find_root_directory_entry(name) >= 0
  /\ Accepts(RootEntry(name), "r", FALSE)

DirHandle(name) ==
  Opened(RootEntry(name),
         move_to_root_directory_region(find_root_directory_entry(name)), "r")

----------------------------------------------------------------------------
(* Paths.                                                                  *)
to_short_filename(components) == Len(components) = 1 /\ components[1] \in ValidNames

is_in_root(path) == Len(path) <= 1

\* What &path[index] is in navigate_to_subdir's loop: get_subdir has already
\* moved index over a component that is not the last one.
PathAtIndex(path) == SubSeq(path, IF Len(path) = 2 THEN 2 ELSE 3, Len(path))

\* navigate_to_subdir gets as far as its loop's lookups.
Navigable(path) ==
  /\ path[1] \in ValidNames
  /\ DirInRoot(path[1])
  /\ to_short_filename(PathAtIndex(path))

----------------------------------------------------------------------------
Return(v) ==
  /\ pc' = "idle"
  /\ call' = NoCall
  /\ ret' = v
  /\ dh' = NoHandle
  /\ loc' = NoLocals
  /\ buf' = << >>
  /\ disk_pointer' = 0

\* The call goes on with handle h and locals l.
Continue(label, h, l) ==
  /\ pc' = label
  /\ dh' = h
  /\ loc' = l
  /\ UNCHANGED <<disk_pointer, call, buf, ret, data>>

Call(c) ==
  /\ pc = "idle"
  /\ call' = c
  /\ pc' = "start"
  /\ ret' = 0 /\ data' = << >> /\ stray' = FALSE
  /\ UNCHANGED <<handles, disk_pointer, dh, loc, buf>>

Start(op) == pc = "start" /\ call.op = op

\* find_entry_in_subdir is about to look for name in the directory d.
Find(d, name, goal, slot) ==
  Continue("find", d, [NoLocals EXCEPT !.slot = slot, !.name = name, !.goal = goal,
                                       !.start = d.cluster])

\* What the call wants the last component of its path for.
Purpose ==
  CASE call.op = "open" -> "file" [] call.op = "size" -> "size" [] call.op = "ls" -> "dir"

\* navigate_to_subdir: the directory in the root, then the loop's lookups.
navigate_to_subdir ==
  /\ pc = "start"
  /\ call.op \in {"open", "size", "ls"}
  /\ ~is_in_root(call.path)
  /\ call.op = "open" => call.mode \in Modes
  /\ \/ /\ Navigable(call.path)
        /\ Find(DirHandle(call.path[1]), PathAtIndex(call.path)[1],
                IF Len(call.path) > 2 THEN "descend" ELSE Purpose,
                find_available_handle)
     \/ /\ ~Navigable(call.path)
        /\ Return(-1)
        /\ data' = data
  /\ NoStore

----------------------------------------------------------------------------
(* fat16_open.                                                             *)
open_rejected ==
  /\ Start("open")
  /\ \/ call.mode \notin Modes
     \/ is_in_root(call.path) /\ ~to_short_filename(call.path)
  /\ Return(-1)
  /\ NoStore /\ data' = data

\* open_file_in_root works on handles[handle] itself, whatever the index, also
\* when it fails.  (Mode "a" goes on in append_walk and append_end, which stores
\* the handle when it is complete.)
open_file_in_root ==
  LET name == call.path[1]
      slot == find_available_handle
      index == find_root_directory_entry(name)
      opened == Opened(RootEntry(name), move_to_root_directory_region(index), call.mode)
  IN  /\ Start("open")
      /\ call.mode \in Modes
      /\ is_in_root(call.path) /\ to_short_filename(call.path)
      /\ \/ /\ index < 0 \/ ~Accepts(RootEntry(name), call.mode, TRUE)
            /\ Store(slot, NoHandle)
            /\ Return(-1)
            /\ data' = data
         \/ /\ index >= 0
            /\ Accepts(RootEntry(name), call.mode, TRUE)
            /\ call.mode # "a"
            /\ Store(slot, opened)
            /\ Return(0)
            /\ data' = data
         \/ /\ index >= 0
            /\ Accepts(RootEntry(name), call.mode, TRUE)
            /\ call.mode = "a"
            /\ NoStore
            /\ Continue("append", opened,
                        [NoLocals EXCEPT !.slot = slot, !.goal = "root",
                                         !.left = RootEntry(name).size])

\* open_file_in_subdir, once the entry has been looked up.
open_file_in_subdir ==
  /\ pc = "found" /\ loc.goal = "file"
  /\ IF loc.entry.status = "used" /\ Accepts(loc.entry, call.mode, TRUE)
       THEN Continue(IF call.mode = "a" THEN "append" ELSE "share",
                     Opened(loc.entry, loc.pos, call.mode),
                     [loc EXCEPT !.left = loc.entry.size])
       ELSE Return(-1) /\ data' = data
  /\ NoStore

\* A mistaken walk: the clusters passed are not taken off the offset.
append_walk_keeps_offset ==
  LET next == get_next_cluster(dh.cluster)
  IN  /\ pc = "append"
      /\ next < EOC
      /\ Continue("append", [dh EXCEPT !.cluster = next], loc)
      /\ NoStore

\* The walk of mode "a" to the last cluster; left is the local `offset`.
append_walk ==
  LET next == get_next_cluster(dh.cluster)
  IN  /\ pc = "append"
      /\ next < EOC
      /\ Continue("append", [dh EXCEPT !.cluster = next],
                  [loc EXCEPT !.left = @ - ClusterBytes])
      /\ NoStore

append_end ==
  LET h == [dh EXCEPT !.offset = loc.left % OffsetMod]
  IN  /\ pc = "append"
      /\ get_next_cluster(dh.cluster) >= EOC
      /\ IF loc.goal = "root"
           THEN /\ Store(loc.slot, h)
                /\ Return(0)
                /\ data' = data
           ELSE Continue("share", h, loc) /\ NoStore

\* A mistaken check: only a handle in mode "w" is in the way.
SharingConflictWriters ==
  \E h \in Slots \ {loc.slot} :
    /\ handles[h].mode = "w"
    /\ handles[h].pos_entry = dh.pos_entry

\* The loop of fat16_open over the other handles (subdirectory files only).
SharingConflict ==
  \E h \in Slots \ {loc.slot} :
    /\ handles[h].mode # "none"
    /\ handles[h].pos_entry = dh.pos_entry
    /\ (call.mode = "r" /\ handles[h].mode # "r") \/ call.mode # "r"

open_share ==
  /\ pc = "share"
  /\ IF SharingConflict
       THEN Store(loc.slot, NoHandle) /\ Return(-1)
       ELSE Store(loc.slot, dh) /\ Return(loc.slot)
  /\ data' = data

----------------------------------------------------------------------------
(* Directory scans.                                                        *)
AtClusterEnd(h) == h.offset = ClusterBytes

\* read_entry_from_subdir fails at the end of the directory's chain ...
NoMoreEntries(h) == AtClusterEnd(h) /\ get_next_cluster(h.cluster) >= EOC

\* ... and otherwise reads the entry at this cluster and offset,
EntryCluster(h) == IF AtClusterEnd(h) THEN get_next_cluster(h.cluster) ELSE h.cluster

EntryOffset(h) == IF AtClusterEnd(h) THEN 0 ELSE h.offset

ReadEntry(h) == EntryAt(EntryCluster(h), EntryOffset(h))

\* A mistaken step: the handle keeps its cluster.
AfterEntrySameCluster(h) == [h EXCEPT !.offset = (EntryOffset(h) + 1) % OffsetMod]

\* which leaves the handle behind it.
AfterEntry(h) ==
  [h EXCEPT !.cluster = EntryCluster(h), !.offset = (EntryOffset(h) + 1) % OffsetMod]

\* find_entry_in_subdir puts the handle back to the start when it is done.
Rewound == [dh EXCEPT !.cluster = loc.start, !.offset = 0]

find_next ==
  /\ pc = "find"
  /\ ~NoMoreEntries(dh)
  /\ ReadEntry(dh).status # "end" /\ ~Matches(ReadEntry(dh), loc.name)
  /\ Continue("find", AfterEntry(dh), loc)
  /\ NoStore

\* The entry's position is computed from the handle behind the entry.
find_hit ==
  LET after == AfterEntry(dh)
  IN  /\ pc = "find"
      /\ ~NoMoreEntries(dh)
      /\ Matches(ReadEntry(dh), loc.name)
      /\ Continue("found", Rewound,
                  [loc EXCEPT !.entry = ReadEntry(dh),
                     !.pos = move_to_data_region(after.cluster, after.offset) - 1])
      /\ NoStore

find_miss ==
  /\ pc = "find"
  /\ ~NoMoreEntries(dh) => ReadEntry(dh).status = "end"
  /\ Continue("found", Rewound, [loc EXCEPT !.entry = EndEntry])
  /\ NoStore

\* navigate_to_subdir's open_directory_in_subdir, whose failure it ignores.
descend ==
  /\ pc = "found" /\ loc.goal = "descend"
  /\ Find(IF loc.entry.status = "used" /\ Accepts(loc.entry, "r", FALSE)
            THEN Opened(loc.entry, loc.pos, "r") ELSE dh,
          loc.name, Purpose, loc.slot)
  /\ NoStore

----------------------------------------------------------------------------
(* fat16_size: a temporary handle holds the directory, and is closed.      *)
size_in_root ==
  LET index == find_root_directory_entry(call.path[1])
  IN  /\ Start("size")
      /\ is_in_root(call.path)
      /\ Return(IF ~to_short_filename(call.path) \/ index < 0
                  THEN -1 ELSE RootEntry(call.path[1]).size)
      /\ NoStore /\ data' = data

subdir_entry_size ==
  /\ pc = "found" /\ loc.goal = "size"
  /\ Store(loc.slot, NoHandle)
  /\ Return(IF loc.entry.status = "used" THEN loc.entry.size ELSE 0)
  /\ data' = data

----------------------------------------------------------------------------
(* fat16_ls.                                                               *)
Listed(e) == IF e.status = "end" THEN Return(0) /\ data' = data
                                 ELSE Return(1) /\ data' = <<e.name>>

ls_in_root ==
  /\ Start("ls")
  /\ call.path = << >>
  /\ \/ call.index = Len(Root) /\ Return(0) /\ data' = data
     \/ call.index > Len(Root) /\ Return(-1) /\ data' = data
     \/ call.index < Len(Root) /\ Listed(Root[call.index + 1])
  /\ NoStore

ls_dir_of_root ==
  /\ Start("ls")
  /\ Len(call.path) = 1
  /\ IF to_short_filename(call.path) /\ DirInRoot(call.path[1])
       THEN Continue("ls", DirHandle(call.path[1]), [NoLocals EXCEPT !.left = call.index])
       ELSE Return(-1) /\ data' = data
  /\ NoStore

ls_dir_of_subdir ==
  /\ pc = "found" /\ loc.goal = "dir"
  /\ IF loc.entry.status = "used" /\ Accepts(loc.entry, "r", FALSE)
       THEN Continue("ls", Opened(loc.entry, loc.pos, "r"),
                     [NoLocals EXCEPT !.left = call.index])
       ELSE Return(-1) /\ data' = data
  /\ NoStore

\* ls_in_subdir: skip `index` entries, then take one.
ls_skip ==
  /\ pc = "ls"
  /\ ~NoMoreEntries(dh)
  /\ loc.left > 0
  /\ Continue("ls", AfterEntry(dh), [loc EXCEPT !.left = @ - 1])
  /\ NoStore

ls_take ==
  /\ pc = "ls"
  /\ \/ NoMoreEntries(dh) /\ Return(-1) /\ data' = data
     \/ ~NoMoreEntries(dh) /\ loc.left = 0 /\ Listed(ReadEntry(dh))
  /\ NoStore

----------------------------------------------------------------------------
(* fat16_close and fat16_read.                                             *)
fat16_close ==
  /\ Start("close")
  /\ IF check_handle(call.slot)
       THEN Return(0) /\ Store(call.slot, NoHandle)
       ELSE Return(-1) /\ NoStore
  /\ data' = data

fat16_read ==
  LET h == handles[call.slot]
  IN  /\ Start("read")
      /\ \/ ~check_handle(call.slot) /\ Return(-1) /\ data' = data
         \/ /\ check_handle(call.slot)
            /\ h.remaining_bytes = 0 \/ h.cluster = 0
            /\ Return(0) /\ data' = << >>
         \/ /\ check_handle(call.slot)
            /\ h.remaining_bytes # 0 /\ h.cluster # 0
            /\ disk_pointer' = move_to_data_region(h.cluster, h.offset)
            /\ loc' = [NoLocals EXCEPT !.left = call.count]
            /\ pc' = "read"
            /\ UNCHANGED <<call, dh, buf, ret, data>>
      /\ NoStore

Smallest(a, b, c) == CHOOSE m \in {a, b, c} : m <= a /\ m <= b /\ m <= c

\* A mistaken iteration: no seek after get_next_cluster.
read_from_handle_no_seek ==
  LET h == handles[call.slot]
      chunk == Smallest(loc.left, ClusterBytes - h.offset, h.remaining_bytes)
      rest == h.remaining_bytes - chunk
      ends == h.offset + chunk = ClusterBytes
  IN  /\ pc = "read"
      /\ loc.left > 0 /\ h.remaining_bytes # 0
      /\ buf' = buf \o [i \in 1 .. chunk |-> disk_pointer + i - 1]
      /\ loc' = [loc EXCEPT !.left = @ - chunk]
      /\ handles' = [handles EXCEPT
           ![call.slot].remaining_bytes = rest,
           ![call.slot].offset = IF ends THEN 0 ELSE @ + chunk,
           ![call.slot].cluster = IF ends /\ rest # 0 THEN get_next_cluster(@) ELSE @]
      /\ disk_pointer' = disk_pointer + chunk
      /\ UNCHANGED <<stray, call, pc, dh, ret, data>>

\* One iteration of read_from_handle.  The device reads from disk_pointer on,
\* which is only moved when the handle steps to its next cluster.
read_from_handle ==
  LET h == handles[call.slot]
      chunk == Smallest(loc.left, ClusterBytes - h.offset, h.remaining_bytes)
      rest == h.remaining_bytes - chunk
      moved == (h.offset + chunk) % OffsetMod
      next == get_next_cluster(h.cluster)
  IN  /\ pc = "read"
      /\ loc.left > 0 /\ h.remaining_bytes # 0
      /\ buf' = buf \o [i \in 1 .. chunk |-> disk_pointer + i - 1]
      /\ loc' = [loc EXCEPT !.left = @ - chunk]
      /\ \/ /\ moved = ClusterBytes /\ rest # 0
            /\ handles' = [handles EXCEPT ![call.slot].remaining_bytes = rest,
                                          ![call.slot].offset = 0,
                                          ![call.slot].cluster = next]
            /\ disk_pointer' = move_to_data_region(next, 0)
         \/ /\ ~(moved = ClusterBytes /\ rest # 0)
            /\ handles' = [handles EXCEPT ![call.slot].remaining_bytes = rest,
                             ![call.slot].offset = IF moved = ClusterBytes THEN 0 ELSE moved]
            /\ disk_pointer' = disk_pointer + chunk
      /\ UNCHANGED <<stray, call, pc, dh, ret, data>>

read_return ==
  /\ pc = "read"
  /\ loc.left = 0 \/ handles[call.slot].remaining_bytes = 0
  /\ Return(Len(buf))
  /\ data' = buf
  /\ NoStore

----------------------------------------------------------------------------
\* The rest of the call being served.
Serve ==
  \/ navigate_to_subdir
  \/ open_rejected \/ open_file_in_root \/ open_file_in_subdir
  \/ append_walk \/ append_end \/ open_share
  \/ find_next \/ find_hit \/ find_miss \/ descend
  \/ size_in_root \/ subdir_entry_size
  \/ ls_in_root \/ ls_dir_of_root \/ ls_dir_of_subdir \/ ls_skip \/ ls_take
  \/ fat16_close
  \/ fat16_read \/ read_from_handle \/ read_return

Next == (\E c \in Requests : Call(c)) \/ Serve

Spec == Init /\ [][Next]_vars

\* The driver is called and runs to completion: nothing else has the CPU.
FairSpec == Spec /\ WF_vars(Serve)
=============================================================================
