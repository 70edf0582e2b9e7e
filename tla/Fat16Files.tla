----------------------------- MODULE Fat16Files -----------------------------
(***************************************************************************)
(* What the calls of Fat16 should do on a well-formed volume, stated over  *)
(* the volume's tree and never over the driver's loops: which entry a path *)
(* names, which bytes a file holds, which names a directory lists.  The    *)
(* driver is then compared with it: through FileTable, which it must       *)
(* implement, and through invariants of its handles.                       *)
(***************************************************************************)
EXTENDS Fat16

Clusters == 2 .. FatEntries - 1

\* The clusters of a chain, in order.
Chain[c \in Clusters] == IF Fat[c] >= EOC THEN <<c>> ELSE <<c>> \o Chain[Fat[c]]

\* The disk positions a chain covers, in order.
Extent[c \in Clusters \cup {0}] ==
  IF c = 0 THEN << >>
  ELSE [i \in 1 .. Len(Chain[c]) * ClusterBytes |->
          LET k == (i - 1) \div ClusterBytes
          IN  FatEntries + Len(Root) + (Chain[c][k + 1] - 2) * ClusterBytes
                + ((i - 1) % ClusterBytes)]

\* A directory as a sequence of entries, up to the end mark.
Live(entries) ==
  LET ends == {i \in 1 .. Len(entries) : entries[i].status = "end"}
  IN  IF ends = {} THEN entries
      ELSE SubSeq(entries, 1, (CHOOSE i \in ends : \A j \in ends : i <= j) - 1)

SubdirEntries(c) ==
  [i \in 1 .. Len(Extent[c]) |->
     Dirs[Chain[c][((i - 1) \div ClusterBytes) + 1]][((i - 1) % ClusterBytes) + 1]]

\* The entries of a directory, each with its position.
RootItems ==
  {[pos |-> FatEntries + i - 1, entry |-> Root[i]] : i \in 1 .. Len(Live(Root))}

ItemsOf(c) ==
  {[pos |-> Extent[c][i], entry |-> SubdirEntries(c)[i]] :
     i \in 1 .. Len(Live(SubdirEntries(c)))}

IsDir(x) == "SUBDIR" \in x.entry.attribute /\ "VOLUME" \notin x.entry.attribute

\* The first of some entries with this name: none or one.
First(entries, name) ==
  {i \in 1 .. Len(Live(entries)) : /\ Matches(entries[i], name)
                                  /\ \A j \in 1 .. i - 1 : ~Matches(entries[j], name)}

InRootCalled(name) ==
  {[pos |-> FatEntries + i - 1, entry |-> Root[i]] : i \in First(Root, name)}

InDirCalled(c, name) ==
  {[pos |-> Extent[c][i], entry |-> SubdirEntries(c)[i]] : i \in First(SubdirEntries(c), name)}

\* The items a path of at most two components names: none or one.  A component that
\* has no short form names nothing.
Resolve(path) ==
  IF \E k \in 1 .. Len(path) : path[k] \notin ValidNames THEN {}
  ELSE CASE Len(path) = 1 -> InRootCalled(path[1])
         [] Len(path) = 2 -> UNION {InDirCalled(x.entry.cluster, path[2]) :
                                      x \in {y \in InRootCalled(path[1]) : IsDir(y)}}
         [] OTHER -> {}

Live1(items) == {x \in items : x.entry.status = "used"
                               /\ ~(VFAT_DIR_ENTRY \subseteq x.entry.attribute)}

\* The items in the directories among some items.
Below(items) == UNION {Live1(ItemsOf(x.entry.cluster)) : x \in {y \in items : IsDir(y)}}

TopItems == Live1(RootItems)

\* navigate_to_subdir reaches two levels below the root.
Items == TopItems \cup Below(TopItems) \cup Below(Below(TopItems))

RegularItems == {x \in Items : {"SUBDIR", "VOLUME"} \cap x.entry.attribute = {}}

EntryOf == [p \in {x.pos : x \in Items} |-> (CHOOSE x \in Items : x.pos = p).entry]

NoEntry == -1

Paths == {c.path : c \in {r \in Requests : r.op \in {"open", "size", "ls"}}}

\* What a lookup may go on in: a directory with clusters.  A volume label is refused.
Enterable(x) == "VOLUME" \in x.entry.attribute \/ (IsDir(x) /\ x.entry.cluster # 0)

\* No file is used as a directory on the way to the last component.  The driver looks
\* a third component up twice, the first time as the directory (PathAtIndex).
ThroughDirectories(path) ==
  /\ Len(path) > 1 => \A x \in InRootCalled(path[1]) : Enterable(x)
  /\ Len(path) = 3 => \A x \in InRootCalled(path[1]) :
       IsDir(x) => \A y \in InDirCalled(x.entry.cluster, path[3]) : Enterable(y)

\* The callers' part: the driver would take the bytes of such a file for entries
\* (fat16_rootdir.c:46, fat16_subdir.c:23) and open what they seem to name.
ASSUME RequestsAssumption ==
  \A c \in Requests : c.op \in {"open", "size", "ls"} => ThroughDirectories(c.path)

\* The FAT leads from cluster c along Chain[c] to an end mark.
Linked(c) ==
  /\ c \in Clusters
  /\ Chain[c] \in Seq(Clusters) /\ Chain[c] # << >> /\ Chain[c][1] = c
  /\ \A k \in 1 .. Len(Chain[c]) :
       IF k = Len(Chain[c]) THEN Fat[Chain[c][k]] >= EOC
       ELSE Fat[Chain[c][k]] = Chain[c][k + 1] /\ Fat[Chain[c][k]] < EOC

\* The volume is one a FAT16 formatter could have written: an entry's cluster begins
\* a chain, and a file's chain is as long as its size needs.
ASSUME VolumeAssumption ==
  /\ Fat[0] >= EOC
  /\ \A x \in Items : x.entry.cluster = 0 \/ Linked(x.entry.cluster)
  /\ \A x \in RegularItems :
       /\ (x.entry.cluster = 0) = (x.entry.size = 0)
       /\ Len(Extent[x.entry.cluster]) >= x.entry.size
       /\ Len(Extent[x.entry.cluster]) < x.entry.size + ClusterBytes

----------------------------------------------------------------------------
Regular == {x.pos : x \in RegularItems}

InRoot == {x.pos : x \in RootItems}

ReadOnlyItems == {x.pos : x \in {y \in Items : "READ_ONLY" \in y.entry.attribute}}

ContentOf == [f \in Regular |-> SubSeq(Extent[EntryOf[f].cluster], 1, EntryOf[f].size)]

LookupOf ==
  [path \in Paths |-> IF Resolve(path) = {} THEN NoEntry
                      ELSE (CHOOSE x \in Resolve(path) : TRUE).pos]

EntriesOf(path) ==
  Live(IF path = << >> THEN Root
       ELSE SubdirEntries((CHOOSE x \in Resolve(path) : TRUE).entry.cluster))

Listable(x) == IsDir(x) /\ x.entry.cluster # 0

ListingOf ==
  [path \in {p \in Paths : p = << >> \/ \E x \in Resolve(p) : Listable(x)} |->
     [i \in 1 .. Len(EntriesOf(path)) |-> EntriesOf(path)[i].name]]

SizeTable == [f \in DOMAIN EntryOf |-> EntryOf[f].size]

\* How far a reader has come; a read in progress has not happened yet.
Delivered(s) ==
  SizeTable[handles[s].pos_entry] - handles[s].remaining_bytes
    - (IF pc = "read" /\ call.slot = s THEN Len(buf) ELSE 0)

\* What a caller sees of a handle.
FdOf(s) ==
  IF handles[s].mode = "none" THEN [file |-> NoEntry, mode |-> "none", pos |-> 0]
  ELSE [file |-> handles[s].pos_entry, mode |-> handles[s].mode,
        pos |-> IF handles[s].mode = "r" THEN Delivered(s) ELSE 0]

Descriptors == [s \in Slots |-> FdOf(s)]

Implemented == INSTANCE FileTable WITH
  Files <- Regular,
  RootFiles <- InRoot,
  ReadOnly <- ReadOnlyItems,
  Content <- ContentOf,
  Lookup <- LookupOf,
  SizeOf <- SizeTable,
  Listing <- ListingOf,
  reply <- ret,
  fds <- Descriptors

(***************************************************************************)
(* The driver implements FileTable: open finds the file its path names or  *)
(* says -1 for a reason, consecutive reads of a handle deliver the file's  *)
(* bytes in order however the chain is scattered, size and ls agree with   *)
(* the directory, and no call disturbs a handle it was not given.          *)
(***************************************************************************)
FileTableSpec == Implemented!Spec

(***************************************************************************)
(* An open handle stands where its next byte is: a reader's cluster and    *)
(* offset are those of position size - remaining_bytes of the chain, an    *)
(* appender's are the end of the file.                                     *)
(***************************************************************************)
HandlesOnChain ==
  \A s \in Slots :
    LET h == handles[s]
        e == EntryOf[h.pos_entry]
        done == e.size - h.remaining_bytes
    IN  /\ (h.mode = "r" /\ h.remaining_bytes > 0) =>
             move_to_data_region(h.cluster, h.offset) = Extent[e.cluster][done + 1]
        /\ (h.mode = "a" /\ e.size > 0) =>
             /\ h.offset > 0
             /\ move_to_data_region(h.cluster, h.offset) - 1 = Extent[e.cluster][e.size]

(***************************************************************************)
(* fat16_open's loop over the handles (fat16.c:300-313) keeps a file of a  *)
(* subdirectory that is open for writing from being open a second time.    *)
(***************************************************************************)
ExclusiveUse ==
  \A s, t \in Slots :
    /\ s # t
    /\ handles[s].mode # "none" /\ handles[t].mode # "none"
    /\ handles[s].pos_entry = handles[t].pos_entry
    /\ handles[s].pos_entry \notin InRoot
    => handles[s].mode = "r" /\ handles[t].mode = "r"

(***************************************************************************)
(* The driver writes behind handles[] (INVALID_HANDLE is never tested,     *)
(* fat16.c:256) only in a call made while all handles are busy.            *)
(***************************************************************************)
StrayWriteOnlyWhenFull ==
  [][(stray' /\ ~stray) => \A s \in Slots : handles[s].mode # "none"]_vars

(***************************************************************************)
(* Every call returns: the directory scans, the append walk and the read   *)
(* loop all come to an end.                                                *)
(***************************************************************************)
CallsReturn == (pc # "idle") ~> (pc = "idle")
=============================================================================
