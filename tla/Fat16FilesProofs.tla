-------------------------- MODULE Fat16FilesProofs --------------------------
(***************************************************************************)
(* For every well-formed volume, number of handles and callers whose paths *)
(* lead through directories (RequestsAssumption): the handles of the FAT16 *)
(* driver stand where their next byte is, a file of a subdirectory is not  *)
(* shared with a writer, the driver writes behind handles[] only when all  *)
(* handles are busy, and its calls do what FileTable promises.  The first  *)
(* three rest on DriverInv, the last one on DriverInv and ServiceInv.      *)
(***************************************************************************)
EXTENDS Fat16Files, SequenceTheorems, WellFoundedInduction, TLAPS

EntryHandles ==
  [mode : Modes \cup {"none"}, pos_entry : Int, cluster : Nat, offset : Nat,
   remaining_bytes : Nat]

Goals == {"", "root", "descend", "file", "size", "dir"}

Names == ValidNames \cup {""}

Entries == DirEntries \cup {EndEntry}

Locals ==
  [slot : Nat, name : Names, goal : Goals, start : Nat, entry : Entries, pos : Int, left : Int]

\* In ls_in_subdir nothing depends on where the handle stands and how far it has come.
CallTypes ==
  /\ pc # "ls" => dh \in EntryHandles /\ loc \in Locals
  /\ pc \in {"idle", "start", "find", "found", "append", "share", "ls", "read"}
  /\ pc # "idle" => call \in Requests

----------------------------------------------------------------------------
(* The handle a call will use.                                             *)

\* What find_available_handle found is still so: a handle nobody has taken, or no
\* handle at all because every one is busy.
SlotStillFree ==
  pc \in {"find", "found", "append", "share"} =>
    \/ loc.slot \in Slots /\ handles[loc.slot].mode = "none"
    \/ loc.slot = INVALID_HANDLE /\ \A s \in Slots : handles[s].mode # "none"

\* A file that is being opened has the mode the caller gave.
ModeOfCall ==
  /\ (pc \in {"find", "found"} /\ call.op = "open") => call.mode \in Modes
  /\ (pc \in {"find", "found"} /\ loc.goal = "file") => call.op = "open"
  /\ (pc = "append" /\ loc.goal # "root") => dh.mode = call.mode
  /\ pc = "share" => dh.mode = call.mode

\* open_file_in_root does not check for sharing.
RootOpensInRoot == (pc = "append" /\ loc.goal = "root") => dh.pos_entry \in InRoot

----------------------------------------------------------------------------
(* Handles on chains.                                                      *)

\* A reader's next byte is in the k-th cluster of its file.
ReaderAt(h, e) ==
  /\ h.remaining_bytes <= e.size
  /\ \E k \in 1 .. Len(Chain[e.cluster]) :
       /\ h.cluster = Chain[e.cluster][k]
       /\ h.offset \in 0 .. ClusterBytes - 1
       /\ e.size - h.remaining_bytes = (k - 1) * ClusterBytes + h.offset

\* An appender is in the last cluster, behind the last byte.
AppenderAt(h, e) ==
  LET n == Len(Chain[e.cluster])
  IN  /\ h.cluster = Chain[e.cluster][n]
      /\ h.offset \in 1 .. ClusterBytes
      /\ e.size = (n - 1) * ClusterBytes + h.offset

\* What an open handle says of the file at its pos_entry.
OnFile(h, x) ==
  /\ h.pos_entry = x.pos
  /\ h.mode # "r" => h.remaining_bytes = 0
  /\ (h.mode = "r" /\ h.remaining_bytes > 0) => ReaderAt(h, x.entry)
  /\ (h.mode = "a" /\ x.entry.size > 0) => AppenderAt(h, x.entry)

HandlesOnFiles ==
  \A s \in Slots : handles[s].mode # "none" => \E x \in RegularItems : OnFile(handles[s], x)

\* A handle that is complete but for the sharing check.
ShareOnFile == pc = "share" => \E x \in RegularItems : OnFile(dh, x)

\* The walk of mode "a" has passed k - 1 clusters of the file and taken them off left.
WalkOnFile ==
  pc = "append" =>
    /\ dh.mode = "a" /\ dh.remaining_bytes = 0
    /\ \E x \in RegularItems :
         /\ dh.pos_entry = x.pos
         /\ \/ x.entry.cluster = 0 /\ dh.cluster = 0
            \/ /\ x.entry.cluster # 0
               /\ \E k \in 1 .. Len(Chain[x.entry.cluster]) :
                    /\ dh.cluster = Chain[x.entry.cluster][k]
                    /\ loc.left = x.entry.size - (k - 1) * ClusterBytes

\* What the read loop still has to deliver.
ReadOpen == pc = "read" => call.slot \in Slots /\ handles[call.slot].mode # "none"
                           /\ loc.left \in Nat

----------------------------------------------------------------------------
(* Directory scans.                                                        *)

\* The directories a scan may be in: the ones navigate_to_subdir opens.
Reached(goal) == IF goal = "descend" THEN TopItems ELSE TopItems \cup Below(TopItems)

\* Where the entry looked up with this goal can be.
FoundIn(goal) == IF goal = "descend" THEN Below(TopItems) ELSE Items

\* x is a directory, and its first cluster is c.
DirAt(x, c) == x \in Items /\ IsDir(x) /\ x.entry.cluster = c /\ c \in Clusters

ScanOrigin ==
  pc \in {"find", "found"} => \E x \in Reached(loc.goal) : DirAt(x, loc.start)

\* Only a path of three components makes a scan for the directory in the directory.
DescendsFrom ==
  (pc \in {"find", "found"} /\ loc.goal = "descend") =>
    /\ Len(call.path) = 3 /\ loc.name = call.path[3]
    /\ \E x \in InRootCalled(call.path[1]) : IsDir(x) /\ x.entry.cluster = loc.start

\* Only the calls that take a path look one up.
CallOfScan == pc \in {"find", "found"} => call.op \in {"open", "size", "ls"}

\* An entry a scan for this name goes past: not the end mark, and not the one it wants.
Skips(e, name) == e.status # "end" /\ ~Matches(e, name)

\* A scan has passed n entries, none of which it stops at.
ScanAt(c, h, name) ==
  \E k \in 1 .. Len(Chain[c]) :
    /\ h.cluster = Chain[c][k]
    /\ h.offset \in 0 .. ClusterBytes
    /\ \A i \in 1 .. (k - 1) * ClusterBytes + h.offset : Skips(SubdirEntries(c)[i], name)

Scanning ==
  /\ pc = "find" => ScanAt(loc.start, dh, loc.name)
  /\ pc = "found" => dh.cluster = loc.start /\ dh.offset = 0

FoundItem ==
  (pc = "found" /\ loc.entry.status = "used") =>
    [pos |-> loc.pos, entry |-> loc.entry]
      \in FoundIn(loc.goal) \cap InDirCalled(loc.start, loc.name)

GoalOfScan == pc \in {"find", "found"} => loc.goal \in {"descend", "file", "size", "dir"}

\* The handle table, and the call being served.
TableInv == handles \in [Slots -> EntryHandles] /\ HandlesOnFiles /\ ExclusiveUse

CallInv ==
  /\ CallTypes
  /\ SlotStillFree /\ ModeOfCall /\ RootOpensInRoot
  /\ ShareOnFile /\ WalkOnFile /\ ReadOpen
  /\ ScanOrigin /\ DescendsFrom /\ Scanning /\ FoundItem /\ GoalOfScan /\ CallOfScan

DriverInv == TableInv /\ CallInv

----------------------------------------------------------------------------
(* The call being served, as FileTable sees it.                            *)

Shallow == Len(call.path) <= 2

\* Between two calls nothing is left over from the last one.
NothingPending == (pc = "idle" => call = NoCall) /\ (pc # "read" => buf = << >>)

\* A path of two components leads through a directory of the root to its last one.
LookedUp ==
  pc \in {"find", "found"} =>
    /\ loc.goal \in {"descend", Purpose}
    /\ Shallow => /\ Len(call.path) = 2 /\ loc.goal = Purpose
                  /\ call.path[1] \in ValidNames /\ call.path[2] \in ValidNames
                  /\ loc.name = call.path[2]
                  /\ DirInRoot(call.path[1])
                  /\ loc.start = RootEntry(call.path[1]).cluster

\* What a scan has found is what the path names.
FoundNamed ==
  pc = "found" =>
    /\ Shallow => Resolve(call.path) = IF loc.entry.status = "used"
                                         THEN {[pos |-> loc.pos, entry |-> loc.entry]} ELSE {}
    /\ loc.entry.status = "used" => loc.pos \notin InRoot

\* The file being opened is the one the path names, and may be opened in this mode.
Target ==
  pc \in {"append", "share"} =>
    /\ call.op = "open" /\ call.mode \in Modes /\ dh.mode = call.mode
    /\ Shallow => LookupOf[call.path] = dh.pos_entry
    /\ dh.pos_entry \in ReadOnlyItems => call.mode = "r"
    /\ (pc = "append" /\ loc.goal = "root") <=> dh.pos_entry \in InRoot
    /\ dh.mode = "r" => dh.remaining_bytes = EntryOf[dh.pos_entry].size

\* The buffer holds the bytes of the file before the handle, and the device stands on
\* the next one.
ReadSoFar(h, e) ==
  LET first == e.size - h.remaining_bytes - Len(buf)
  IN  /\ h.mode = "r" /\ first \in Nat
      /\ \A i \in 1 .. Len(buf) : buf[i] = Extent[e.cluster][first + i]
      /\ h.remaining_bytes > 0 => disk_pointer = move_to_data_region(h.cluster, h.offset)

Reading ==
  pc = "read" =>
    /\ call.op = "read" /\ buf \in Seq(Int) /\ loc.left = call.count - Len(buf)
    /\ ReadSoFar(handles[call.slot], EntryOf[handles[call.slot].pos_entry])

\* ls_in_subdir has skipped as many entries of the directory at c as it counts.
ListAt(c) ==
  /\ dh \in EntryHandles /\ loc \in Locals /\ loc.left \in Nat
  /\ \E k \in 1 .. Len(Chain[c]) :
       /\ dh.cluster = Chain[c][k]
       /\ dh.offset \in 0 .. ClusterBytes
       /\ (k - 1) * ClusterBytes + dh.offset + loc.left = call.index

ListingAt ==
  pc = "ls" =>
    /\ call.op = "ls" /\ call.path # << >>
    /\ Shallow => \E x \in Items : /\ Resolve(call.path) = {x}
                                   /\ Listable(x) => ListAt(x.entry.cluster)

ServiceInv == NothingPending /\ LookedUp /\ FoundNamed /\ Target /\ Reading /\ ListingAt

----------------------------------------------------------------------------
(* Sequences and arithmetic.                                               *)

LEMMA LeastOf ==
  ASSUME NEW T \in SUBSET Nat, T # {}
  PROVE  \E x \in T : \A y \in T : x <= y
<1> DEFINE R == OpToRel(<, Nat)
<1>1. PICK x \in T : \A y \in T : ~(<<y, x>> \in R)
  <2>1. IsWellFoundedOn(R, Nat)
    BY NatLessThanWellFounded
  <2> HIDE DEF R
  <2> QED
    BY <2>1, WFMin
<1>2. ASSUME NEW y \in T PROVE x <= y
  <2>1. x \in Nat /\ y \in Nat
    BY <1>2
  <2>2. y < x => <<y, x>> \in R
    <3>1. R = {ss \in Nat \X Nat : ss[1] < ss[2]}
      BY DEF OpToRel
    <3> QED
      BY <2>1, <3>1
  <2>3. ~(y < x)
    BY <1>1, <1>2, <2>2
  <2> QED
    BY <2>1, <2>3
<1> QED
  BY <1>1, <1>2

LEMMA SequenceOfLength ==
  ASSUME NEW S, NEW n \in Nat, NEW s \in [1 .. n -> S]
  PROVE  s \in Seq(S) /\ Len(s) = n
<1>1. s \in Seq(S)
  BY SeqDef
<1>2. Len(s) \in Nat /\ DOMAIN s = 1 .. Len(s) /\ DOMAIN s = 1 .. n
  BY <1>1, LenProperties
<1> QED
  BY <1>1, <1>2

LEMMA DivisionUnique ==
  ASSUME NEW S \in Nat \ {0}, NEW q \in Nat, NEW r \in 0 .. S - 1
  PROVE  (S * q + r) \div S = q /\ (S * q + r) % S = r
<1> DEFINE n == S * q + r
           d == n \div S
<1>1. n \in Nat /\ n = S * q + r
  OBVIOUS
<1> HIDE DEF n
<1>2. d \in Int /\ n % S \in 0 .. S - 1 /\ n = S * d + (n % S)
  BY <1>1
<1> HIDE DEF d
<1>3. ASSUME d > q PROVE FALSE
  <2>1. S * d >= S * q + S
    BY <1>2, <1>3
  <2> QED
    BY <1>1, <1>2, <2>1
<1>4. ASSUME d < q PROVE FALSE
  <2>1. S * q >= S * d + S
    BY <1>2, <1>4
  <2> QED
    BY <1>1, <1>2, <2>1
<1>5. d = q
  BY <1>2, <1>3, <1>4
<1>6. n % S = r
  BY <1>1, <1>2, <1>5
<1> QED
  BY <1>5, <1>6 DEF n, d

\* The i-th entry, counted from 1, lies at offset o of the k-th cluster.
LEMMA Cell ==
  ASSUME NEW k \in Nat \ {0}, NEW o \in 0 .. ClusterBytes - 1,
         NEW i, i = (k - 1) * ClusterBytes + o + 1
  PROVE  /\ i \in Nat \ {0}
         /\ (i - 1) \div ClusterBytes = k - 1
         /\ (i - 1) % ClusterBytes = o
         /\ \A n \in Nat : k <= n => i <= n * ClusterBytes
<1> DEFINE B == ClusterBytes
           j == k - 1
<1>1. B \in Nat \ {0} /\ o \in 0 .. B - 1
  BY Fat16Assumption
<1>2. j \in Nat /\ k = j + 1 /\ i = j * B + o + 1
  OBVIOUS
<1> HIDE DEF B, j
<1>3. j * B = B * j /\ B * j \in Nat
  BY <1>1, <1>2
<1>4. i - 1 = B * j + o /\ i \in Nat \ {0}
  BY <1>1, <1>2, <1>3
<1>5. ASSUME NEW n \in Nat, k <= n PROVE i <= n * B
  <2>1. n * B >= (j + 1) * B
    BY <1>1, <1>2, <1>5
  <2>2. (j + 1) * B = j * B + B /\ n * B \in Nat
    BY <1>1, <1>2
  <2> QED
    BY <1>1, <1>2, <1>3, <2>1, <2>2
<1>6. (B * j + o) \div B = j /\ (B * j + o) % B = o
  BY <1>1, <1>2, DivisionUnique
<1>7. /\ i \in Nat \ {0} /\ (i - 1) \div B = k - 1 /\ (i - 1) % B = o
      /\ \A n \in Nat : k <= n => i <= n * B
  BY <1>2, <1>4, <1>5, <1>6
<1> QED
  BY <1>7 DEF B

\* Every index into n clusters is of that form.
LEMMA CellOf ==
  ASSUME NEW n \in Nat, NEW i \in 1 .. n * ClusterBytes
  PROVE  \E k \in 1 .. n, o \in 0 .. ClusterBytes - 1 :
           i = (k - 1) * ClusterBytes + o + 1
<1> DEFINE B == ClusterBytes
           d == (i - 1) \div B
           o == (i - 1) % B
<1>1. B \in Nat \ {0}
  BY Fat16Assumption
<1>2. n * B \in Nat /\ i \in Nat /\ i >= 1 /\ i <= n * B
  BY <1>1
<1>3. d \in Nat /\ o \in 0 .. B - 1 /\ i - 1 = B * d + o
  BY <1>1, <1>2
<1> HIDE DEF d, o, B
<1>4. ASSUME d >= n PROVE FALSE
  <2>1. B * d >= B * n /\ n * B = B * n
    BY <1>1, <1>3, <1>4
  <2> QED
    BY <1>1, <1>2, <1>3, <2>1
<1> DEFINE k == d + 1
<1>5. k \in 1 .. n /\ k - 1 = d
  BY <1>2, <1>3, <1>4
<1>6. (k - 1) * B = B * d
  BY <1>1, <1>3, <1>5
<1> HIDE DEF k
<1>7. k \in 1 .. n /\ o \in 0 .. B - 1 /\ i = (k - 1) * B + o + 1
  BY <1>1, <1>2, <1>3, <1>5, <1>6
<1> QED
  BY <1>7 DEF B

----------------------------------------------------------------------------
(* The volume.                                                             *)

LEMMA VolumeTypes ==
  /\ ClusterBytes \in Nat \ {0} /\ OffsetMod \in Nat \ {0} /\ ClusterBytes < OffsetMod
  /\ EOC \in Nat /\ FatEntries \in Nat \ {0}
  /\ Fat \in [0 .. FatEntries - 1 -> Nat]
  /\ Len(Root) \in Nat
  /\ \A i \in 1 .. Len(Root) : Root[i] \in DirEntries
  /\ DOMAIN Dirs = Clusters
  /\ \A c \in Clusters : \A i \in 1 .. ClusterBytes : Dirs[c][i] \in DirEntries
  /\ Clusters \subseteq 0 .. FatEntries - 1 /\ 0 \notin Clusters
  /\ \A c \in Clusters : c \in Nat /\ c >= 2
<1>1. Len(Root) \in Nat /\ Root \in [1 .. Len(Root) -> DirEntries]
  BY Fat16Assumption, LenProperties
<1>2. Dirs \in [Clusters -> [1 .. ClusterBytes -> DirEntries]]
  BY Fat16Assumption DEF Clusters
<1>3. FatEntries \in Nat \ {0}
  BY Fat16Assumption
<1>4. \A c \in Clusters : c \in Nat /\ c >= 2 /\ c \in 0 .. FatEntries - 1
  BY <1>3 DEF Clusters
<1>5. DOMAIN Dirs = Clusters
      /\ \A c \in Clusters : \A i \in 1 .. ClusterBytes : Dirs[c][i] \in DirEntries
  BY <1>2
<1>6. 0 \notin Clusters
  BY <1>4
<1> QED
  BY <1>1, <1>3, <1>4, <1>5, <1>6, Fat16Assumption

LEMMA EntryFields ==
  ASSUME NEW e \in DirEntries
  PROVE  e.cluster \in Nat /\ e.size \in Nat /\ e.status \in {"used", "free", "end"}
BY DEF DirEntries

\* A chain that is linked: what the FAT says of its clusters.
LEMMA ChainLinks ==
  ASSUME NEW c, Linked(c)
  PROVE  /\ c \in Clusters /\ Len(Chain[c]) \in Nat \ {0} /\ Chain[c][1] = c
         /\ \A k \in 1 .. Len(Chain[c]) : Chain[c][k] \in Clusters
         /\ \A k \in 1 .. Len(Chain[c]) :
              /\ Fat[Chain[c][k]] \in Nat
              /\ (Fat[Chain[c][k]] >= EOC) = (k = Len(Chain[c]))
              /\ k # Len(Chain[c]) => Fat[Chain[c][k]] = Chain[c][k + 1]
<1> DEFINE s == Chain[c]
<1>1. s \in Seq(Clusters) /\ s # << >> /\ c \in Clusters /\ s[1] = c
  BY DEF Linked
<1>2. \A k \in 1 .. Len(s) :
        IF k = Len(s) THEN Fat[s[k]] >= EOC ELSE Fat[s[k]] = s[k + 1] /\ Fat[s[k]] < EOC
  BY DEF Linked
<1> HIDE DEF s
<1>3. Len(s) \in Nat \ {0} /\ \A k \in 1 .. Len(s) : s[k] \in Clusters
  BY <1>1, EmptySeq, LenProperties
<1>4. \A k \in 1 .. Len(s) : Fat[s[k]] \in Nat
  BY <1>3, VolumeTypes
<1>5. \A k \in 1 .. Len(s) : /\ Fat[s[k]] \in Nat
                             /\ (Fat[s[k]] >= EOC) = (k = Len(s))
                             /\ k # Len(s) => Fat[s[k]] = s[k + 1]
  BY <1>2, <1>3, <1>4, VolumeTypes
<1>6. /\ c \in Clusters /\ Len(s) \in Nat \ {0} /\ s[1] = c
      /\ \A k \in 1 .. Len(s) : s[k] \in Clusters
  BY <1>1, <1>3
<1> QED
  BY <1>5, <1>6 DEF s

\* The disk positions of a chain, cluster by cluster.
LEMMA ExtentCells ==
  ASSUME NEW c, Linked(c)
  PROVE  /\ Len(Extent[c]) = Len(Chain[c]) * ClusterBytes
         /\ \A k \in 1 .. Len(Chain[c]), o \in 0 .. ClusterBytes - 1 :
              /\ (k - 1) * ClusterBytes + o + 1 \in 1 .. Len(Extent[c])
              /\ Extent[c][(k - 1) * ClusterBytes + o + 1] = move_to_data_region(Chain[c][k], o)
<1> DEFINE n == Len(Chain[c])
           p(i) == FatEntries + Len(Root)
                     + (Chain[c][((i - 1) \div ClusterBytes) + 1] - 2) * ClusterBytes
                     + ((i - 1) % ClusterBytes)
           s == [i \in 1 .. n * ClusterBytes |-> p(i)]
<1>1. c \in Clusters /\ n \in Nat \ {0} /\ \A k \in 1 .. n : Chain[c][k] \in Clusters
  BY ChainLinks
<1>2. ClusterBytes \in Nat \ {0} /\ FatEntries \in Nat /\ Len(Root) \in Nat /\ 0 \notin Clusters
      /\ \A d \in Clusters : d \in Nat
  BY VolumeTypes
<1>3. Extent[c] = s
  BY <1>1, <1>2 DEF Extent
<1> HIDE DEF n
<1>4. n * ClusterBytes \in Nat
  BY <1>1, <1>2
<1>5. s \in [1 .. n * ClusterBytes -> {p(i) : i \in 1 .. n * ClusterBytes}]
  OBVIOUS
<1>6. Len(s) = n * ClusterBytes
  <2> HIDE DEF s
  <2> QED
    BY <1>4, <1>5, SequenceOfLength
<1>7. ASSUME NEW k \in 1 .. n, NEW o \in 0 .. ClusterBytes - 1,
             NEW i, i = (k - 1) * ClusterBytes + o + 1
      PROVE  i \in 1 .. n * ClusterBytes /\ s[i] = move_to_data_region(Chain[c][k], o)
  <2>1. k \in Nat \ {0} /\ k <= n
    BY <1>1
  <2>2. /\ i \in Nat \ {0} /\ (i - 1) \div ClusterBytes = k - 1 /\ (i - 1) % ClusterBytes = o
        /\ i <= n * ClusterBytes
    BY <1>1, <1>7, <2>1, Cell
  <2>3. i \in 1 .. n * ClusterBytes
    BY <1>4, <2>2
  <2>4. k - 1 + 1 = k
    BY <2>1
  <2>5. s[i] = p(i)
    BY <2>3
  <2>6. p(i) = FatEntries + Len(Root) + (Chain[c][k] - 2) * ClusterBytes + o
    BY <2>2, <2>4
  <2> QED
    BY <2>3, <2>5, <2>6 DEF move_to_data_region
<1> QED
  BY <1>3, <1>6, <1>7 DEF n

\* Live cuts a directory off before its first end mark.
LEMMA LiveLength ==
  ASSUME NEW T, NEW s \in Seq(T)
  PROVE  /\ Len(Live(s)) \in 0 .. Len(s)
         /\ \A n \in 1 .. Len(s) :
              n <= Len(Live(s)) <=> \A i \in 1 .. n : s[i].status # "end"
<1> DEFINE ends == {i \in 1 .. Len(s) : s[i].status = "end"}
<1>1. Len(s) \in Nat /\ s \in [1 .. Len(s) -> T]
  BY LenProperties
<1>2. CASE ends = {}
  <2>1. Live(s) = s
    BY <1>2 DEF Live
  <2> QED
    BY <1>1, <1>2, <2>1
<1>3. CASE ends # {}
  <2> DEFINE f == CHOOSE i \in ends : \A j \in ends : i <= j
  <2>1. ends \in SUBSET Nat
    BY <1>1
  <2>2. \E i \in ends : \A j \in ends : i <= j
    BY <1>3, <2>1, LeastOf
  <2>3. f \in ends /\ \A j \in ends : f <= j
    BY <2>2
  <2>4. Live(s) = SubSeq(s, 1, f - 1)
    BY <1>3 DEF Live
  <2> HIDE DEF f
  <2>5. f \in 1 .. Len(s) /\ s[f].status = "end"
    BY <2>3
  <2>6. 1 \in Int /\ f - 1 \in Int /\ \A i \in 1 .. f - 1 : s[i] \in T
    BY <1>1, <2>5
  <2>7. Len(SubSeq(s, 1, f - 1)) = IF 1 <= f - 1 THEN f - 1 - 1 + 1 ELSE 0
    BY <2>6, SubSeqProperties
  <2>8. Len(Live(s)) = f - 1
    BY <1>1, <2>4, <2>5, <2>7
  <2>9. ASSUME NEW n \in 1 .. Len(s)
        PROVE  n <= f - 1 <=> \A i \in 1 .. n : s[i].status # "end"
    <3>1. n <= f - 1 => \A i \in 1 .. n : s[i].status # "end"
      BY <1>1, <2>3, <2>5
    <3>2. ~(n <= f - 1) => f \in 1 .. n
      BY <1>1, <2>5
    <3> QED
      BY <2>5, <3>1, <3>2
  <2> QED
    BY <1>1, <2>5, <2>8, <2>9
<1> QED
  BY <1>2, <1>3

\* The entries of a directory, cluster by cluster.
LEMMA DirCells ==
  ASSUME NEW x \in Items, IsDir(x), NEW c, c = x.entry.cluster, c # 0
  PROVE  /\ Linked(c)
         /\ SubdirEntries(c) \in Seq(DirEntries)
         /\ Len(SubdirEntries(c)) = Len(Chain[c]) * ClusterBytes
         /\ \A k \in 1 .. Len(Chain[c]), o \in 0 .. ClusterBytes - 1 :
              /\ Chain[c][k] \in Clusters
              /\ Dirs[Chain[c][k]][o + 1] \in DirEntries
              /\ SubdirEntries(c)[(k - 1) * ClusterBytes + o + 1] = Dirs[Chain[c][k]][o + 1]
<1> DEFINE n == Len(Chain[c])
           e(i) == Dirs[Chain[c][((i - 1) \div ClusterBytes) + 1]][((i - 1) % ClusterBytes) + 1]
           s == [i \in 1 .. n * ClusterBytes |-> e(i)]
<1>1. Linked(c) /\ \A k \in 1 .. n : Chain[c][k] \in Clusters
  <2>1. Linked(c)
    BY VolumeAssumption
  <2> QED
    BY <2>1, ChainLinks
<1>2. n \in Nat \ {0} /\ ClusterBytes \in Nat \ {0} /\ n * ClusterBytes \in Nat
  BY <1>1, ChainLinks, VolumeTypes
<1>3. SubdirEntries(c) = s
  BY <1>1, ExtentCells DEF SubdirEntries
<1> HIDE DEF n
<1>4. ASSUME NEW k \in 1 .. n, NEW o \in 0 .. ClusterBytes - 1,
             NEW i, i = (k - 1) * ClusterBytes + o + 1
      PROVE  /\ e(i) = Dirs[Chain[c][k]][o + 1]
             /\ Dirs[Chain[c][k]][o + 1] \in DirEntries
             /\ i \in 1 .. n * ClusterBytes
  <2>1. k \in Nat \ {0} /\ k <= n /\ o + 1 \in 1 .. ClusterBytes /\ k - 1 + 1 = k
    BY <1>2
  <2>2. /\ i \in Nat \ {0} /\ (i - 1) \div ClusterBytes = k - 1 /\ (i - 1) % ClusterBytes = o
        /\ i <= n * ClusterBytes
    BY <1>2, <1>4, <2>1, Cell
  <2>3. e(i) = Dirs[Chain[c][k]][o + 1]
    BY <2>1, <2>2
  <2>4. Dirs[Chain[c][k]][o + 1] \in DirEntries
    BY <1>1, <2>1, VolumeTypes
  <2> QED
    BY <1>2, <2>2, <2>3, <2>4
<1>5. ASSUME NEW i \in 1 .. n * ClusterBytes PROVE e(i) \in DirEntries
  <2>1. PICK k \in 1 .. n, o \in 0 .. ClusterBytes - 1 : i = (k - 1) * ClusterBytes + o + 1
    BY <1>2, CellOf
  <2> HIDE DEF e
  <2> QED
    BY <1>4, <2>1
<1>6. s \in [1 .. n * ClusterBytes -> DirEntries]
  BY <1>5
<1>7. s \in Seq(DirEntries) /\ Len(s) = n * ClusterBytes
  <2> HIDE DEF s
  <2> QED
    BY <1>2, <1>6, SequenceOfLength
<1>8. ASSUME NEW k \in 1 .. n, NEW o \in 0 .. ClusterBytes - 1
      PROVE  /\ Dirs[Chain[c][k]][o + 1] \in DirEntries
             /\ s[(k - 1) * ClusterBytes + o + 1] = Dirs[Chain[c][k]][o + 1]
  <2> DEFINE i == (k - 1) * ClusterBytes + o + 1
  <2> HIDE DEF i
  <2>1. /\ e(i) = Dirs[Chain[c][k]][o + 1] /\ Dirs[Chain[c][k]][o + 1] \in DirEntries
        /\ i \in 1 .. n * ClusterBytes
    <3> HIDE DEF e
    <3> QED
      BY <1>4 DEF i
  <2>2. s[i] = e(i)
    BY <2>1
  <2> QED
    BY <2>1, <2>2 DEF i
<1> HIDE DEF s
<1> QED
  BY <1>1, <1>3, <1>7, <1>8 DEF n

\* A directory entry whose cluster is 0 has nothing in it.
LEMMA EmptyDirectory == SubdirEntries(0) \in Seq(DirEntries) /\ Len(SubdirEntries(0)) = 0
<1> DEFINE s == SubdirEntries(0)
           e(i) == Dirs[Chain[0][((i - 1) \div ClusterBytes) + 1]][((i - 1) % ClusterBytes) + 1]
<1>1. Extent[0] = << >>
  BY DEF Extent
<1>2. Len(Extent[0]) = 0
  BY <1>1
<1>3. s = [i \in 1 .. 0 |-> e(i)]
  BY <1>2 DEF SubdirEntries
<1> HIDE DEF s, e
<1>4. s \in [1 .. 0 -> DirEntries]
  <2>1. \A i \in 1 .. 0 : e(i) \in DirEntries
    OBVIOUS
  <2> QED
    BY <1>3, <2>1, Zenon
<1>5. 0 \in Nat
  OBVIOUS
<1> QED
  BY <1>4, <1>5, SequenceOfLength, Zenon DEF s

LEMMA NothingInNoDirectory == ItemsOf(0) = {}
<1> DEFINE s == SubdirEntries(0)
<1>1. s \in Seq(DirEntries) /\ Len(s) = 0
  BY EmptyDirectory
<1> HIDE DEF s
<1>2. Len(Live(s)) \in 0 .. Len(s)
  BY <1>1, LiveLength
<1>3. 1 .. Len(Live(s)) = {}
  BY <1>1, <1>2
<1> QED
  BY <1>3 DEF ItemsOf, s

----------------------------------------------------------------------------
(* An item is determined by its position.                                  *)

\* An item in a directory lies at offset o of a cluster of the directory.
LEMMA ItemInDirectory ==
  ASSUME NEW d \in Items, IsDir(d), NEW x \in ItemsOf(d.entry.cluster)
  PROVE  \E q \in Clusters, o \in 0 .. ClusterBytes - 1 :
           x = [pos |-> move_to_data_region(q, o), entry |-> Dirs[q][o + 1]]
<1> DEFINE c == d.entry.cluster
<1>1. c # 0
  BY NothingInNoDirectory
<1>2. /\ Linked(c) /\ SubdirEntries(c) \in Seq(DirEntries)
      /\ Len(SubdirEntries(c)) = Len(Chain[c]) * ClusterBytes
      /\ \A k \in 1 .. Len(Chain[c]), o \in 0 .. ClusterBytes - 1 :
           /\ Chain[c][k] \in Clusters
           /\ SubdirEntries(c)[(k - 1) * ClusterBytes + o + 1] = Dirs[Chain[c][k]][o + 1]
  BY <1>1, DirCells
<1> HIDE DEF c
<1>3. PICK i \in 1 .. Len(Live(SubdirEntries(c))) :
        x = [pos |-> Extent[c][i], entry |-> SubdirEntries(c)[i]]
  BY DEF ItemsOf, c
<1>4. Len(Live(SubdirEntries(c))) \in 0 .. Len(SubdirEntries(c))
  BY <1>2, LiveLength
<1>5. Len(Chain[c]) \in Nat
  BY <1>2, ChainLinks
<1>6. Len(Chain[c]) * ClusterBytes \in Nat
  BY <1>5, VolumeTypes
<1>7. i \in 1 .. Len(Chain[c]) * ClusterBytes
  BY <1>2, <1>4, <1>6
<1>8. PICK k \in 1 .. Len(Chain[c]), o \in 0 .. ClusterBytes - 1 :
        i = (k - 1) * ClusterBytes + o + 1
  BY <1>5, <1>7, CellOf
<1>9. Extent[c][i] = move_to_data_region(Chain[c][k], o)
  BY <1>2, <1>8, ExtentCells
<1>10. SubdirEntries(c)[i] = Dirs[Chain[c][k]][o + 1] /\ Chain[c][k] \in Clusters
  BY <1>2, <1>8
<1> QED
  BY <1>3, <1>9, <1>10

LEMMA ItemPlace ==
  ASSUME NEW x \in Items
  PROVE  \/ \E i \in 1 .. Len(Root) : x = [pos |-> FatEntries + i - 1, entry |-> Root[i]]
         \/ \E q \in Clusters, o \in 0 .. ClusterBytes - 1 :
              x = [pos |-> move_to_data_region(q, o), entry |-> Dirs[q][o + 1]]
<1>1. CASE x \in TopItems
  <2>1. PICK i \in 1 .. Len(Live(Root)) : x = [pos |-> FatEntries + i - 1, entry |-> Root[i]]
    BY <1>1 DEF TopItems, Live1, RootItems
  <2>2. Len(Live(Root)) \in 0 .. Len(Root)
    BY LiveLength, Fat16Assumption
  <2>3. i \in 1 .. Len(Root)
    BY <2>2, VolumeTypes
  <2> QED
    BY <2>1, <2>3
<1>2. ASSUME NEW S, S \subseteq Items, x \in Below(S)
      PROVE  \E d \in Items : IsDir(d) /\ x \in ItemsOf(d.entry.cluster)
  <2>1. PICK d \in S : IsDir(d) /\ x \in Live1(ItemsOf(d.entry.cluster))
    BY <1>2 DEF Below
  <2> QED
    BY <1>2, <2>1 DEF Live1
<1>3. CASE x \in Below(TopItems) \cup Below(Below(TopItems))
  <2>1. TopItems \subseteq Items /\ Below(TopItems) \subseteq Items
    BY DEF Items
  <2>2. PICK d \in Items : IsDir(d) /\ x \in ItemsOf(d.entry.cluster)
    BY <1>2, <1>3, <2>1
  <2> QED
    BY <2>2, ItemInDirectory
<1> QED
  BY <1>1, <1>3 DEF Items

\* A position of the data region belongs to one cluster and offset.
LEMMA DataPosition ==
  ASSUME NEW q \in Clusters, NEW r \in Clusters,
         NEW o \in 0 .. ClusterBytes - 1, NEW p \in 0 .. ClusterBytes - 1,
         move_to_data_region(q, o) = move_to_data_region(r, p)
  PROVE  q = r /\ o = p
<1> DEFINE B == ClusterBytes
           u == q - 2
           v == r - 2
<1>1. /\ B \in Nat \ {0} /\ o \in 0 .. B - 1 /\ p \in 0 .. B - 1
      /\ u \in Nat /\ v \in Nat /\ q = u + 2 /\ r = v + 2
  BY VolumeTypes
<1>2. FatEntries \in Nat /\ Len(Root) \in Nat
  BY VolumeTypes
<1>3. FatEntries + Len(Root) + u * B + o = FatEntries + Len(Root) + v * B + p
  BY DEF move_to_data_region
<1> HIDE DEF B, u, v
<1>4. u * B = B * u /\ v * B = B * v /\ B * u \in Nat /\ B * v \in Nat
  BY <1>1
<1>5. B * u + o = B * v + p
  BY <1>1, <1>2, <1>3, <1>4
<1>6. (B * u + o) \div B = u /\ (B * u + o) % B = o
  BY <1>1, DivisionUnique
<1>7. (B * v + p) \div B = v /\ (B * v + p) % B = p
  BY <1>1, DivisionUnique
<1> QED
  BY <1>1, <1>5, <1>6, <1>7

LEMMA DataBehindRoot ==
  ASSUME NEW q \in Clusters, NEW o \in Nat
  PROVE  move_to_data_region(q, o) \in Nat /\ move_to_data_region(q, o) >= FatEntries + Len(Root)
<1> DEFINE u == (q - 2) * ClusterBytes
<1>1. q - 2 \in Nat /\ FatEntries \in Nat /\ Len(Root) \in Nat /\ ClusterBytes \in Nat
  BY VolumeTypes
<1>2. u \in Nat
  BY <1>1
<1>3. move_to_data_region(q, o) = FatEntries + Len(Root) + u + o
  BY DEF move_to_data_region
<1> HIDE DEF u
<1> QED
  BY <1>1, <1>2, <1>3

LEMMA DataStep ==
  ASSUME NEW q \in Clusters, NEW o \in Nat
  PROVE  move_to_data_region(q, o + 1) - 1 = move_to_data_region(q, o)
<1> DEFINE u == (q - 2) * ClusterBytes
<1>1. q - 2 \in Nat /\ FatEntries \in Nat /\ Len(Root) \in Nat /\ ClusterBytes \in Nat
  BY VolumeTypes
<1>2. u \in Nat
  BY <1>1
<1>3. move_to_data_region(q, o) = FatEntries + Len(Root) + u + o
      /\ move_to_data_region(q, o + 1) = FatEntries + Len(Root) + u + (o + 1)
  BY DEF move_to_data_region
<1> HIDE DEF u
<1> QED
  BY <1>1, <1>2, <1>3

\* The entry at an item's position is the item's.
LEMMA EntryOfItem ==
  ASSUME NEW x \in Items
  PROVE  EntryOf[x.pos] = x.entry /\ x.entry \in DirEntries /\ x.pos \in Nat
<1> DEFINE InRootAt(y, i) == i \in 1 .. Len(Root) /\ y = [pos |-> FatEntries + i - 1, entry |-> Root[i]]
           InDirAt(y, q, o) == /\ q \in Clusters /\ o \in 0 .. ClusterBytes - 1
                               /\ y = [pos |-> move_to_data_region(q, o), entry |-> Dirs[q][o + 1]]
<1>1. \A y \in Items : (\E i : InRootAt(y, i)) \/ (\E q, o : InDirAt(y, q, o))
  BY ItemPlace
<1>2. FatEntries \in Nat /\ Len(Root) \in Nat /\ ClusterBytes \in Nat \ {0}
  BY VolumeTypes
<1>3. ASSUME NEW y, NEW i, InRootAt(y, i)
      PROVE  y.pos = FatEntries + i - 1 /\ y.entry = Root[i] /\ i \in 1 .. Len(Root)
             /\ y.entry \in DirEntries /\ y.pos \in Nat /\ y.pos < FatEntries + Len(Root)
  BY <1>2, <1>3, VolumeTypes
<1>4. ASSUME NEW y, NEW q, NEW o, InDirAt(y, q, o)
      PROVE  /\ y.pos = move_to_data_region(q, o) /\ y.entry = Dirs[q][o + 1]
             /\ q \in Clusters /\ o \in 0 .. ClusterBytes - 1
             /\ y.entry \in DirEntries /\ y.pos \in Nat /\ y.pos >= FatEntries + Len(Root)
  <2>1. y.pos = move_to_data_region(q, o) /\ y.entry = Dirs[q][o + 1]
    BY <1>4
  <2>2. q \in Clusters /\ o \in Nat /\ o + 1 \in 1 .. ClusterBytes
    BY <1>2, <1>4
  <2>3. Dirs[q][o + 1] \in DirEntries
    BY <1>4, <2>2, VolumeTypes
  <2> QED
    BY <1>4, <2>1, <2>2, <2>3, DataBehindRoot
<1> HIDE DEF InRootAt, InDirAt
<1>5. ASSUME NEW y \in Items, y.pos = x.pos PROVE y.entry = x.entry
  <2>1. ASSUME NEW i, InRootAt(x, i), NEW j, InRootAt(y, j) PROVE y.entry = x.entry
    <3>1. /\ x.pos = FatEntries + i - 1 /\ x.entry = Root[i] /\ i \in 1 .. Len(Root)
          /\ y.pos = FatEntries + j - 1 /\ y.entry = Root[j] /\ j \in 1 .. Len(Root)
      BY <1>3, <2>1
    <3>2. i = j
      BY <1>2, <1>5, <3>1
    <3> QED
      BY <3>1, <3>2
  <2>2. ASSUME NEW q, NEW o, InDirAt(x, q, o), NEW r, NEW p, InDirAt(y, r, p)
        PROVE  y.entry = x.entry
    <3>1. /\ x.pos = move_to_data_region(q, o) /\ x.entry = Dirs[q][o + 1]
          /\ y.pos = move_to_data_region(r, p) /\ y.entry = Dirs[r][p + 1]
          /\ q \in Clusters /\ o \in 0 .. ClusterBytes - 1
          /\ r \in Clusters /\ p \in 0 .. ClusterBytes - 1
      BY <1>4, <2>2
    <3>2. q = r /\ o = p
      BY <1>5, <3>1, DataPosition
    <3> QED
      BY <3>1, <3>2
  <2>3. \A i, r, p : ~(InRootAt(x, i) /\ InDirAt(y, r, p)) /\ ~(InRootAt(y, i) /\ InDirAt(x, r, p))
    BY <1>2, <1>3, <1>4, <1>5
  <2> QED
    BY <1>1, <2>1, <2>2, <2>3
<1>6. (CHOOSE y \in Items : y.pos = x.pos).entry = x.entry
  <2> DEFINE z == CHOOSE y \in Items : y.pos = x.pos
  <2>1. z \in Items /\ z.pos = x.pos
    OBVIOUS
  <2> QED
    BY <1>5, <2>1
<1>7. EntryOf[x.pos] = x.entry
  <2>1. x.pos \in {y.pos : y \in Items}
    OBVIOUS
  <2> QED
    BY <1>6, <2>1 DEF EntryOf
<1> QED
  BY <1>1, <1>3, <1>4, <1>7

----------------------------------------------------------------------------
(* Lookups.                                                                *)

LEMMA RootIndex ==
  ASSUME NEW name
  PROVE  find_root_directory_entry(name) \in Int
<1> DEFINE stop == CHOOSE i \in RootStops(name) : \A j \in RootStops(name) : i <= j
<1>1. CASE RootStops(name) # {}
  <2>1. RootStops(name) \in SUBSET Nat
    BY VolumeTypes DEF RootStops
  <2>2. \E i \in RootStops(name) : \A j \in RootStops(name) : i <= j
    BY <1>1, <2>1, LeastOf
  <2>3. stop \in Nat
    BY <2>1, <2>2
  <2> HIDE DEF stop
  <2>4. stop - 1 \in Int
    BY <2>3
  <2> QED
    BY <2>4 DEF find_root_directory_entry, stop
<1>2. CASE RootStops(name) = {}
  BY <1>2 DEF find_root_directory_entry
<1> QED
  BY <1>1, <1>2

\* find_root_directory_entry finds an item of the root directory.
LEMMA RootFound ==
  ASSUME NEW name, find_root_directory_entry(name) >= 0
  PROVE  LET pos == move_to_root_directory_region(find_root_directory_entry(name))
         IN  /\ [pos |-> pos, entry |-> RootEntry(name)] \in TopItems
             /\ pos \in InRoot
<1> DEFINE stop == CHOOSE i \in RootStops(name) : \A j \in RootStops(name) : i <= j
           index == find_root_directory_entry(name)
<1>1. RootStops(name) # {} /\ Root[stop].status = "used" /\ index = stop - 1
  BY DEF find_root_directory_entry
<1>2. RootStops(name) \in SUBSET Nat
  BY VolumeTypes DEF RootStops
<1>3. \E i \in RootStops(name) : \A j \in RootStops(name) : i <= j
  BY <1>1, <1>2, LeastOf
<1>4. stop \in RootStops(name) /\ \A j \in RootStops(name) : stop <= j
  BY <1>3
<1> HIDE DEF stop, index
<1>5. stop \in 1 .. Len(Root) /\ Matches(Root[stop], name)
  BY <1>1, <1>4 DEF RootStops
<1>6. ASSUME NEW i \in 1 .. stop PROVE Root[i].status # "end"
  <2>1. SUFFICES ASSUME Root[i].status = "end" PROVE FALSE
    OBVIOUS
  <2>2. i \in 1 .. Len(Root)
    BY <1>5, VolumeTypes
  <2>3. i \in RootStops(name)
    BY <2>1, <2>2 DEF RootStops
  <2>4. stop = i
    BY <1>4, <1>5, <2>3, VolumeTypes
  <2> QED
    BY <1>1, <2>1, <2>4
<1>7. Len(Live(Root)) \in Nat /\ stop <= Len(Live(Root))
  BY <1>5, <1>6, LiveLength, Fat16Assumption, VolumeTypes
<1>8. stop \in 1 .. Len(Live(Root))
  BY <1>5, <1>7, VolumeTypes
<1> DEFINE x == [pos |-> FatEntries + stop - 1, entry |-> Root[stop]]
<1>9. x \in RootItems
  BY <1>8 DEF RootItems
<1>10. x \in TopItems /\ x.pos \in InRoot
  BY <1>5, <1>9 DEF TopItems, Live1, Matches, InRoot
<1>11. /\ move_to_root_directory_region(index) = x.pos
       /\ RootEntry(name) = x.entry
  <2>1. index + 1 = stop /\ FatEntries + index = FatEntries + stop - 1
    BY <1>1, <1>5, VolumeTypes
  <2> QED
    BY <2>1 DEF move_to_root_directory_region, RootEntry, index
<1> QED
  BY <1>10, <1>11 DEF index

\* What the tests on an entry leave: a file of the volume ...
LEMMA AcceptedFile ==
  ASSUME NEW x \in Items, NEW mode, Accepts(x.entry, mode, TRUE)
  PROVE  x \in RegularItems
BY DEF Accepts, RegularItems

\* ... or a directory, where the path leads through one.
LEMMA DirectoryAt ==
  ASSUME NEW x \in Items, IsDir(x), x.entry.cluster # 0
  PROVE  DirAt(x, x.entry.cluster)
<1> DEFINE c == x.entry.cluster
<1>1. Linked(c)
  BY VolumeAssumption
<1>2. c \in Clusters
  BY <1>1, ChainLinks
<1> QED
  BY <1>2 DEF DirAt

LEMMA AcceptedDirectory ==
  ASSUME NEW x \in Items, Accepts(x.entry, "r", FALSE), Enterable(x)
  PROVE  IsDir(x) /\ DirAt(x, x.entry.cluster)
<1>1. IsDir(x) /\ x.entry.cluster # 0
  BY DEF Accepts, Enterable
<1> QED
  BY <1>1, DirectoryAt

LEMMA RegularFacts ==
  ASSUME NEW x \in RegularItems
  PROVE  LET e == x.entry
         IN  /\ x \in Items /\ x.pos \in Nat /\ e \in DirEntries
             /\ e.cluster \in Nat /\ e.size \in Nat
             /\ (e.cluster = 0) = (e.size = 0)
             /\ e.cluster # 0 =>
                  /\ Linked(e.cluster)
                  /\ Len(Chain[e.cluster]) \in Nat \ {0}
                  /\ e.size <= Len(Chain[e.cluster]) * ClusterBytes
                  /\ (Len(Chain[e.cluster]) - 1) * ClusterBytes < e.size
<1> DEFINE e == x.entry
           n == Len(Chain[e.cluster])
<1>1. x \in Items
  BY DEF RegularItems
<1>2. x.pos \in Nat /\ e \in DirEntries
  BY <1>1, EntryOfItem
<1>3. e.cluster \in Nat /\ e.size \in Nat
  BY <1>2, EntryFields
<1>4. (e.cluster = 0) = (e.size = 0) /\ (e.cluster # 0 => Linked(e.cluster))
  BY <1>1, VolumeAssumption
<1>5. ASSUME e.cluster # 0
      PROVE  n \in Nat \ {0} /\ e.size <= n * ClusterBytes /\ (n - 1) * ClusterBytes < e.size
  <2>1. n \in Nat \ {0} /\ Len(Extent[e.cluster]) = n * ClusterBytes
    BY <1>4, <1>5, ChainLinks, ExtentCells
  <2>2. Len(Extent[e.cluster]) >= e.size /\ Len(Extent[e.cluster]) < e.size + ClusterBytes
    BY VolumeAssumption
  <2> HIDE DEF n, e
  <2>3. (n - 1) * ClusterBytes = n * ClusterBytes - ClusterBytes /\ n * ClusterBytes \in Nat
    BY <2>1, VolumeTypes
  <2> QED
    BY <1>3, <2>1, <2>2, <2>3, VolumeTypes
<1> QED
  BY <1>1, <1>2, <1>3, <1>4, <1>5

\* What is left of a directory is its beginning, up to the end mark.
LEMMA LiveEntries ==
  ASSUME NEW T, NEW s \in Seq(T)
  PROVE  /\ Len(Live(s)) \in 0 .. Len(s)
         /\ \A i \in 1 .. Len(Live(s)) : /\ i \in 1 .. Len(s) /\ Live(s)[i] = s[i]
                                         /\ s[i].status # "end"
         /\ Len(Live(s)) < Len(s) => s[Len(Live(s)) + 1].status = "end"
<1> DEFINE ends == {i \in 1 .. Len(s) : s[i].status = "end"}
           n == Len(Live(s))
<1>1. Len(s) \in Nat /\ s \in [1 .. Len(s) -> T]
  BY LenProperties
<1>2. n \in 0 .. Len(s) /\ \A m \in 1 .. Len(s) : m <= n <=> \A i \in 1 .. m : s[i].status # "end"
  BY LiveLength
<1>3. ASSUME NEW i \in 1 .. n PROVE i \in 1 .. Len(s) /\ Live(s)[i] = s[i]
  <2>1. i \in 1 .. Len(s)
    BY <1>1, <1>2
  <2>2. CASE ends = {}
    BY <2>1, <2>2 DEF Live
  <2>3. CASE ends # {}
    <3> DEFINE f == CHOOSE j \in ends : \A k \in ends : j <= k
    <3>1. Live(s) = SubSeq(s, 1, f - 1)
      BY <2>3 DEF Live
    <3>2. ends \in SUBSET Nat
      BY <1>1
    <3>3. \E j \in ends : \A k \in ends : j <= k
      BY <2>3, <3>2, LeastOf
    <3>4. f \in 1 .. Len(s)
      BY <3>3
    <3> HIDE DEF f
    <3>5. 1 \in Int /\ f - 1 \in Int /\ \A j \in 1 .. f - 1 : s[j] \in T
      BY <1>1, <3>4
    <3>6. Len(SubSeq(s, 1, f - 1)) = IF 1 <= f - 1 THEN f - 1 - 1 + 1 ELSE 0
      BY <3>5, SubSeqProperties
    <3>7. n = f - 1
      BY <1>1, <3>1, <3>4, <3>6
    <3>8. \A j \in 1 .. f - 1 - 1 + 1 : SubSeq(s, 1, f - 1)[j] = s[1 + j - 1]
      BY <3>5, SubSeqProperties
    <3>9. i \in 1 .. f - 1 - 1 + 1 /\ 1 + i - 1 = i
      BY <3>4, <3>7
    <3> QED
      BY <2>1, <3>1, <3>8, <3>9
  <2> QED
    BY <2>2, <2>3
<1> HIDE DEF n
<1>4. \A i \in 1 .. n : s[i].status # "end"
  <2> SUFFICES ASSUME NEW i \in 1 .. n PROVE s[i].status # "end"
    OBVIOUS
  <2>1. n \in 1 .. Len(s) /\ n <= n
    BY <1>1, <1>2
  <2> QED
    BY <1>2, <2>1
<1>5. ASSUME n < Len(s) PROVE s[n + 1].status = "end"
  <2>1. n + 1 \in 1 .. Len(s) /\ ~(n + 1 <= n)
    BY <1>1, <1>2, <1>5
  <2>2. PICK i \in 1 .. n + 1 : s[i].status = "end"
    BY <1>2, <2>1
  <2>3. i \in 1 .. n \/ i = n + 1
    BY <1>1, <1>2, <2>2
  <2> QED
    BY <1>4, <2>2, <2>3
<1> QED
  BY <1>2, <1>3, <1>4, <1>5 DEF n

\* The first entry with a name, if the ones before it are passed ...
LEMMA FirstIs ==
  ASSUME NEW T, NEW s \in Seq(T), NEW name, NEW i \in 1 .. Len(s), Matches(s[i], name),
         \A j \in 1 .. i - 1 : Skips(s[j], name)
  PROVE  First(s, name) = {i}
<1>1. Len(s) \in Nat
  BY LenProperties
<1>2. Len(Live(s)) \in 0 .. Len(s) /\ (i <= Len(Live(s)) <=> \A j \in 1 .. i : s[j].status # "end")
  BY LiveLength
<1>3. s[i].status # "end"
  BY DEF Matches
<1>4. \A j \in 1 .. i : s[j].status # "end"
  BY <1>1, <1>3 DEF Skips
<1>5. i \in 1 .. Len(Live(s))
  BY <1>1, <1>2, <1>4
<1>6. i \in First(s, name)
  BY <1>5 DEF First, Skips
<1>7. ASSUME NEW k \in First(s, name) PROVE k = i
  <2>1. k \in 1 .. Len(Live(s)) /\ Matches(s[k], name) /\ \A j \in 1 .. k - 1 : ~Matches(s[j], name)
    BY DEF First
  <2>2. ~(k < i) /\ ~(i < k)
    BY <1>1, <1>2, <1>5, <2>1 DEF Skips
  <2> QED
    BY <1>1, <1>2, <1>5, <2>1, <2>2
<1> QED
  BY <1>6, <1>7

\* ... and none, if all of them are.
LEMMA FirstNone ==
  ASSUME NEW T, NEW s \in Seq(T), NEW name, NEW n \in 0 .. Len(s),
         \A j \in 1 .. n : Skips(s[j], name),
         n = Len(s) \/ s[n + 1].status = "end"
  PROVE  First(s, name) = {}
<1> SUFFICES ASSUME NEW i \in First(s, name) PROVE FALSE
  OBVIOUS
<1>1. Len(s) \in Nat
  BY LenProperties
<1>2. i \in 1 .. Len(Live(s)) /\ Matches(s[i], name)
  BY DEF First
<1>3. /\ Len(Live(s)) \in 0 .. Len(s)
      /\ \A j \in 1 .. Len(Live(s)) : j \in 1 .. Len(s) /\ s[j].status # "end"
  BY LiveEntries
<1>4. ~(i \in 1 .. n)
  BY <1>2 DEF Skips
<1>5. n + 1 \in 1 .. Len(Live(s)) /\ n # Len(s)
  BY <1>1, <1>2, <1>3, <1>4
<1> QED
  BY <1>3, <1>5

\* find_root_directory_entry finds what the root directory has under this name.
LEMMA RootLookup ==
  ASSUME NEW name
  PROVE  InRootCalled(name) =
           IF find_root_directory_entry(name) >= 0
             THEN {[pos |-> move_to_root_directory_region(find_root_directory_entry(name)),
                    entry |-> RootEntry(name)]}
             ELSE {}
<1> DEFINE stop == CHOOSE i \in RootStops(name) : \A j \in RootStops(name) : i <= j
           index == find_root_directory_entry(name)
           n == Len(Root)
<1>1. n \in Nat /\ Root \in Seq(DirEntries) /\ FatEntries \in Nat
      /\ \A i \in 1 .. n : Root[i].status \in {"used", "free", "end"}
  BY VolumeTypes, Fat16Assumption, EntryFields
<1>2. \A i \in 1 .. n : i \notin RootStops(name) => Skips(Root[i], name)
  BY DEF RootStops, Skips
<1>3. CASE RootStops(name) = {}
  <2>1. index = -1
    BY <1>3 DEF find_root_directory_entry
  <2>2. n \in 0 .. n /\ \A i \in 1 .. n : Skips(Root[i], name)
    BY <1>1, <1>2, <1>3
  <2>3. First(Root, name) = {}
    BY <1>1, <2>2, FirstNone
  <2>4. InRootCalled(name) = {}
    BY <2>3 DEF InRootCalled
  <2> QED
    BY <2>1, <2>4
<1>4. CASE RootStops(name) # {}
  <2>1. RootStops(name) \in SUBSET Nat
    BY <1>1 DEF RootStops
  <2>2. \E i \in RootStops(name) : \A j \in RootStops(name) : i <= j
    BY <1>4, <2>1, LeastOf
  <2>3. stop \in RootStops(name) /\ \A j \in RootStops(name) : stop <= j
    BY <2>2
  <2>4. index = IF Root[stop].status = "used" THEN stop - 1 ELSE -1
    BY <1>4 DEF find_root_directory_entry
  <2> HIDE DEF stop, index
  <2>5. stop \in 1 .. n /\ (Root[stop].status = "end" \/ Matches(Root[stop], name))
    BY <2>3 DEF RootStops
  <2>6. ASSUME NEW j \in 1 .. stop - 1 PROVE Skips(Root[j], name)
    <3>1. j \in 1 .. n /\ ~(stop <= j)
      BY <1>1, <2>5
    <3> QED
      BY <1>2, <2>3, <3>1
  <2>7. CASE Root[stop].status = "used"
    <3>1. Matches(Root[stop], name)
      BY <2>5, <2>7
    <3>2. First(Root, name) = {stop}
      BY <1>1, <2>5, <2>6, <3>1, FirstIs
    <3>3. InRootCalled(name) = {[pos |-> FatEntries + stop - 1, entry |-> Root[stop]]}
      BY <3>2 DEF InRootCalled
    <3>4. index >= 0 /\ index + 1 = stop /\ FatEntries + index = FatEntries + stop - 1
      BY <1>1, <2>4, <2>5, <2>7
    <3>5. /\ move_to_root_directory_region(index) = FatEntries + stop - 1
          /\ RootEntry(name) = Root[stop]
      BY <3>4 DEF move_to_root_directory_region, RootEntry, index
    <3> QED
      BY <3>3, <3>4, <3>5 DEF index
  <2>8. CASE Root[stop].status # "used"
    <3>1. Root[stop].status = "end" /\ index = -1
      BY <2>4, <2>5, <2>8 DEF Matches
    <3>2. stop - 1 \in 0 .. n /\ stop - 1 + 1 = stop
      BY <1>1, <2>5
    <3>3. First(Root, name) = {}
      <4> DEFINE m == stop - 1
      <4>1. m \in 0 .. n /\ Root[m + 1].status = "end" /\ \A j \in 1 .. m : Skips(Root[j], name)
        BY <2>6, <3>1, <3>2
      <4> HIDE DEF m
      <4> QED
        BY <1>1, <4>1, FirstNone
    <3>4. InRootCalled(name) = {}
      BY <3>3 DEF InRootCalled
    <3> QED
      BY <3>1, <3>4 DEF index
  <2> QED
    BY <2>7, <2>8
<1> QED
  BY <1>3, <1>4

\* Which item a path names, by its length.
LEMMA ResolveNothing ==
  ASSUME NEW path, Len(path) \in Nat,
         Len(path) = 0 \/ \E k \in 1 .. Len(path) : path[k] \notin ValidNames
  PROVE  Resolve(path) = {}
BY DEF Resolve

LEMMA ResolveOne ==
  ASSUME NEW path, Len(path) = 1, path[1] \in ValidNames
  PROVE  Resolve(path) = InRootCalled(path[1])
<1>1. ~(\E k \in 1 .. Len(path) : path[k] \notin ValidNames)
  OBVIOUS
<1> QED
  BY <1>1 DEF Resolve

LEMMA ResolveTwo ==
  ASSUME NEW path, Len(path) = 2, path[1] \in ValidNames, path[2] \in ValidNames
  PROVE  LET e == RootEntry(path[1])
         IN  Resolve(path) =
               IF /\ find_root_directory_entry(path[1]) >= 0
                  /\ "SUBDIR" \in e.attribute /\ "VOLUME" \notin e.attribute
                 THEN InDirCalled(e.cluster, path[2]) ELSE {}
<1> DEFINE e == RootEntry(path[1])
           pos == move_to_root_directory_region(find_root_directory_entry(path[1]))
           found == find_root_directory_entry(path[1]) >= 0
           x == [pos |-> pos, entry |-> e]
           in == InRootCalled(path[1])
<1>1. ~(\E k \in 1 .. Len(path) : path[k] \notin ValidNames)
  OBVIOUS
<1>2. Resolve(path) = UNION {InDirCalled(y.entry.cluster, path[2]) : y \in {z \in in : IsDir(z)}}
  BY <1>1 DEF Resolve
<1>3. in = IF found THEN {x} ELSE {}
  BY RootLookup
<1>4. x.entry = e /\ (IsDir(x) <=> "SUBDIR" \in e.attribute /\ "VOLUME" \notin e.attribute)
  BY DEF IsDir
<1> HIDE DEF x, in, found
<1>5. CASE found /\ IsDir(x)
  <2>1. {z \in in : IsDir(z)} = {x}
    BY <1>3, <1>5
  <2>2. Resolve(path) = InDirCalled(x.entry.cluster, path[2])
    BY <1>2, <2>1
  <2> QED
    BY <1>4, <1>5, <2>2 DEF found
<1>6. CASE ~(found /\ IsDir(x))
  <2>1. {z \in in : IsDir(z)} = {}
    BY <1>3, <1>6
  <2>2. Resolve(path) = {}
    BY <1>2, <2>1
  <2> QED
    BY <1>4, <1>6, <2>2 DEF found
<1> QED
  BY <1>5, <1>6

\* What a caller's path is looked up to.
LEMMA LookupOfPath ==
  ASSUME NEW path \in Paths
  PROVE  /\ Resolve(path) = {} => LookupOf[path] = NoEntry
         /\ \A x : Resolve(path) = {x} => LookupOf[path] = x.pos
<1>1. LookupOf[path] = IF Resolve(path) = {} THEN NoEntry ELSE (CHOOSE x \in Resolve(path) : TRUE).pos
  BY DEF LookupOf
<1>2. ASSUME NEW x, Resolve(path) = {x} PROVE (CHOOSE y \in Resolve(path) : TRUE) = x
  BY <1>2
<1> QED
  BY <1>1, <1>2

LEMMA PositionFacts ==
  ASSUME NEW x \in Items
  PROVE  /\ x.pos \in Nat /\ x.pos # NoEntry
         /\ x.pos \in Regular <=> {"SUBDIR", "VOLUME"} \cap x.entry.attribute = {}
         /\ x.pos \in ReadOnlyItems <=> "READ_ONLY" \in x.entry.attribute
         /\ EntryOf[x.pos] = x.entry /\ SizeTable[x.pos] = x.entry.size
<1>1. x.pos \in Nat /\ EntryOf[x.pos] = x.entry
  BY EntryOfItem
<1>2. \A y \in Items : y.pos = x.pos => y.entry = x.entry
  BY <1>1, EntryOfItem
<1>3. x.pos \in Regular <=> {"SUBDIR", "VOLUME"} \cap x.entry.attribute = {}
  BY <1>2 DEF Regular, RegularItems
<1>4. x.pos \in ReadOnlyItems <=> "READ_ONLY" \in x.entry.attribute
  BY <1>2 DEF ReadOnlyItems
<1>5. SizeTable[x.pos] = x.entry.size
  BY <1>1 DEF SizeTable, EntryOf
<1>6. x.pos # NoEntry
  BY <1>1 DEF NoEntry
<1> QED
  BY <1>1, <1>3, <1>4, <1>5, <1>6

LEMMA NoEntryFacts == NoEntry \notin Regular
<1> SUFFICES ASSUME NoEntry \in Regular PROVE FALSE
  OBVIOUS
<1>1. PICK x \in RegularItems : x.pos = NoEntry
  BY DEF Regular
<1> QED
  BY <1>1, PositionFacts DEF RegularItems

\* The positions of the root directory lie before the data region.
LEMMA BehindRoot ==
  ASSUME NEW q \in Clusters, NEW o \in Nat
  PROVE  move_to_data_region(q, o) \notin InRoot
<1>1. move_to_data_region(q, o) \in Nat /\ move_to_data_region(q, o) >= FatEntries + Len(Root)
  BY DataBehindRoot
<1>2. ASSUME NEW p \in InRoot PROVE p < FatEntries + Len(Root)
  <2>1. PICK i \in 1 .. Len(Live(Root)) : p = FatEntries + i - 1
    BY DEF InRoot, RootItems
  <2>2. Len(Live(Root)) \in 0 .. Len(Root)
    BY LiveLength, Fat16Assumption
  <2> QED
    BY <2>1, <2>2, VolumeTypes
<1>3. FatEntries + Len(Root) \in Nat
  BY VolumeTypes
<1> QED
  BY <1>1, <1>2, <1>3

\* What the calls that take a path are given.
LEMMA PathOfCall ==
  ASSUME DriverInv, pc # "idle", call.op \in {"open", "size", "ls"}
  PROVE  /\ call \in Requests /\ call.path \in Seq(STRING) /\ Len(call.path) \in Nat
         /\ call.path \in Paths
         /\ call.op = "ls" => call.index \in Nat
         /\ (call.path = << >>) <=> (Len(call.path) = 0)
<1>1. call \in Requests
  BY DEF DriverInv, CallInv, CallTypes
<1>2. call.path \in Seq(STRING) /\ (call.op = "ls" => call.index \in Nat)
  BY <1>1, Fat16Assumption
<1>3. call.path \in Paths
  BY <1>1 DEF Paths
<1>4. Len(call.path) \in Nat /\ ((call.path = << >>) <=> (Len(call.path) = 0))
  BY <1>2, LenProperties, EmptySeq
<1> QED
  BY <1>1, <1>2, <1>3, <1>4

\* A path of two components the driver does not walk names nothing.
LEMMA NotNavigable ==
  ASSUME NEW path \in Seq(STRING), Len(path) = 2, ~Navigable(path)
  PROVE  Resolve(path) = {}
<1>1. 2 \in Int /\ PathAtIndex(path) = SubSeq(path, 2, 2)
  BY DEF PathAtIndex
<1>2. Len(PathAtIndex(path)) = 1 /\ PathAtIndex(path)[1] = path[2]
  BY <1>1
<1>3. CASE path[1] \notin ValidNames \/ path[2] \notin ValidNames
  <2>1. \E k \in 1 .. Len(path) : path[k] \notin ValidNames
    BY <1>3
  <2> QED
    BY <2>1, ResolveNothing
<1>4. CASE path[1] \in ValidNames /\ path[2] \in ValidNames
  <2>1. ~DirInRoot(path[1])
    BY <1>2, <1>4 DEF Navigable, to_short_filename
  <2>2. ~(find_root_directory_entry(path[1]) >= 0) \/ "VOLUME" \in RootEntry(path[1]).attribute
    BY <2>1 DEF DirInRoot, Accepts
  <2> QED
    BY <1>4, <2>2, ResolveTwo
<1> QED
  BY <1>3, <1>4

LEMMA NavigatedPath ==
  ASSUME NEW path \in Seq(STRING), Len(path) = 2, Navigable(path)
  PROVE  /\ path[1] \in ValidNames /\ path[2] \in ValidNames /\ DirInRoot(path[1])
         /\ PathAtIndex(path)[1] = path[2]
<1>1. PathAtIndex(path) = SubSeq(path, 2, 2)
  BY DEF PathAtIndex
<1>2. Len(PathAtIndex(path)) = 1 /\ PathAtIndex(path)[1] = path[2]
  BY <1>1
<1> QED
  BY <1>2 DEF Navigable, to_short_filename

LEMMA DescentPath ==
  ASSUME NEW path \in Seq(STRING), Len(path) > 2, Navigable(path)
  PROVE  Len(path) = 3 /\ PathAtIndex(path)[1] = path[3]
<1>1. Len(path) \in Nat /\ PathAtIndex(path) = SubSeq(path, 3, Len(path))
  <2> DEFINE n == Len(path)
  <2>1. n \in Nat /\ n > 2
    BY LenProperties
  <2> HIDE DEF n
  <2>2. n # 2
    BY <2>1
  <2> QED
    BY <2>1, <2>2 DEF PathAtIndex, n
<1>2. Len(PathAtIndex(path)) = 1
  BY DEF Navigable, to_short_filename
<1>3. \A i \in 3 .. Len(path) : path[i] \in STRING
  BY <1>1, ElementOfSeq
<1>4. Len(SubSeq(path, 3, Len(path))) = IF 3 <= Len(path) THEN Len(path) - 3 + 1 ELSE 0
  BY <1>1, <1>3, SubSeqProperties
<1>5. Len(path) = 3
  BY <1>1, <1>2, <1>4
<1>6. PathAtIndex(path) = SubSeq(path, 3, 3)
  BY <1>1, <1>5
<1> QED
  BY <1>5, <1>6

\* The callers' paths lead through directories.
LEMMA EnteredInRoot ==
  ASSUME DriverInv, pc # "idle", call.op \in {"open", "size", "ls"}, Len(call.path) > 1,
         NEW x \in InRootCalled(call.path[1])
  PROVE  Enterable(x)
<1>1. ThroughDirectories(call.path)
  BY PathOfCall, RequestsAssumption
<1> QED
  BY <1>1 DEF ThroughDirectories

LEMMA EnteredBelow ==
  ASSUME DriverInv, pc # "idle", call.op \in {"open", "size", "ls"}, Len(call.path) = 3,
         NEW x \in InRootCalled(call.path[1]), IsDir(x),
         NEW y \in InDirCalled(x.entry.cluster, call.path[3])
  PROVE  Enterable(y)
<1>1. ThroughDirectories(call.path)
  BY PathOfCall, RequestsAssumption
<1> QED
  BY <1>1 DEF ThroughDirectories

\* What open_file_in_root looks up is what a path of one component names.
LEMMA RootPath ==
  ASSUME NEW path, Len(path) = 1, path[1] \in ValidNames
  PROVE  /\ find_root_directory_entry(path[1]) >= 0 =>
              LET x == [pos |-> move_to_root_directory_region(find_root_directory_entry(path[1])),
                        entry |-> RootEntry(path[1])]
              IN  Resolve(path) = {x} /\ x \in Items /\ x.pos \in InRoot
         /\ ~(find_root_directory_entry(path[1]) >= 0) => Resolve(path) = {}
<1> DEFINE x == [pos |-> move_to_root_directory_region(find_root_directory_entry(path[1])),
                 entry |-> RootEntry(path[1])]
           found == find_root_directory_entry(path[1]) >= 0
<1>1. Resolve(path) = IF found THEN {x} ELSE {}
  BY ResolveOne, RootLookup
<1>2. found => x \in TopItems /\ x.pos \in InRoot
  BY RootFound
<1>3. found => x \in Items
  BY <1>2 DEF Items
<1> QED
  BY <1>1, <1>2, <1>3

----------------------------------------------------------------------------
(* Handles on files.                                                       *)

\* What the run checks of the handles follows from HandlesOnFiles.
LEMMA OnFilesOnChain ==
  ASSUME handles \in [Slots -> EntryHandles], HandlesOnFiles
  PROVE  HandlesOnChain
<1> SUFFICES ASSUME NEW s \in Slots
             PROVE  LET h == handles[s]
                        e == EntryOf[h.pos_entry]
                        done == e.size - h.remaining_bytes
                    IN  /\ (h.mode = "r" /\ h.remaining_bytes > 0) =>
                             move_to_data_region(h.cluster, h.offset) = Extent[e.cluster][done + 1]
                        /\ (h.mode = "a" /\ e.size > 0) =>
                             /\ h.offset > 0
                             /\ move_to_data_region(h.cluster, h.offset) - 1
                                  = Extent[e.cluster][e.size]
  BY DEF HandlesOnChain
<1> DEFINE h == handles[s]
<1>1. h \in EntryHandles
  OBVIOUS
<1> SUFFICES ASSUME h.mode # "none"
             PROVE  LET e == EntryOf[h.pos_entry]
                        done == e.size - h.remaining_bytes
                    IN  /\ (h.mode = "r" /\ h.remaining_bytes > 0) =>
                             move_to_data_region(h.cluster, h.offset) = Extent[e.cluster][done + 1]
                        /\ (h.mode = "a" /\ e.size > 0) =>
                             /\ h.offset > 0
                             /\ move_to_data_region(h.cluster, h.offset) - 1
                                  = Extent[e.cluster][e.size]
  BY DEF h
<1>2. PICK x \in RegularItems : OnFile(h, x)
  BY DEF HandlesOnFiles
<1> DEFINE e == x.entry
<1>3. EntryOf[h.pos_entry] = e
  BY <1>2, RegularFacts, EntryOfItem DEF OnFile
<1>4. /\ e.cluster \in Nat /\ e.size \in Nat /\ (e.cluster = 0) = (e.size = 0)
      /\ e.cluster # 0 => Linked(e.cluster) /\ Len(Chain[e.cluster]) \in Nat \ {0}
  BY RegularFacts
<1>5. h.remaining_bytes \in Nat /\ h.offset \in Nat
  BY <1>1 DEF EntryHandles
<1> HIDE DEF h, e
<1>6. ASSUME h.mode = "r", h.remaining_bytes > 0
      PROVE  move_to_data_region(h.cluster, h.offset)
               = Extent[e.cluster][e.size - h.remaining_bytes + 1]
  <2>1. ReaderAt(h, e)
    BY <1>2, <1>6 DEF OnFile, e
  <2>2. PICK k \in 1 .. Len(Chain[e.cluster]) :
          /\ h.cluster = Chain[e.cluster][k]
          /\ h.offset \in 0 .. ClusterBytes - 1
          /\ e.size - h.remaining_bytes = (k - 1) * ClusterBytes + h.offset
    BY <2>1 DEF ReaderAt
  <2>3. Linked(e.cluster)
    BY <1>4, <1>5, <1>6, <2>1 DEF ReaderAt
  <2> QED
    BY <2>2, <2>3, ExtentCells
<1>7. ASSUME h.mode = "a", e.size > 0
      PROVE  /\ h.offset > 0
             /\ move_to_data_region(h.cluster, h.offset) - 1 = Extent[e.cluster][e.size]
  <2> DEFINE n == Len(Chain[e.cluster])
             o == h.offset - 1
  <2>1. AppenderAt(h, e)
    BY <1>2, <1>7 DEF OnFile, e
  <2>2. h.cluster = Chain[e.cluster][n] /\ h.offset \in 1 .. ClusterBytes
        /\ e.size = (n - 1) * ClusterBytes + h.offset
    BY <2>1 DEF AppenderAt
  <2>3. Linked(e.cluster) /\ n \in Nat \ {0}
    BY <1>4, <1>7
  <2>4. ClusterBytes \in Nat \ {0}
    BY VolumeTypes
  <2>5. o \in 0 .. ClusterBytes - 1 /\ h.offset > 0 /\ h.offset = o + 1 /\ n \in 1 .. n
    BY <2>2, <2>3, <2>4
  <2>6. Extent[e.cluster][(n - 1) * ClusterBytes + o + 1] = move_to_data_region(h.cluster, o)
    <3>1. \A k \in 1 .. n, p \in 0 .. ClusterBytes - 1 :
            Extent[e.cluster][(k - 1) * ClusterBytes + p + 1]
              = move_to_data_region(Chain[e.cluster][k], p)
      BY <2>3, ExtentCells
    <3> HIDE DEF o, n
    <3> QED
      BY <2>2, <2>5, <3>1
  <2> HIDE DEF n
  <2>7. (n - 1) * ClusterBytes + o + 1 = e.size
    BY <1>5, <2>2, <2>3, <2>4
  <2>8. move_to_data_region(h.cluster, h.offset) - 1 = move_to_data_region(h.cluster, o)
    <3>1. h.cluster \in Clusters
      BY <2>2, <2>3, <2>5, ChainLinks DEF n
    <3>2. o \in Nat
      BY <2>5, VolumeTypes
    <3> HIDE DEF o
    <3> QED
      BY <2>5, <3>1, <3>2, DataStep
  <2> QED
    BY <2>5, <2>6, <2>7, <2>8
<1> QED
  BY <1>3, <1>6, <1>7 DEF h

----------------------------------------------------------------------------
(* The handle table.                                                       *)

LEMMA NoHandleTypes ==
  NoHandle \in EntryHandles /\ NoHandle.mode = "none" /\ EndEntry.status = "end" /\ NoLocals \in Locals
<1>1. EndEntry.status = "end"
  BY DEF EndEntry
<1>2. NoHandle \in EntryHandles /\ NoHandle.mode = "none"
  BY DEF NoHandle, EntryHandles
<1> HIDE DEF EndEntry
<1>3. NoLocals \in Locals
  BY DEF NoLocals, Locals, Goals, Names, Entries
<1> QED
  BY <1>1, <1>2, <1>3

\* How a step changes the locals.
LEMMA LocalsLeft ==
  ASSUME NEW l \in Locals, NEW left \in Int, NEW m, m = [l EXCEPT !.left = left]
  PROVE  m \in Locals /\ m.left = left /\ m.slot = l.slot /\ m.goal = l.goal
BY DEF Locals

LEMMA LocalsMissed ==
  ASSUME NEW l \in Locals, NEW entry \in Entries, NEW m, m = [l EXCEPT !.entry = entry]
  PROVE  /\ m \in Locals /\ m.entry = entry
         /\ m.slot = l.slot /\ m.goal = l.goal /\ m.start = l.start /\ m.name = l.name
BY DEF Locals

\* find_available_handle returns a free handle, or INVALID_HANDLE when there is none.
LEMMA AvailableHandle ==
  LET slot == find_available_handle
  IN  /\ slot \in Nat
      /\ \/ slot \in Slots /\ handles[slot].mode = "none"
         \/ slot = INVALID_HANDLE /\ \A s \in Slots : handles[s].mode # "none"
<1>1. INVALID_HANDLE \in Nat /\ HANDLE_COUNT \in Nat
  BY Fat16Assumption
<1>2. CASE \A h \in Slots : handles[h].mode # "none"
  BY <1>1, <1>2 DEF find_available_handle
<1>3. CASE ~(\A h \in Slots : handles[h].mode # "none")
  <2> DEFINE free == {h \in Slots : handles[h].mode = "none"}
             P(h) == handles[h].mode = "none" /\ \A g \in 0 .. h - 1 : handles[g].mode # "none"
  <2>1. free \in SUBSET Nat /\ free # {}
    BY <1>1, <1>3 DEF Slots
  <2>2. PICK f \in free : \A g \in free : f <= g
    BY <2>1, LeastOf
  <2>3. \A g \in 0 .. f - 1 : handles[g].mode # "none"
    BY <1>1, <2>2 DEF Slots
  <2>4. \E h \in Slots : P(h)
    BY <2>2, <2>3
  <2>5. find_available_handle = CHOOSE h \in Slots : P(h)
    BY <1>3 DEF find_available_handle
  <2>6. find_available_handle \in Slots /\ P(find_available_handle)
    <3> HIDE DEF P
    <3> QED
      BY <2>4, <2>5
  <2> QED
    BY <1>1, <2>6 DEF Slots
<1> QED
  BY <1>2, <1>3

LEMMA TableUnchanged ==
  ASSUME TableInv, handles' = handles
  PROVE  TableInv'
BY DEF TableInv, HandlesOnFiles, ExclusiveUse, OnFile, ReaderAt, AppenderAt

\* Storing a handle keeps the table in order if the handle is on its file and shares it
\* with no other handle unless both read, or the file is in the root directory.
LEMMA StoreInv ==
  ASSUME TableInv, NEW slot, NEW h \in EntryHandles, Store(slot, h),
         h.mode # "none" => \E x \in RegularItems : OnFile(h, x),
         \/ h.mode = "none"
         \/ h.pos_entry \in InRoot
         \/ \A s \in Slots \ {slot} :
              (handles[s].mode # "none" /\ handles[s].pos_entry = h.pos_entry) =>
                h.mode = "r" /\ handles[s].mode = "r"
  PROVE  TableInv'
<1>1. handles' = [s \in Slots |-> IF s = slot THEN h ELSE handles[s]]
  BY DEF Store
<1>2. \A s \in Slots : handles'[s] = IF s = slot THEN h ELSE handles[s]
  BY <1>1
<1>3. handles' \in [Slots -> EntryHandles]
  BY <1>1 DEF TableInv
<1>4. HandlesOnFiles'
  <2> SUFFICES ASSUME NEW s \in Slots, handles'[s].mode # "none"
               PROVE  \E x \in RegularItems : OnFile(handles'[s], x)
    BY DEF HandlesOnFiles, OnFile, ReaderAt, AppenderAt
  <2> QED
    BY <1>2 DEF TableInv, HandlesOnFiles
<1>5. ExclusiveUse'
  BY <1>2 DEF TableInv, ExclusiveUse
<1> QED
  BY <1>3, <1>4, <1>5 DEF TableInv

LEMMA ClearInv ==
  ASSUME TableInv, NEW slot, Store(slot, NoHandle)
  PROVE  TableInv'
BY NoHandleTypes, StoreInv

\* After a call has returned nothing is promised but the table.
LEMMA ReturnInv ==
  ASSUME NEW v, Return(v)
  PROVE  CallInv'
<1>1. pc' = "idle" /\ dh' = NoHandle /\ loc' = NoLocals
  BY DEF Return
<1> QED
  BY <1>1, NoHandleTypes
     DEF CallInv, CallTypes, SlotStillFree, ModeOfCall, RootOpensInRoot, ShareOnFile, WalkOnFile,
         ReadOpen, ScanOrigin, DescendsFrom, Scanning, FoundItem, GoalOfScan, CallOfScan

----------------------------------------------------------------------------
(* Opening a file.                                                         *)

LEMMA OpenedFields ==
  ASSUME NEW e \in DirEntries, NEW pos \in Int, NEW mode \in Modes
  PROVE  LET h == Opened(e, pos, mode)
         IN  /\ h \in EntryHandles
             /\ h.mode = mode /\ h.pos_entry = pos /\ h.cluster = e.cluster /\ h.offset = 0
             /\ h.remaining_bytes = IF mode = "r" THEN e.size ELSE 0
<1>1. e.cluster \in Nat /\ e.size \in Nat
  BY EntryFields
<1> QED
  BY <1>1 DEF Opened, EntryHandles

\* A handle for reading or writing is on its file at once.
LEMMA OpenedOnFile ==
  ASSUME NEW x \in RegularItems, NEW mode \in {"r", "w"}
  PROVE  OnFile(Opened(x.entry, x.pos, mode), x)
<1> DEFINE h == Opened(x.entry, x.pos, mode)
           e == x.entry
<1>1. /\ x.pos \in Int /\ e \in DirEntries /\ e.size \in Nat
      /\ (e.cluster = 0) = (e.size = 0)
      /\ e.cluster # 0 => Linked(e.cluster)
  BY RegularFacts
<1>2. /\ h.mode = mode /\ h.pos_entry = x.pos /\ h.cluster = e.cluster /\ h.offset = 0
      /\ h.remaining_bytes = IF mode = "r" THEN e.size ELSE 0
  BY <1>1, OpenedFields DEF Modes
<1> HIDE DEF h
<1>3. ASSUME h.mode = "r", h.remaining_bytes > 0 PROVE ReaderAt(h, e)
  <2>1. e.size > 0 /\ h.remaining_bytes = e.size /\ Linked(e.cluster)
    BY <1>1, <1>2, <1>3
  <2>2. Len(Chain[e.cluster]) \in Nat \ {0} /\ Chain[e.cluster][1] = e.cluster
    BY <2>1, ChainLinks
  <2>3. 1 \in 1 .. Len(Chain[e.cluster])
    BY <2>2
  <2>4. e.size - h.remaining_bytes = (1 - 1) * ClusterBytes + h.offset
    BY <1>1, <1>2, <2>1, VolumeTypes
  <2>5. h.offset \in 0 .. ClusterBytes - 1
    BY <1>2, VolumeTypes
  <2> QED
    BY <1>1, <1>2, <2>1, <2>2, <2>3, <2>4, <2>5 DEF ReaderAt
<1> QED
  BY <1>2, <1>3 DEF OnFile, h

\* A handle in mode "a" begins its walk in the first cluster.
LEMMA WalkBegins ==
  ASSUME NEW x \in RegularItems, pc' = "append", dh' = Opened(x.entry, x.pos, "a"),
         loc'.left = x.entry.size
  PROVE  WalkOnFile' /\ dh' \in EntryHandles /\ dh'.mode = "a" /\ dh'.pos_entry = x.pos
<1> DEFINE e == x.entry
<1>1. /\ x.pos \in Int /\ e \in DirEntries /\ e.size \in Nat
      /\ e.cluster # 0 => Linked(e.cluster)
  BY RegularFacts
<1>2. /\ dh' \in EntryHandles /\ dh'.mode = "a" /\ dh'.pos_entry = x.pos
      /\ dh'.cluster = e.cluster /\ dh'.remaining_bytes = 0
  BY <1>1, OpenedFields DEF Modes
<1>3. ASSUME e.cluster # 0
      PROVE  1 \in 1 .. Len(Chain[e.cluster]) /\ Chain[e.cluster][1] = e.cluster
  BY <1>1, <1>3, ChainLinks
<1>4. loc'.left = e.size - (1 - 1) * ClusterBytes
  BY <1>1, VolumeTypes
<1>5. WalkOnFile'
  BY <1>2, <1>3, <1>4 DEF WalkOnFile
<1> QED
  BY <1>2, <1>5

\* The tests open_file_in_root makes leave a file of the root directory.
LEMMA RootFileOpened ==
  ASSUME NEW name, NEW mode, find_root_directory_entry(name) >= 0,
         Accepts(RootEntry(name), mode, TRUE)
  PROVE  \E x \in RegularItems :
           /\ x.entry = RootEntry(name)
           /\ x.pos = move_to_root_directory_region(find_root_directory_entry(name))
           /\ x.pos \in InRoot
<1> DEFINE pos == move_to_root_directory_region(find_root_directory_entry(name))
           x == [pos |-> pos, entry |-> RootEntry(name)]
<1>1. x \in TopItems /\ pos \in InRoot
  BY RootFound
<1>2. x \in Items
  BY <1>1 DEF Items
<1>3. x.entry = RootEntry(name) /\ x.pos = pos
  OBVIOUS
<1>4. x \in RegularItems
  <2> HIDE DEF x
  <2> QED
    BY <1>2, <1>3, AcceptedFile
<1> QED
  BY <1>1, <1>3, <1>4

LEMMA OpenFileInRootInv ==
  ASSUME DriverInv, open_file_in_root
  PROVE  DriverInv'
<1> DEFINE name == call.path[1]
           slot == find_available_handle
           index == find_root_directory_entry(name)
           opened == Opened(RootEntry(name), move_to_root_directory_region(index), call.mode)
<1>1. call.mode \in Modes /\ pc = "start"
  BY DEF open_file_in_root, Start
<1>2. CASE Store(slot, NoHandle) /\ Return(-1)
  BY <1>2, ClearInv, ReturnInv DEF DriverInv
<1>3. ASSUME index >= 0, Accepts(RootEntry(name), call.mode, TRUE), call.mode # "a",
             Store(slot, opened), Return(0)
      PROVE  DriverInv'
  <2>1. PICK x \in RegularItems :
          /\ x.entry = RootEntry(name) /\ x.pos = move_to_root_directory_region(index)
          /\ x.pos \in InRoot
    BY <1>3, RootFileOpened
  <2>2. call.mode \in {"r", "w"}
    BY <1>1, <1>3 DEF Modes
  <2>3. opened = Opened(x.entry, x.pos, call.mode)
    BY <2>1
  <2> HIDE DEF opened
  <2>4. OnFile(opened, x)
    BY <2>2, <2>3, OpenedOnFile
  <2>5. opened \in EntryHandles /\ opened.pos_entry = x.pos
    BY <1>1, <2>3, OpenedFields, RegularFacts
  <2> HIDE DEF slot
  <2>6. TableInv'
    BY <1>3, <2>1, <2>4, <2>5, StoreInv DEF DriverInv
  <2> QED
    BY <1>3, <2>6, ReturnInv DEF DriverInv
<1>4. ASSUME index >= 0, Accepts(RootEntry(name), call.mode, TRUE), call.mode = "a", NoStore,
             Continue("append", opened,
                      [NoLocals EXCEPT !.slot = slot, !.goal = "root",
                                       !.left = RootEntry(name).size])
      PROVE  DriverInv'
  <2>1. PICK x \in RegularItems :
          /\ x.entry = RootEntry(name) /\ x.pos = move_to_root_directory_region(index)
          /\ x.pos \in InRoot
    BY <1>4, RootFileOpened
  <2>2. /\ pc' = "append" /\ dh' = Opened(x.entry, x.pos, "a") /\ call' = call
        /\ loc' = [NoLocals EXCEPT !.slot = slot, !.goal = "root", !.left = x.entry.size]
        /\ handles' = handles
    BY <1>4, <2>1 DEF Continue, NoStore
  <2>3. x.entry.size \in Nat
    BY RegularFacts
  <2>4. /\ slot \in Nat
        /\ \/ slot \in Slots /\ handles[slot].mode = "none"
           \/ slot = INVALID_HANDLE /\ \A s \in Slots : handles[s].mode # "none"
    BY AvailableHandle
  <2> HIDE DEF slot
  <2>5. loc' \in Locals /\ loc'.slot = slot /\ loc'.goal = "root" /\ loc'.left = x.entry.size
    <3> DEFINE g == "root"
               v == x.entry.size
               l == loc'
    <3>1. v \in Int /\ g \in Goals
      BY <2>3 DEF Goals
    <3>2. l = [NoLocals EXCEPT !.slot = slot, !.goal = g, !.left = v]
      BY <2>2
    <3> HIDE DEF g, v, l
    <3>3. l \in Locals /\ l.slot = slot /\ l.goal = g /\ l.left = v
      BY <2>4, <3>1, <3>2, NoHandleTypes DEF Locals
    <3> QED
      BY <3>3 DEF g, v, l
  <2>6. WalkOnFile' /\ dh' \in EntryHandles /\ dh'.pos_entry = x.pos
    BY <2>2, <2>5, WalkBegins
  <2>7. call \in Requests
    BY <1>1 DEF DriverInv, CallInv, CallTypes
  <2>8. CallTypes' /\ SlotStillFree' /\ ModeOfCall' /\ RootOpensInRoot'
    BY <2>1, <2>2, <2>4, <2>5, <2>6, <2>7
       DEF CallTypes, SlotStillFree, ModeOfCall, RootOpensInRoot
  <2>9. ShareOnFile' /\ ReadOpen' /\ ScanOrigin' /\ DescendsFrom' /\ Scanning' /\ FoundItem' /\ GoalOfScan'
         /\ CallOfScan'
    BY <2>2 DEF ShareOnFile, ReadOpen, ScanOrigin, DescendsFrom, Scanning, FoundItem, GoalOfScan, CallOfScan
  <2> QED
    BY <2>2, <2>6, <2>8, <2>9, TableUnchanged DEF DriverInv, CallInv
<1> QED
  BY <1>2, <1>3, <1>4 DEF open_file_in_root

LEMMA OpenFileInSubdirInv ==
  ASSUME DriverInv, open_file_in_subdir
  PROVE  DriverInv'
<1>1. pc = "found" /\ loc.goal = "file" /\ NoStore
  BY DEF open_file_in_subdir
<1>2. handles' = handles
  BY <1>1 DEF NoStore
<1>3. CASE Return(-1)
  BY <1>2, <1>3, ReturnInv, TableUnchanged DEF DriverInv
<1>4. ASSUME loc.entry.status = "used", Accepts(loc.entry, call.mode, TRUE),
             Continue(IF call.mode = "a" THEN "append" ELSE "share",
                      Opened(loc.entry, loc.pos, call.mode), [loc EXCEPT !.left = loc.entry.size])
      PROVE  DriverInv'
  <2> DEFINE x == [pos |-> loc.pos, entry |-> loc.entry]
  <2>1. x \in Items
    BY <1>1, <1>4 DEF DriverInv, CallInv, FoundItem, FoundIn
  <2>2. x.entry = loc.entry /\ x.pos = loc.pos
    OBVIOUS
  <2> HIDE DEF x
  <2>3. x \in RegularItems
    BY <1>4, <2>1, <2>2, AcceptedFile
  <2>4. call \in Requests /\ call.mode \in Modes /\ loc \in Locals
    BY <1>1 DEF DriverInv, CallInv, CallTypes, ModeOfCall
  <2>5. x.entry.size \in Nat /\ x.pos \in Int /\ x.entry \in DirEntries
    BY <2>3, RegularFacts
  <2>6. /\ pc' = IF call.mode = "a" THEN "append" ELSE "share"
        /\ dh' = Opened(x.entry, x.pos, call.mode) /\ call' = call
        /\ loc' = [loc EXCEPT !.left = x.entry.size]
    BY <1>4, <2>2 DEF Continue
  <2>7. /\ loc' \in Locals /\ loc'.slot = loc.slot /\ loc'.goal = "file"
        /\ loc'.left = x.entry.size
    BY <1>1, <2>4, <2>5, <2>6, LocalsLeft
  <2>8. dh' \in EntryHandles /\ dh'.mode = call.mode /\ dh'.pos_entry = x.pos
    BY <2>4, <2>5, <2>6, OpenedFields
  <2>9. CallTypes' /\ ModeOfCall' /\ RootOpensInRoot'
    BY <2>4, <2>6, <2>7, <2>8 DEF CallTypes, ModeOfCall, RootOpensInRoot
  <2>10. SlotStillFree'
    BY <1>1, <1>2, <2>7 DEF DriverInv, CallInv, SlotStillFree
  <2>11. WalkOnFile'
    <3>1. CASE call.mode = "a"
      BY <2>3, <2>6, <2>7, <3>1, WalkBegins
    <3>2. CASE call.mode # "a"
      BY <2>6, <3>2 DEF WalkOnFile
    <3> QED
      BY <3>1, <3>2
  <2>12. ShareOnFile'
    <3>1. CASE call.mode = "a"
      BY <2>6, <3>1 DEF ShareOnFile
    <3>2. CASE call.mode # "a"
      <4>1. OnFile(dh', x)
        BY <2>3, <2>4, <2>6, <3>2, OpenedOnFile DEF Modes
      <4> QED
        BY <2>3, <4>1 DEF ShareOnFile, OnFile, ReaderAt, AppenderAt
    <3> QED
      BY <3>1, <3>2
  <2>13. ReadOpen' /\ ScanOrigin' /\ DescendsFrom' /\ Scanning' /\ FoundItem' /\ GoalOfScan'
         /\ CallOfScan'
    BY <2>6 DEF ReadOpen, ScanOrigin, DescendsFrom, Scanning, FoundItem, GoalOfScan, CallOfScan
  <2> QED
    BY <1>2, <2>9, <2>10, <2>11, <2>12, <2>13, TableUnchanged DEF DriverInv, CallInv
<1> QED
  BY <1>3, <1>4 DEF open_file_in_subdir

LEMMA AppendWalkInv ==
  ASSUME DriverInv, append_walk
  PROVE  DriverInv'
<1> DEFINE next == get_next_cluster(dh.cluster)
<1>1. /\ pc = "append" /\ next < EOC /\ NoStore
      /\ pc' = "append" /\ dh' = [dh EXCEPT !.cluster = next] /\ call' = call
      /\ loc' = [loc EXCEPT !.left = @ - ClusterBytes]
  BY DEF append_walk, Continue
<1>2. handles' = handles
  BY <1>1 DEF NoStore
<1>3. dh \in EntryHandles /\ loc \in Locals /\ call \in Requests
  BY <1>1 DEF DriverInv, CallInv, CallTypes
<1>4. dh.mode = "a" /\ dh.remaining_bytes = 0
  BY <1>1 DEF DriverInv, CallInv, WalkOnFile
<1>5. PICK x \in RegularItems :
        /\ dh.pos_entry = x.pos
        /\ \/ x.entry.cluster = 0 /\ dh.cluster = 0
           \/ /\ x.entry.cluster # 0
              /\ \E k \in 1 .. Len(Chain[x.entry.cluster]) :
                   /\ dh.cluster = Chain[x.entry.cluster][k]
                   /\ loc.left = x.entry.size - (k - 1) * ClusterBytes
  BY <1>1 DEF DriverInv, CallInv, WalkOnFile
<1> DEFINE c == x.entry.cluster
<1>6. c \in Nat /\ x.entry.size \in Nat /\ (c # 0 => Linked(c))
  BY RegularFacts
<1>7. dh.cluster # 0
  <2>1. Fat[0] \in Nat /\ EOC \in Nat /\ Fat[0] >= EOC
    BY VolumeAssumption, VolumeTypes
  <2> QED
    BY <1>1, <2>1 DEF get_next_cluster
<1>8. c # 0
  BY <1>5, <1>7
<1>9. PICK k \in 1 .. Len(Chain[c]) :
        dh.cluster = Chain[c][k] /\ loc.left = x.entry.size - (k - 1) * ClusterBytes
  BY <1>5, <1>8
<1>10. /\ Len(Chain[c]) \in Nat /\ next \in Nat
       /\ (next >= EOC) = (k = Len(Chain[c]))
       /\ k # Len(Chain[c]) => next = Chain[c][k + 1]
  BY <1>6, <1>8, <1>9, ChainLinks DEF get_next_cluster
<1> HIDE DEF c, next
<1>11. k + 1 \in 1 .. Len(Chain[c]) /\ next = Chain[c][k + 1]
  BY <1>1, <1>10, VolumeTypes
<1>12. loc.left \in Int /\ loc.left - ClusterBytes \in Int
  BY <1>3, VolumeTypes DEF Locals
<1>13. loc' \in Locals /\ loc'.left = loc.left - ClusterBytes /\ loc'.slot = loc.slot
       /\ loc'.goal = loc.goal
  BY <1>1, <1>3, <1>12, LocalsLeft
<1>14. /\ dh' \in EntryHandles /\ dh'.mode = dh.mode /\ dh'.pos_entry = dh.pos_entry
       /\ dh'.remaining_bytes = dh.remaining_bytes /\ dh'.cluster = next
  BY <1>1, <1>3, <1>10 DEF EntryHandles
<1>15. loc'.left = x.entry.size - (k + 1 - 1) * ClusterBytes
  <2> DEFINE u == (k - 1) * ClusterBytes
             v == (k + 1 - 1) * ClusterBytes
  <2>1. ClusterBytes \in Nat /\ k \in Nat
    BY <1>10, VolumeTypes
  <2>2. v = u + ClusterBytes /\ u \in Int
    BY <2>1
  <2>3. loc.left = x.entry.size - u
    BY <1>9
  <2> HIDE DEF u, v
  <2>4. loc'.left = x.entry.size - v
    BY <1>6, <1>13, <2>1, <2>2, <2>3
  <2> QED
    BY <2>4 DEF v
<1>16. WalkOnFile'
  <2>1. /\ dh'.mode = "a" /\ dh'.remaining_bytes = 0 /\ dh'.pos_entry = x.pos
        /\ dh'.cluster = Chain[c][k + 1]
    BY <1>4, <1>5, <1>11, <1>14
  <2> DEFINE j == k + 1
  <2>2. j \in 1 .. Len(Chain[c]) /\ dh'.cluster = Chain[c][j]
        /\ loc'.left = x.entry.size - (j - 1) * ClusterBytes
    BY <1>11, <1>15, <2>1
  <2> HIDE DEF j
  <2> QED
    BY <1>8, <2>1, <2>2 DEF WalkOnFile, c
<1>17. CallTypes' /\ SlotStillFree' /\ ModeOfCall' /\ RootOpensInRoot'
  BY <1>1, <1>2, <1>3, <1>13, <1>14
     DEF DriverInv, CallInv, CallTypes, SlotStillFree, ModeOfCall, RootOpensInRoot
<1>18. ShareOnFile' /\ ReadOpen' /\ ScanOrigin' /\ DescendsFrom' /\ Scanning' /\ FoundItem' /\ GoalOfScan'
         /\ CallOfScan'
  BY <1>1 DEF ShareOnFile, ReadOpen, ScanOrigin, DescendsFrom, Scanning, FoundItem, GoalOfScan, CallOfScan
<1> QED
  BY <1>2, <1>16, <1>17, <1>18, TableUnchanged DEF DriverInv, CallInv

\* At the end of the walk the handle is behind the last byte of its file.
LEMMA WalkEnds ==
  ASSUME DriverInv, pc = "append", get_next_cluster(dh.cluster) >= EOC,
         NEW h, h = [dh EXCEPT !.offset = loc.left % OffsetMod]
  PROVE  /\ h \in EntryHandles /\ h.mode = dh.mode /\ h.pos_entry = dh.pos_entry
         /\ \E x \in RegularItems : OnFile(h, x)
<1>1. dh \in EntryHandles /\ loc \in Locals
  BY DEF DriverInv, CallInv, CallTypes
<1>2. loc.left \in Int /\ loc.left % OffsetMod \in Nat
  BY <1>1, VolumeTypes DEF Locals
<1>3. /\ h \in EntryHandles /\ h.mode = dh.mode /\ h.pos_entry = dh.pos_entry
      /\ h.cluster = dh.cluster /\ h.remaining_bytes = dh.remaining_bytes
      /\ h.offset = loc.left % OffsetMod
  BY <1>1, <1>2 DEF EntryHandles
<1>4. dh.mode = "a" /\ dh.remaining_bytes = 0
  BY DEF DriverInv, CallInv, WalkOnFile
<1>5. PICK x \in RegularItems :
        /\ dh.pos_entry = x.pos
        /\ \/ x.entry.cluster = 0 /\ dh.cluster = 0
           \/ /\ x.entry.cluster # 0
              /\ \E k \in 1 .. Len(Chain[x.entry.cluster]) :
                   /\ dh.cluster = Chain[x.entry.cluster][k]
                   /\ loc.left = x.entry.size - (k - 1) * ClusterBytes
  BY DEF DriverInv, CallInv, WalkOnFile
<1> DEFINE c == x.entry.cluster
           n == Len(Chain[c])
           size == x.entry.size
<1>6. /\ c \in Nat /\ size \in Nat /\ (c = 0) = (size = 0)
      /\ c # 0 => /\ Linked(c) /\ n \in Nat \ {0}
                  /\ size <= n * ClusterBytes /\ (n - 1) * ClusterBytes < size
  BY RegularFacts
<1>7. ASSUME size > 0 PROVE AppenderAt(h, x.entry)
  <2>1. c # 0 /\ Linked(c) /\ n \in Nat \ {0}
        /\ size <= n * ClusterBytes /\ (n - 1) * ClusterBytes < size
    BY <1>6, <1>7
  <2>2. PICK k \in 1 .. n :
          dh.cluster = Chain[c][k] /\ loc.left = size - (k - 1) * ClusterBytes
    BY <1>5, <2>1
  <2>3. k = n
    BY <2>1, <2>2, ChainLinks DEF get_next_cluster
  <2> HIDE DEF c, n, size
  <2>4. /\ ClusterBytes \in Nat \ {0} /\ OffsetMod \in Nat /\ ClusterBytes < OffsetMod
        /\ (n - 1) * ClusterBytes \in Int
        /\ n * ClusterBytes = (n - 1) * ClusterBytes + ClusterBytes
    BY <2>1, VolumeTypes
  <2>5. loc.left \in 1 .. ClusterBytes /\ size = (n - 1) * ClusterBytes + loc.left
    BY <1>2, <1>6, <2>1, <2>2, <2>3, <2>4
  <2>6. loc.left % OffsetMod = loc.left
    BY <2>4, <2>5
  <2> QED
    BY <1>3, <2>2, <2>3, <2>5, <2>6 DEF AppenderAt, c, n, size
<1>8. OnFile(h, x)
  BY <1>3, <1>4, <1>5, <1>7 DEF OnFile
<1> QED
  BY <1>3, <1>8

LEMMA AppendEndInv ==
  ASSUME DriverInv, append_end
  PROVE  DriverInv'
<1> DEFINE h == [dh EXCEPT !.offset = loc.left % OffsetMod]
<1>1. pc = "append" /\ get_next_cluster(dh.cluster) >= EOC
  BY DEF append_end
<1>2. /\ h \in EntryHandles /\ h.mode = dh.mode /\ h.pos_entry = dh.pos_entry
      /\ \E x \in RegularItems : OnFile(h, x)
  BY <1>1, WalkEnds
<1>3. \/ loc.goal = "root" /\ Store(loc.slot, h) /\ Return(0)
      \/ loc.goal # "root" /\ Continue("share", h, loc) /\ NoStore
  BY DEF append_end
<1> HIDE DEF h
<1>4. CASE loc.goal = "root" /\ Store(loc.slot, h) /\ Return(0)
  <2>1. h.pos_entry \in InRoot
    BY <1>1, <1>2, <1>4 DEF DriverInv, CallInv, RootOpensInRoot
  <2>2. TableInv'
    BY <1>2, <1>4, <2>1, StoreInv DEF DriverInv
  <2> QED
    BY <1>4, <2>2, ReturnInv DEF DriverInv
<1>5. CASE loc.goal # "root" /\ Continue("share", h, loc) /\ NoStore
  <2>1. pc' = "share" /\ dh' = h /\ loc' = loc /\ call' = call /\ handles' = handles
    BY <1>5 DEF Continue, NoStore
  <2>2. CallTypes' /\ SlotStillFree' /\ ModeOfCall' /\ RootOpensInRoot'
    BY <1>1, <1>2, <1>5, <2>1
       DEF DriverInv, CallInv, CallTypes, SlotStillFree, ModeOfCall, RootOpensInRoot
  <2>3. ShareOnFile'
    BY <1>2, <2>1 DEF ShareOnFile, OnFile, ReaderAt, AppenderAt
  <2>4. WalkOnFile' /\ ReadOpen' /\ ScanOrigin' /\ DescendsFrom' /\ Scanning' /\ FoundItem' /\ GoalOfScan'
         /\ CallOfScan'
    BY <2>1 DEF WalkOnFile, ReadOpen, ScanOrigin, DescendsFrom, Scanning, FoundItem, GoalOfScan, CallOfScan
  <2> QED
    BY <2>1, <2>2, <2>3, <2>4, TableUnchanged DEF DriverInv, CallInv
<1> QED
  BY <1>3, <1>4, <1>5

\* The check over the other handles is what keeps a file to one writer.
LEMMA OpenShareInv ==
  ASSUME DriverInv, open_share
  PROVE  DriverInv'
<1>1. pc = "share"
  BY DEF open_share
<1>2. CASE Store(loc.slot, NoHandle) /\ Return(-1)
  BY <1>2, ClearInv, ReturnInv DEF DriverInv
<1>3. ASSUME ~SharingConflict, Store(loc.slot, dh), Return(loc.slot)
      PROVE  DriverInv'
  <2>1. dh \in EntryHandles /\ dh.mode = call.mode /\ \E x \in RegularItems : OnFile(dh, x)
    BY <1>1 DEF DriverInv, CallInv, CallTypes, ModeOfCall, ShareOnFile
  <2>2. \A s \in Slots \ {loc.slot} :
          (handles[s].mode # "none" /\ handles[s].pos_entry = dh.pos_entry) =>
            dh.mode = "r" /\ handles[s].mode = "r"
    BY <1>3, <2>1 DEF SharingConflict
  <2>3. TableInv'
    BY <1>3, <2>1, <2>2, StoreInv DEF DriverInv
  <2> QED
    BY <1>3, <2>3, ReturnInv DEF DriverInv
<1> QED
  BY <1>2, <1>3 DEF open_share

----------------------------------------------------------------------------
(* Directory scans.                                                        *)

\* What a directory that can be scanned looks like.
LEMMA DirAtFacts ==
  ASSUME NEW x, NEW c, DirAt(x, c)
  PROVE  /\ x \in Items /\ IsDir(x) /\ c = x.entry.cluster /\ c # 0 /\ Linked(c)
         /\ SubdirEntries(c) \in Seq(DirEntries)
         /\ Len(SubdirEntries(c)) = Len(Chain[c]) * ClusterBytes
         /\ \A k \in 1 .. Len(Chain[c]), o \in 0 .. ClusterBytes - 1 :
              /\ Chain[c][k] \in Clusters
              /\ SubdirEntries(c)[(k - 1) * ClusterBytes + o + 1] = Dirs[Chain[c][k]][o + 1]
<1>1. x \in Items /\ IsDir(x) /\ c = x.entry.cluster /\ c # 0
  BY VolumeTypes DEF DirAt
<1> QED
  BY <1>1, DirCells

\* find_entry_in_subdir begins in the first cluster of the directory.
LEMMA FindBegins ==
  ASSUME DriverInv, pc # "idle", NoStore,
         NEW d \in EntryHandles, NEW name \in Names,
         NEW goal \in {"descend", "file", "size", "dir"}, NEW slot \in Nat,
         Find(d, name, goal, slot),
         d.offset = 0,
         \/ slot \in Slots /\ handles[slot].mode = "none"
         \/ slot = INVALID_HANDLE /\ \A s \in Slots : handles[s].mode # "none",
         call.op \in {"open", "size", "ls"}, call.op = "open" => call.mode \in Modes,
         goal = "file" => call.op = "open",
         \E x \in Reached(goal) : DirAt(x, d.cluster),
         goal = "descend" =>
           /\ Len(call.path) = 3 /\ name = call.path[3]
           /\ \E x \in InRootCalled(call.path[1]) : IsDir(x) /\ x.entry.cluster = d.cluster
  PROVE  DriverInv'
<1> DEFINE c == d.cluster
           l == loc'
<1>1. /\ pc' = "find" /\ dh' = d /\ call' = call /\ handles' = handles
      /\ l = [NoLocals EXCEPT !.slot = slot, !.name = name, !.goal = goal, !.start = c]
  BY DEF Find, Continue, NoStore
<1>2. c \in Nat /\ goal \in Goals
  BY DEF EntryHandles, Goals
<1> HIDE DEF l, c
<1>3. l \in Locals /\ l.slot = slot /\ l.name = name /\ l.goal = goal /\ l.start = c
  BY <1>1, <1>2, NoHandleTypes DEF Locals
<1>4. loc' \in Locals /\ loc'.slot = slot /\ loc'.goal = goal /\ loc'.start = c /\ loc'.name = name
  BY <1>3 DEF l
<1>5. call \in Requests
  BY DEF DriverInv, CallInv, CallTypes
<1>6. ScanAt(c, d, name)
  <2>1. PICK x \in Reached(goal) : DirAt(x, c)
    BY DEF c
  <2>2. Linked(c)
    BY <2>1, DirAtFacts
  <2>3. Len(Chain[c]) \in Nat \ {0} /\ Chain[c][1] = c /\ ClusterBytes \in Nat \ {0}
    BY <2>2, ChainLinks, VolumeTypes
  <2>4. 1 \in 1 .. Len(Chain[c]) /\ 0 \in 0 .. ClusterBytes
        /\ (1 - 1) * ClusterBytes + 0 = 0 /\ 1 .. 0 = {}
    BY <2>3
  <2>5. d.cluster = Chain[c][1]
    BY <2>3 DEF c
  <2> QED
    BY <2>4, <2>5 DEF ScanAt
<1>7. CallTypes' /\ SlotStillFree' /\ ModeOfCall' /\ GoalOfScan' /\ CallOfScan'
  BY <1>1, <1>4, <1>5 DEF CallTypes, SlotStillFree, ModeOfCall, GoalOfScan, CallOfScan
<1>8. ScanOrigin'
  <2>1. \E x \in Reached(loc'.goal) : DirAt(x, loc'.start)
    BY <1>4 DEF c
  <2> QED
    BY <2>1 DEF ScanOrigin, Reached, DirAt
<1>9. Scanning'
  <2>1. ScanAt(loc'.start, dh', loc'.name)
    BY <1>1, <1>4, <1>6 DEF c
  <2> QED
    BY <1>1, <2>1 DEF Scanning, ScanAt, Skips, Matches
<1>10. FoundItem' /\ RootOpensInRoot' /\ ShareOnFile' /\ WalkOnFile' /\ ReadOpen'
  BY <1>1 DEF FoundItem, RootOpensInRoot, ShareOnFile, WalkOnFile, ReadOpen
<1>11. DescendsFrom'
  BY <1>1, <1>4 DEF DescendsFrom, IsDir, c
<1> QED
  BY <1>1, <1>7, <1>8, <1>9, <1>10, <1>11, TableUnchanged DEF DriverInv, CallInv

LEMMA NavigateInv ==
  ASSUME DriverInv, navigate_to_subdir
  PROVE  DriverInv'
<1> DEFINE path == call.path
           d == DirHandle(path[1])
           name == PathAtIndex(path)[1]
           goal == IF Len(path) > 2 THEN "descend" ELSE Purpose
           slot == find_available_handle
<1>1. /\ pc = "start" /\ call.op \in {"open", "size", "ls"} /\ NoStore
      /\ call.op = "open" => call.mode \in Modes
      /\ ~(Len(path) <= 1)
  BY DEF navigate_to_subdir, is_in_root
<1>2. CASE Return(-1)
  BY <1>1, <1>2, ReturnInv, TableUnchanged DEF DriverInv, NoStore
<1>3. ASSUME Navigable(path), Find(d, name, goal, slot)
      PROVE  DriverInv'
  <2> DEFINE pos == move_to_root_directory_region(find_root_directory_entry(path[1]))
             x == [pos |-> pos, entry |-> RootEntry(path[1])]
  <2>1. /\ find_root_directory_entry(path[1]) >= 0 /\ Accepts(RootEntry(path[1]), "r", FALSE)
        /\ name \in Names
    BY <1>3 DEF Navigable, DirInRoot, to_short_filename, Names
  <2>2. x \in TopItems /\ x \in InRootCalled(path[1])
    BY <2>1, RootFound, RootLookup
  <2>3. x.pos = pos /\ x.entry = RootEntry(path[1])
    OBVIOUS
  <2>4. d = Opened(x.entry, x.pos, "r")
    BY <2>3 DEF DirHandle
  <2> HIDE DEF x, pos, d
  <2>5. x \in Items
    BY <2>2 DEF Items
  <2>6. x.entry \in DirEntries /\ x.pos \in Int
    BY <2>5, EntryOfItem
  <2>7. d \in EntryHandles /\ d.offset = 0 /\ d.cluster = x.entry.cluster
    BY <2>4, <2>6, OpenedFields DEF Modes
  <2>8. goal \in {"descend", "file", "size", "dir"} /\ (goal = "file" => call.op = "open")
    <3>1. Purpose \in {"file", "size", "dir"} /\ (Purpose = "file" => call.op = "open")
      BY <1>1 DEF Purpose
    <3> QED
      BY <3>1
  <2>9. /\ slot \in Nat
        /\ \/ slot \in Slots /\ handles[slot].mode = "none"
           \/ slot = INVALID_HANDLE /\ \A s \in Slots : handles[s].mode # "none"
    BY AvailableHandle
  <2> HIDE DEF goal, slot, name
  <2>10. path \in Seq(STRING) /\ Len(path) \in Nat /\ Len(path) > 1
    <3>1. path \in Seq(STRING) /\ Len(path) \in Nat
      BY <1>1, PathOfCall
    <3> QED
      BY <1>1, <3>1
  <2>11. Enterable(x)
    BY <1>1, <2>2, <2>10, EnteredInRoot
  <2>12. IsDir(x) /\ DirAt(x, d.cluster)
    BY <2>1, <2>3, <2>5, <2>7, <2>11, AcceptedDirectory
  <2>13. x \in Reached(goal)
    BY <2>2 DEF Reached
  <2>14. goal = "descend" => Len(path) = 3 /\ name = path[3]
    <3>1. Purpose # "descend"
      BY <1>1 DEF Purpose
    <3> QED
      BY <1>3, <2>10, <3>1, DescentPath DEF goal, name
  <2> QED
    BY <1>1, <1>3, <2>1, <2>2, <2>7, <2>8, <2>9, <2>12, <2>13, <2>14, FindBegins
<1> QED
  BY <1>2, <1>3 DEF navigate_to_subdir

LEMMA DescendInv ==
  ASSUME DriverInv, descend
  PROVE  DriverInv'
<1> DEFINE d == IF loc.entry.status = "used" /\ Accepts(loc.entry, "r", FALSE)
                  THEN Opened(loc.entry, loc.pos, "r") ELSE dh
<1>1. pc = "found" /\ loc.goal = "descend" /\ Find(d, loc.name, Purpose, loc.slot) /\ NoStore
  BY DEF descend
<1>2. /\ dh \in EntryHandles /\ loc \in Locals
      /\ dh.cluster = loc.start /\ dh.offset = 0
      /\ call.op = "open" => call.mode \in Modes
      /\ \/ loc.slot \in Slots /\ handles[loc.slot].mode = "none"
         \/ loc.slot = INVALID_HANDLE /\ \A s \in Slots : handles[s].mode # "none"
      /\ \E x \in TopItems : DirAt(x, loc.start)
  BY <1>1 DEF DriverInv, CallInv, CallTypes, Scanning, ModeOfCall, SlotStillFree, ScanOrigin, Reached
<1>3. loc.slot \in Nat /\ loc.name \in Names
  BY <1>2 DEF Locals
<1>4. /\ call.op \in {"open", "size", "ls"}
      /\ Purpose \in {"file", "size", "dir"} /\ (Purpose = "file" => call.op = "open")
  BY <1>1 DEF Purpose, DriverInv, CallInv, CallOfScan
<1>5. TopItems \subseteq Reached(Purpose) /\ Below(TopItems) \subseteq Reached(Purpose)
  BY <1>4 DEF Reached
<1>6. /\ d \in EntryHandles /\ d.offset = 0
      /\ \E x \in Reached(Purpose) : DirAt(x, d.cluster)
  <2>1. CASE loc.entry.status = "used" /\ Accepts(loc.entry, "r", FALSE)
    <3> DEFINE x == [pos |-> loc.pos, entry |-> loc.entry]
    <3>1. x \in Below(TopItems) /\ x \in InDirCalled(loc.start, loc.name)
      BY <1>1, <2>1 DEF DriverInv, CallInv, FoundItem, FoundIn
    <3>2. x.entry = loc.entry /\ x.pos = loc.pos
      OBVIOUS
    <3>3. d = Opened(x.entry, x.pos, "r")
      BY <2>1, <3>2
    <3> HIDE DEF x, d
    <3>4. x \in Items
      BY <3>1 DEF Items
    <3>5. d \in EntryHandles /\ d.offset = 0 /\ d.cluster = x.entry.cluster
      BY <3>3, <3>4, EntryOfItem, OpenedFields DEF Modes
    <3>6. Enterable(x)
      <4>1. /\ Len(call.path) = 3 /\ loc.name = call.path[3]
            /\ \E z \in InRootCalled(call.path[1]) : IsDir(z) /\ z.entry.cluster = loc.start
        BY <1>1 DEF DriverInv, CallInv, DescendsFrom
      <4> QED
        BY <1>1, <1>4, <3>1, <4>1, EnteredBelow
    <3>7. DirAt(x, d.cluster)
      BY <2>1, <3>2, <3>4, <3>5, <3>6, AcceptedDirectory
    <3> QED
      BY <1>5, <3>1, <3>5, <3>7
  <2>2. CASE ~(loc.entry.status = "used" /\ Accepts(loc.entry, "r", FALSE))
    <3>1. d = dh
      BY <2>2
    <3> QED
      BY <1>2, <1>5, <3>1
  <2> QED
    BY <2>1, <2>2
<1> HIDE DEF d
<1>7. Purpose # "descend"
  BY <1>4
<1> QED
  BY <1>1, <1>2, <1>3, <1>4, <1>6, <1>7, FindBegins

\* read_entry_from_subdir reads the entry behind the ones passed.
LEMMA EntryReads ==
  ASSUME NEW x, NEW c, DirAt(x, c), NEW h \in EntryHandles, ~NoMoreEntries(h),
         NEW j \in 1 .. Len(Chain[c]), h.cluster = Chain[c][j], h.offset \in 0 .. ClusterBytes
  PROVE  \E k \in 1 .. Len(Chain[c]), o \in 0 .. ClusterBytes - 1 :
           /\ EntryCluster(h) = Chain[c][k] /\ EntryOffset(h) = o
           /\ (k - 1) * ClusterBytes + o = (j - 1) * ClusterBytes + h.offset
           /\ ReadEntry(h) = SubdirEntries(c)[(k - 1) * ClusterBytes + o + 1]
<1>1. /\ Linked(c)
      /\ \A k \in 1 .. Len(Chain[c]), o \in 0 .. ClusterBytes - 1 :
           /\ Chain[c][k] \in Clusters
           /\ SubdirEntries(c)[(k - 1) * ClusterBytes + o + 1] = Dirs[Chain[c][k]][o + 1]
  BY ONLY DirAt(x, c), DirAtFacts
<1>2. Len(Chain[c]) \in Nat \ {0} /\ ClusterBytes \in Nat \ {0} /\ EOC \in Nat
  BY <1>1, ChainLinks, VolumeTypes
<1>3. \E k \in 1 .. Len(Chain[c]), o \in 0 .. ClusterBytes - 1 :
        /\ EntryCluster(h) = Chain[c][k] /\ EntryOffset(h) = o
        /\ (k - 1) * ClusterBytes + o = (j - 1) * ClusterBytes + h.offset
  <2>1. CASE h.offset = ClusterBytes
    <3> DEFINE k == j + 1
    <3>1. ~(Fat[Chain[c][j]] >= EOC)
      BY <2>1 DEF NoMoreEntries, AtClusterEnd, get_next_cluster
    <3>2. j # Len(Chain[c]) /\ Fat[Chain[c][j]] = Chain[c][k]
      BY <1>1, <3>1, ChainLinks
    <3>3. k \in 1 .. Len(Chain[c]) /\ 0 \in 0 .. ClusterBytes - 1
      BY <1>2, <3>2
    <3>4. EntryCluster(h) = Chain[c][k] /\ EntryOffset(h) = 0
      BY <2>1, <3>2 DEF EntryCluster, EntryOffset, AtClusterEnd, get_next_cluster
    <3>5. (k - 1) * ClusterBytes + 0 = (j - 1) * ClusterBytes + h.offset
      BY <1>2, <2>1
    <3> HIDE DEF k
    <3> QED
      BY <3>3, <3>4, <3>5
  <2>2. CASE h.offset # ClusterBytes
    <3>1. h.offset \in 0 .. ClusterBytes - 1
      BY <1>2, <2>2
    <3>2. EntryCluster(h) = Chain[c][j] /\ EntryOffset(h) = h.offset
      BY <2>2 DEF EntryCluster, EntryOffset, AtClusterEnd
    <3> QED
      BY <3>1, <3>2
  <2> QED
    BY <2>1, <2>2
<1>4. PICK k \in 1 .. Len(Chain[c]), o \in 0 .. ClusterBytes - 1 :
        /\ EntryCluster(h) = Chain[c][k] /\ EntryOffset(h) = o
        /\ (k - 1) * ClusterBytes + o = (j - 1) * ClusterBytes + h.offset
  BY <1>3
<1>5. ReadEntry(h) = Dirs[Chain[c][k]][o + 1]
  BY <1>1, <1>4 DEF ReadEntry, EntryAt
<1>6. ReadEntry(h) = SubdirEntries(c)[(k - 1) * ClusterBytes + o + 1]
  BY <1>1, <1>5
<1> QED
  BY <1>4, <1>6

LEMMA ScanReads ==
  ASSUME NEW x, NEW c, DirAt(x, c), NEW h \in EntryHandles, NEW name, ScanAt(c, h, name),
         ~NoMoreEntries(h)
  PROVE  \E k \in 1 .. Len(Chain[c]), o \in 0 .. ClusterBytes - 1 :
           /\ EntryCluster(h) = Chain[c][k] /\ EntryOffset(h) = o
           /\ ReadEntry(h) = SubdirEntries(c)[(k - 1) * ClusterBytes + o + 1]
           /\ \A i \in 1 .. (k - 1) * ClusterBytes + o : Skips(SubdirEntries(c)[i], name)
<1>1. PICK j \in 1 .. Len(Chain[c]) :
        /\ h.cluster = Chain[c][j]
        /\ h.offset \in 0 .. ClusterBytes
        /\ \A i \in 1 .. (j - 1) * ClusterBytes + h.offset : Skips(SubdirEntries(c)[i], name)
  BY DEF ScanAt
<1>2. PICK k \in 1 .. Len(Chain[c]), o \in 0 .. ClusterBytes - 1 :
        /\ EntryCluster(h) = Chain[c][k] /\ EntryOffset(h) = o
        /\ (k - 1) * ClusterBytes + o = (j - 1) * ClusterBytes + h.offset
        /\ ReadEntry(h) = SubdirEntries(c)[(k - 1) * ClusterBytes + o + 1]
  BY <1>1, EntryReads
<1>3. \A i \in 1 .. (k - 1) * ClusterBytes + o : Skips(SubdirEntries(c)[i], name)
  BY <1>1, <1>2
<1> QED
  BY <1>2, <1>3

\* The handle behind the entry: still in its cluster, and the offset has not wrapped.
LEMMA AfterEntryFields ==
  ASSUME NEW h \in EntryHandles, NEW q \in Nat, NEW o \in 0 .. ClusterBytes - 1,
         EntryCluster(h) = q, EntryOffset(h) = o
  PROVE  /\ AfterEntry(h) \in EntryHandles
         /\ AfterEntry(h).cluster = q /\ AfterEntry(h).offset = o + 1
<1>1. o + 1 \in Nat /\ (o + 1) % OffsetMod = o + 1
  <2>1. ClusterBytes \in Nat /\ OffsetMod \in Nat \ {0} /\ ClusterBytes < OffsetMod
    BY VolumeTypes
  <2>2. o + 1 \in 0 .. OffsetMod - 1
    BY <2>1
  <2> QED
    BY <2>1, <2>2
<1>2. AfterEntry(h) = [h EXCEPT !.cluster = q, !.offset = o + 1]
  BY <1>1 DEF AfterEntry
<1> DEFINE p == o + 1
<1>3. AfterEntry(h) = [h EXCEPT !.cluster = q, !.offset = p] /\ p \in Nat
  BY <1>1, <1>2
<1> HIDE DEF p
<1>4. AfterEntry(h) \in EntryHandles /\ AfterEntry(h).cluster = q /\ AfterEntry(h).offset = p
  BY <1>3 DEF EntryHandles
<1> QED
  BY <1>4 DEF p

\* A scan is in a directory.
LEMMA ScanIsInDirectory ==
  ASSUME DriverInv, pc = "find"
  PROVE  /\ dh \in EntryHandles /\ loc \in Locals
         /\ ScanAt(loc.start, dh, loc.name) /\ \E x \in Reached(loc.goal) : DirAt(x, loc.start)
BY DEF DriverInv, CallInv, CallTypes, Scanning, ScanOrigin

LEMMA FindNextInv ==
  ASSUME DriverInv, find_next
  PROVE  DriverInv'
<1> DEFINE c == loc.start
<1>1. /\ pc = "find" /\ ~NoMoreEntries(dh) /\ Skips(ReadEntry(dh), loc.name)
      /\ pc' = "find" /\ dh' = AfterEntry(dh) /\ loc' = loc /\ call' = call /\ handles' = handles
  BY DEF find_next, Continue, NoStore, Skips
<1>2. dh \in EntryHandles /\ ScanAt(c, dh, loc.name)
  BY <1>1, ScanIsInDirectory
<1>3. PICK x \in Reached(loc.goal) : DirAt(x, c)
  BY <1>1, ScanIsInDirectory
<1>4. PICK k \in 1 .. Len(Chain[c]), o \in 0 .. ClusterBytes - 1 :
        /\ EntryCluster(dh) = Chain[c][k] /\ EntryOffset(dh) = o
        /\ ReadEntry(dh) = SubdirEntries(c)[(k - 1) * ClusterBytes + o + 1]
        /\ \A i \in 1 .. (k - 1) * ClusterBytes + o : Skips(SubdirEntries(c)[i], loc.name)
  BY <1>1, <1>2, <1>3, ScanReads
<1>5. Linked(c)
  BY <1>3, DirAtFacts
<1>6. Len(Chain[c]) \in Nat /\ Chain[c][k] \in Nat /\ ClusterBytes \in Nat \ {0}
  BY <1>5, ChainLinks, VolumeTypes
<1>7. dh' \in EntryHandles /\ dh'.cluster = Chain[c][k] /\ dh'.offset = o + 1
  BY <1>1, <1>2, <1>4, <1>6, AfterEntryFields
<1> DEFINE n == (k - 1) * ClusterBytes
<1>8. n \in Int
  BY <1>6
<1>9. \A i \in 1 .. n + (o + 1) : Skips(SubdirEntries(c)[i], loc.name)
  <2>1. ReadEntry(dh) = SubdirEntries(c)[n + o + 1]
        /\ \A i \in 1 .. n + o : Skips(SubdirEntries(c)[i], loc.name)
    BY <1>4
  <2> HIDE DEF n
  <2>2. ASSUME NEW i \in 1 .. n + (o + 1) PROVE i \in 1 .. n + o \/ i = n + o + 1
    BY <1>6, <1>8
  <2> QED
    BY <1>1, <2>1, <2>2
<1>10. ScanAt(c, dh', loc.name)
  <2>1. o + 1 \in 0 .. ClusterBytes
    BY <1>6
  <2> QED
    BY <1>7, <1>9, <2>1 DEF ScanAt
<1>11. Scanning'
  <2>1. ScanAt(loc'.start, dh', loc'.name)
    BY <1>1, <1>10
  <2> QED
    BY <1>1, <2>1 DEF Scanning, ScanAt, Skips, Matches
<1>12. CallTypes' /\ SlotStillFree' /\ ModeOfCall' /\ GoalOfScan' /\ CallOfScan' /\ ScanOrigin'
  BY <1>1, <1>7 DEF DriverInv, CallInv, CallTypes, SlotStillFree, ModeOfCall, GoalOfScan, CallOfScan,
                    ScanOrigin, Reached, DirAt
<1>13. FoundItem' /\ RootOpensInRoot' /\ ShareOnFile' /\ WalkOnFile' /\ ReadOpen'
  BY <1>1 DEF FoundItem, RootOpensInRoot, ShareOnFile, WalkOnFile, ReadOpen
<1>14. DescendsFrom'
  BY <1>1 DEF DriverInv, CallInv, DescendsFrom, IsDir
<1> QED
  BY <1>1, <1>11, <1>12, <1>13, <1>14, TableUnchanged DEF DriverInv, CallInv

\* An end of the scan, with or without an entry: the handle is rewound.
LEMMA ScanEnds ==
  ASSUME DriverInv, pc = "find", pc' = "found", dh' = Rewound, call' = call, NoStore,
         loc' \in Locals, loc'.slot = loc.slot, loc'.goal = loc.goal, loc'.start = loc.start,
         loc'.name = loc.name,
         loc'.entry.status = "used" =>
           [pos |-> loc'.pos, entry |-> loc'.entry]
             \in FoundIn(loc.goal) \cap InDirCalled(loc.start, loc.name)
  PROVE  DriverInv'
<1>1. handles' = handles
  BY DEF NoStore
<1>2. dh \in EntryHandles /\ loc \in Locals
  BY DEF DriverInv, CallInv, CallTypes
<1>3. loc.start \in Nat
  BY <1>2 DEF Locals
<1>4. dh' \in EntryHandles /\ dh'.cluster = loc.start /\ dh'.offset = 0
  BY <1>2, <1>3 DEF Rewound, EntryHandles
<1>5. CallTypes' /\ SlotStillFree' /\ ModeOfCall' /\ GoalOfScan' /\ CallOfScan'
  BY <1>1, <1>4 DEF DriverInv, CallInv, CallTypes, SlotStillFree, ModeOfCall, GoalOfScan, CallOfScan
<1>6. ScanOrigin'
  BY DEF DriverInv, CallInv, ScanOrigin, Reached, DirAt
<1>7. Scanning'
  BY <1>4 DEF Scanning
<1>8. FoundItem'
  BY DEF FoundItem, FoundIn
<1>9. RootOpensInRoot' /\ ShareOnFile' /\ WalkOnFile' /\ ReadOpen'
  BY DEF RootOpensInRoot, ShareOnFile, WalkOnFile, ReadOpen
<1>10. DescendsFrom'
  BY DEF DriverInv, CallInv, DescendsFrom, IsDir
<1> QED
  BY <1>1, <1>5, <1>6, <1>7, <1>8, <1>9, <1>10, TableUnchanged DEF DriverInv, CallInv

\* The position of the entry found, computed from the handle behind it, is the entry's.
LEMMA EntryHit ==
  ASSUME DriverInv, find_hit
  PROVE  LET c == loc.start
             after == AfterEntry(dh)
             pos == move_to_data_region(after.cluster, after.offset) - 1
         IN  \E x \in Reached(loc.goal), i \in 1 .. Len(SubdirEntries(c)) :
               /\ DirAt(x, c)
               /\ ReadEntry(dh) = SubdirEntries(c)[i]
               /\ pos = Extent[c][i] /\ pos \in Int /\ pos \notin InRoot
               /\ \A j \in 1 .. i - 1 : Skips(SubdirEntries(c)[j], loc.name)
<1> DEFINE c == loc.start
           after == AfterEntry(dh)
           e == ReadEntry(dh)
           pos == move_to_data_region(after.cluster, after.offset) - 1
<1>1. pc = "find" /\ ~NoMoreEntries(dh) /\ Matches(e, loc.name)
  BY DEF find_hit
<1>3. dh \in EntryHandles /\ ScanAt(c, dh, loc.name)
  BY <1>1, ScanIsInDirectory
<1>4. PICK x \in Reached(loc.goal) : DirAt(x, c)
  BY <1>1, ScanIsInDirectory
<1>5. PICK k \in 1 .. Len(Chain[c]), o \in 0 .. ClusterBytes - 1 :
        /\ EntryCluster(dh) = Chain[c][k] /\ EntryOffset(dh) = o
        /\ e = SubdirEntries(c)[(k - 1) * ClusterBytes + o + 1]
        /\ \A i \in 1 .. (k - 1) * ClusterBytes + o : Skips(SubdirEntries(c)[i], loc.name)
  BY <1>1, <1>3, <1>4, ScanReads
<1>6. Linked(c) /\ Len(SubdirEntries(c)) = Len(Chain[c]) * ClusterBytes
  BY <1>4, DirAtFacts
<1>7. Len(Chain[c]) \in Nat /\ Chain[c][k] \in Clusters /\ ClusterBytes \in Nat \ {0}
      /\ Chain[c][k] \in Nat /\ o \in Nat
  <2>1. Len(Chain[c]) \in Nat /\ Chain[c][k] \in Clusters
    BY <1>6, ChainLinks
  <2>2. ClusterBytes \in Nat \ {0} /\ Chain[c][k] \in Nat
    BY <2>1, VolumeTypes
  <2> QED
    BY <2>1, <2>2
<1>8. after.cluster = Chain[c][k] /\ after.offset = o + 1
  BY <1>3, <1>5, <1>7, AfterEntryFields
<1>9. pos = move_to_data_region(Chain[c][k], o)
  <2>1. move_to_data_region(Chain[c][k], o + 1) - 1 = move_to_data_region(Chain[c][k], o)
    BY <1>7, DataStep
  <2>2. pos = move_to_data_region(Chain[c][k], o + 1) - 1
    BY <1>8
  <2> QED
    BY <2>1, <2>2
<1>10. pos \in Int /\ pos \notin InRoot
  BY <1>7, <1>9, BehindRoot, DataBehindRoot
<1> DEFINE i == (k - 1) * ClusterBytes + o + 1
           n == (k - 1) * ClusterBytes
<1>11. i \in 1 .. Len(Extent[c]) /\ Extent[c][i] = move_to_data_region(Chain[c][k], o)
       /\ Len(Extent[c]) = Len(Chain[c]) * ClusterBytes
  BY <1>6, ExtentCells
<1>12. n \in Int /\ i = n + o + 1 /\ \A j \in 1 .. n + o : Skips(SubdirEntries(c)[j], loc.name)
  BY <1>5, <1>7
<1>13. e = SubdirEntries(c)[i] /\ pos = Extent[c][i] /\ i \in 1 .. Len(SubdirEntries(c))
  BY <1>5, <1>6, <1>9, <1>11
<1> HIDE DEF i, n, e, pos, after
<1>14. \A j \in 1 .. i - 1 : Skips(SubdirEntries(c)[j], loc.name)
  <2>1. i - 1 = n + o
    BY <1>7, <1>12
  <2> QED
    BY <1>12, <2>1
<1> QED
  BY <1>4, <1>10, <1>13, <1>14 DEF e, pos, after

LEMMA FindHitInv ==
  ASSUME DriverInv, find_hit
  PROVE  DriverInv'
<1> DEFINE c == loc.start
           after == AfterEntry(dh)
           e == ReadEntry(dh)
           pos == move_to_data_region(after.cluster, after.offset) - 1
<1>1. /\ pc = "find" /\ Matches(e, loc.name)
      /\ pc' = "found" /\ dh' = Rewound /\ call' = call /\ NoStore
      /\ loc' = [loc EXCEPT !.entry = e, !.pos = pos]
  BY DEF find_hit, Continue
<1>2. e.status = "used" /\ ~(VFAT_DIR_ENTRY \subseteq e.attribute)
  BY <1>1 DEF Matches
<1>3. PICK x \in Reached(loc.goal), i \in 1 .. Len(SubdirEntries(c)) :
        /\ DirAt(x, c) /\ e = SubdirEntries(c)[i] /\ pos = Extent[c][i] /\ pos \in Int
        /\ \A j \in 1 .. i - 1 : Skips(SubdirEntries(c)[j], loc.name)
  BY EntryHit
<1>4. SubdirEntries(c) \in Seq(DirEntries) /\ x \in Items /\ IsDir(x) /\ c = x.entry.cluster
  BY <1>3, DirAtFacts
<1> HIDE DEF e, pos, after
<1> DEFINE y == [pos |-> pos, entry |-> e]
<1>5. i \in 1 .. Len(Live(SubdirEntries(c))) /\ y \in InDirCalled(c, loc.name)
  <2>1. First(SubdirEntries(c), loc.name) = {i}
    BY <1>1, <1>3, <1>4, FirstIs
  <2>2. i \in 1 .. Len(Live(SubdirEntries(c)))
    BY <2>1 DEF First
  <2>3. y \in InDirCalled(c, loc.name)
    BY <1>3, <2>1 DEF InDirCalled
  <2> QED
    BY <2>2, <2>3
<1>6. y \in Live1(ItemsOf(c))
  BY <1>2, <1>3, <1>5 DEF ItemsOf, Live1
<1>7. y \in FoundIn(loc.goal)
  <2>1. \A S : x \in S => y \in Below(S)
    BY <1>4, <1>6 DEF Below
  <2> HIDE DEF y
  <2> QED
    BY <1>3, <2>1 DEF FoundIn, Reached, Items
<1>8. e \in Entries
  BY <1>3, <1>4, LenProperties DEF Entries
<1>9. loc \in Locals
  BY <1>1 DEF DriverInv, CallInv, CallTypes
<1>10. /\ loc' \in Locals /\ loc'.entry = e /\ loc'.pos = pos
       /\ loc'.slot = loc.slot /\ loc'.goal = loc.goal /\ loc'.start = loc.start
       /\ loc'.name = loc.name
  BY <1>1, <1>3, <1>8, <1>9 DEF Locals
<1> QED
  BY <1>1, <1>5, <1>7, <1>10, ScanEnds

LEMMA FindMissInv ==
  ASSUME DriverInv, find_miss
  PROVE  DriverInv'
<1>1. /\ pc = "find" /\ pc' = "found" /\ dh' = Rewound /\ call' = call /\ NoStore
      /\ loc' = [loc EXCEPT !.entry = EndEntry]
  BY DEF find_miss, Continue
<1>2. loc \in Locals /\ EndEntry \in Entries
  BY <1>1 DEF DriverInv, CallInv, CallTypes, Entries
<1>3. /\ loc' \in Locals /\ loc'.entry = EndEntry
      /\ loc'.slot = loc.slot /\ loc'.goal = loc.goal /\ loc'.start = loc.start
      /\ loc'.name = loc.name
  BY <1>1, <1>2, LocalsMissed
<1>4. loc'.entry.status # "used"
  BY <1>3, NoHandleTypes
<1> QED
  BY <1>1, <1>3, <1>4, ScanEnds

----------------------------------------------------------------------------
(* The calls that change no handle, or only clear one.                     *)

\* A step that ends the call and leaves the handles alone.
LEMMA ReturnedInv ==
  ASSUME DriverInv, NEW v, Return(v), NoStore
  PROVE  DriverInv'
<1>1. handles' = handles
  BY DEF NoStore
<1> QED
  BY <1>1, ReturnInv, TableUnchanged DEF DriverInv

\* A step into or within ls_in_subdir.
LEMMA ListingInv ==
  ASSUME DriverInv, pc' = "ls", call' = call, pc # "idle", NoStore
  PROVE  DriverInv'
<1>1. handles' = handles
  BY DEF NoStore
<1>2. CallTypes'
  BY DEF DriverInv, CallInv, CallTypes
<1>3. CallInv'
  BY <1>2 DEF CallInv, SlotStillFree, ModeOfCall, RootOpensInRoot, ShareOnFile, WalkOnFile,
              ReadOpen, ScanOrigin, DescendsFrom, Scanning, FoundItem, GoalOfScan, CallOfScan
<1> QED
  BY <1>1, <1>3, TableUnchanged DEF DriverInv

LEMMA CallStartsInv ==
  ASSUME DriverInv, NEW c \in Requests, Call(c)
  PROVE  DriverInv'
<1>1. pc = "idle" /\ pc' = "start" /\ call' = c /\ handles' = handles /\ dh' = dh /\ loc' = loc
  BY DEF Call
<1>2. CallTypes'
  BY <1>1 DEF DriverInv, CallInv, CallTypes
<1>3. CallInv'
  BY <1>1, <1>2 DEF CallInv, SlotStillFree, ModeOfCall, RootOpensInRoot, ShareOnFile, WalkOnFile,
                    ReadOpen, ScanOrigin, DescendsFrom, Scanning, FoundItem, GoalOfScan, CallOfScan
<1> QED
  BY <1>1, <1>3, TableUnchanged DEF DriverInv

LEMMA SizeInv ==
  ASSUME DriverInv, open_rejected \/ size_in_root \/ subdir_entry_size
  PROVE  DriverInv'
<1>1. CASE open_rejected
  BY <1>1, ReturnedInv DEF open_rejected
<1>2. CASE size_in_root
  BY <1>2, ReturnedInv DEF size_in_root
<1>3. CASE subdir_entry_size
  BY <1>3, ClearInv, ReturnInv DEF subdir_entry_size, DriverInv
<1> QED
  BY <1>1, <1>2, <1>3

LEMMA ListInv ==
  ASSUME DriverInv, ls_in_root \/ ls_dir_of_root \/ ls_dir_of_subdir \/ ls_skip \/ ls_take
  PROVE  DriverInv'
<1>1. CASE ls_in_root
  BY <1>1, ReturnedInv DEF ls_in_root, Listed
<1>2. CASE ls_dir_of_root \/ ls_dir_of_subdir \/ ls_skip
  <2>1. pc # "idle" /\ NoStore
    BY <1>2 DEF ls_dir_of_root, ls_dir_of_subdir, ls_skip, Start
  <2>2. (pc' = "ls" /\ call' = call) \/ Return(-1)
    BY <1>2 DEF ls_dir_of_root, ls_dir_of_subdir, ls_skip, Continue
  <2> QED
    BY <2>1, <2>2, ListingInv, ReturnedInv
<1>3. CASE ls_take
  BY <1>3, ReturnedInv DEF ls_take, Listed
<1> QED
  BY <1>1, <1>2, <1>3

LEMMA CloseInv ==
  ASSUME DriverInv, fat16_close
  PROVE  DriverInv'
<1>1. CASE Return(0) /\ Store(call.slot, NoHandle)
  BY <1>1, ClearInv, ReturnInv DEF DriverInv
<1>2. CASE Return(-1) /\ NoStore
  BY <1>2, ReturnedInv
<1> QED
  BY <1>1, <1>2 DEF fat16_close

----------------------------------------------------------------------------
(* Reading.                                                                *)

\* The read loop is entered, or goes on.
LEMMA ReadingInv ==
  ASSUME DriverInv, TableInv', pc \in {"start", "read"}, pc' = "read", call' = call, dh' = dh,
         loc' \in Locals, loc'.left \in Nat, call.slot \in Slots,
         handles'[call.slot].mode # "none"
  PROVE  DriverInv'
<1>1. CallTypes'
  BY DEF DriverInv, CallInv, CallTypes
<1>2. ReadOpen'
  BY DEF ReadOpen
<1>3. CallInv'
  BY <1>1, <1>2 DEF CallInv, SlotStillFree, ModeOfCall, RootOpensInRoot, ShareOnFile, WalkOnFile,
                    ScanOrigin, DescendsFrom, Scanning, FoundItem, GoalOfScan, CallOfScan
<1> QED
  BY <1>3 DEF DriverInv

LEMMA ReadBeginsInv ==
  ASSUME DriverInv, fat16_read
  PROVE  DriverInv'
<1>1. pc = "start" /\ call.op = "read" /\ NoStore
  BY DEF fat16_read, Start
<1>2. CASE Return(-1) \/ Return(0)
  BY <1>1, <1>2, ReturnedInv
<1>3. CASE /\ check_handle(call.slot) /\ pc' = "read" /\ call' = call /\ dh' = dh
           /\ loc' = [NoLocals EXCEPT !.left = call.count]
  <2>1. call \in Requests
    BY <1>1 DEF DriverInv, CallInv, CallTypes
  <2>2. call.count \in Nat
    BY <1>1, <2>1, Fat16Assumption
  <2>3. loc' \in Locals /\ loc'.left = call.count
    BY <1>3, <2>2, NoHandleTypes, LocalsLeft
  <2>4. handles' = handles /\ call.slot \in Slots /\ handles[call.slot].mode # "none"
    BY <1>1, <1>3 DEF NoStore, check_handle
  <2>5. TableInv'
    BY <2>4, TableUnchanged DEF DriverInv
  <2> QED
    BY <1>1, <1>3, <2>2, <2>3, <2>4, <2>5, ReadingInv
<1> QED
  BY <1>2, <1>3 DEF fat16_read

LEMMA SmallestOf ==
  ASSUME NEW a \in Nat, NEW b \in Nat, NEW c \in Nat
  PROVE  LET m == Smallest(a, b, c)
         IN  m \in {a, b, c} /\ m <= a /\ m <= b /\ m <= c
<1>1. \E m \in {a, b, c} : m <= a /\ m <= b /\ m <= c
  <2>1. CASE a <= b /\ a <= c
    BY <2>1
  <2>2. CASE b <= a /\ b <= c
    BY <2>2
  <2>3. CASE c <= a /\ c <= b
    BY <2>3
  <2> QED
    BY <2>1, <2>2, <2>3
<1> QED
  BY <1>1 DEF Smallest

\* A reader that has taken a chunk stands behind it: in the same cluster, or at the start
\* of the next one, which the file has because there are bytes left.
LEMMA ReaderMoves ==
  ASSUME NEW x \in RegularItems, NEW h \in EntryHandles, OnFile(h, x),
         h.mode # "none", h.remaining_bytes > 0,
         NEW chunk \in Nat, chunk > 0, chunk <= ClusterBytes - h.offset,
         chunk <= h.remaining_bytes,
         NEW g \in EntryHandles, g.mode = h.mode, g.pos_entry = h.pos_entry,
         g.remaining_bytes = h.remaining_bytes - chunk,
         NEW moved, moved = (h.offset + chunk) % OffsetMod,
         \/ /\ moved = ClusterBytes /\ g.remaining_bytes # 0
            /\ g.offset = 0 /\ g.cluster = get_next_cluster(h.cluster)
         \/ /\ ~(moved = ClusterBytes /\ g.remaining_bytes # 0)
            /\ g.offset = IF moved = ClusterBytes THEN 0 ELSE moved
            /\ g.cluster = h.cluster
  PROVE  OnFile(g, x)
<1> DEFINE e == x.entry
           n == Len(Chain[e.cluster])
<1>1. h.mode = "r" /\ ReaderAt(h, e)
  BY DEF OnFile, EntryHandles
<1>2. PICK k \in 1 .. n :
        /\ h.cluster = Chain[e.cluster][k]
        /\ h.offset \in 0 .. ClusterBytes - 1
        /\ e.size - h.remaining_bytes = (k - 1) * ClusterBytes + h.offset
  BY <1>1 DEF ReaderAt
<1>3. h.remaining_bytes <= e.size /\ h.remaining_bytes \in Nat /\ h.offset \in Nat
  BY <1>1 DEF ReaderAt, EntryHandles
<1>4. /\ e.size \in Nat /\ e.cluster # 0 /\ Linked(e.cluster) /\ n \in Nat \ {0}
      /\ e.size <= n * ClusterBytes
  <2>1. /\ e.size \in Nat /\ (e.cluster = 0) = (e.size = 0)
        /\ e.cluster # 0 => /\ Linked(e.cluster) /\ n \in Nat \ {0}
                            /\ e.size <= n * ClusterBytes
    BY RegularFacts
  <2>2. e.size # 0
    BY <1>3, <2>1
  <2> QED
    BY <2>1, <2>2
<1>5. moved = h.offset + chunk /\ moved \in 1 .. ClusterBytes
  <2>1. ClusterBytes \in Nat /\ OffsetMod \in Nat \ {0} /\ ClusterBytes < OffsetMod
    BY VolumeTypes
  <2> DEFINE o == h.offset
  <2>2. o \in Nat /\ chunk \in Nat /\ chunk > 0 /\ chunk <= ClusterBytes - o
        /\ moved = (o + chunk) % OffsetMod
    BY <1>3
  <2> HIDE DEF o
  <2>3. o + chunk \in 1 .. ClusterBytes /\ o + chunk < OffsetMod
    BY <2>1, <2>2
  <2>4. (o + chunk) % OffsetMod = o + chunk
    BY <2>1, <2>2, <2>3
  <2> QED
    BY <2>2, <2>3, <2>4 DEF o
<1> DEFINE p == (k - 1) * ClusterBytes
<1>6. p \in Int /\ k * ClusterBytes = p + ClusterBytes /\ ClusterBytes \in Nat \ {0} /\ k \in Nat
      /\ ((k + 1) - 1) * ClusterBytes = p + ClusterBytes
  BY <1>4, VolumeTypes
<1>7. e.size - h.remaining_bytes = p + h.offset
  BY <1>2
<1>8. k = n => e.size <= p + ClusterBytes
  BY <1>4, <1>6
<1> HIDE DEF e, n, p
<1>9. ASSUME g.remaining_bytes > 0 PROVE ReaderAt(g, e)
  <2>1. g.remaining_bytes <= e.size
        /\ e.size - g.remaining_bytes = p + moved
    BY <1>3, <1>4, <1>5, <1>6, <1>7
  <2>2. CASE moved = ClusterBytes
    <3>1. g.offset = 0 /\ g.cluster = Fat[h.cluster]
      BY <1>9, <2>2 DEF get_next_cluster
    <3>2. k # n
      BY <1>3, <1>4, <1>6, <1>8, <1>9, <2>1, <2>2
    <3>3. k + 1 \in 1 .. n /\ Chain[e.cluster][k + 1] = Fat[h.cluster]
      <4>1. \A j \in 1 .. n : j # n => Fat[Chain[e.cluster][j]] = Chain[e.cluster][j + 1]
        BY <1>4, ChainLinks DEF n
      <4>2. k \in 1 .. n /\ k + 1 \in 1 .. n
        BY <1>4, <3>2
      <4> QED
        BY <1>2, <3>2, <4>1, <4>2
    <3>4. e.size - g.remaining_bytes = ((k + 1) - 1) * ClusterBytes + g.offset
      BY <1>6, <2>1, <2>2, <3>1
    <3>5. g.offset \in 0 .. ClusterBytes - 1
      BY <1>6, <3>1
    <3> QED
      BY <2>1, <3>1, <3>3, <3>4, <3>5 DEF ReaderAt, n
  <2>3. CASE moved # ClusterBytes
    <3>1. g.offset = moved /\ g.cluster = h.cluster
      BY <2>3
    <3>2. g.offset \in 0 .. ClusterBytes - 1
      BY <1>5, <1>6, <2>3, <3>1
    <3>3. e.size - g.remaining_bytes = (k - 1) * ClusterBytes + g.offset
      BY <2>1, <3>1 DEF p
    <3> QED
      BY <1>2, <2>1, <3>1, <3>2, <3>3 DEF ReaderAt, n
  <2> QED
    BY <2>2, <2>3
<1> QED
  BY <1>1, <1>9 DEF OnFile, e

\* A handle that moves on along its file, with its mode and pos_entry unchanged.
LEMMA MovedInv ==
  ASSUME TableInv, NEW slot \in Slots, NEW g \in EntryHandles,
         g.mode = handles[slot].mode, g.pos_entry = handles[slot].pos_entry,
         g.mode # "none" => \E x \in RegularItems : OnFile(g, x),
         handles' = [handles EXCEPT ![slot] = g]
  PROVE  TableInv'
<1>1. handles \in [Slots -> EntryHandles]
  BY DEF TableInv
<1>2. handles' \in [Slots -> EntryHandles]
      /\ \A s \in Slots : handles'[s] = IF s = slot THEN g ELSE handles[s]
  BY <1>1
<1>3. \A s \in Slots : /\ handles'[s].mode = handles[s].mode
                       /\ handles'[s].pos_entry = handles[s].pos_entry
  BY <1>2
<1>4. ExclusiveUse'
  BY <1>3 DEF TableInv, ExclusiveUse
<1>5. HandlesOnFiles'
  <2> SUFFICES ASSUME NEW s \in Slots, handles'[s].mode # "none"
               PROVE  \E x \in RegularItems : OnFile(handles'[s], x)
    BY DEF HandlesOnFiles, OnFile, ReaderAt, AppenderAt
  <2> QED
    BY <1>2 DEF TableInv, HandlesOnFiles
<1> QED
  BY <1>2, <1>4, <1>5 DEF TableInv

\* One iteration takes a chunk of the file and moves the handle behind it, and the device
\* with the handle.
LEMMA ReadChunk ==
  ASSUME DriverInv, read_from_handle
  PROVE  LET slot == call.slot
             h == handles[slot]
         IN  \E x \in RegularItems, chunk \in Nat, g \in EntryHandles :
               /\ slot \in Slots /\ h \in EntryHandles /\ h.mode = "r" /\ h.remaining_bytes > 0
               /\ OnFile(h, x) /\ OnFile(g, x)
               /\ chunk > 0 /\ chunk <= loc.left
               /\ chunk <= ClusterBytes - h.offset /\ chunk <= h.remaining_bytes
               /\ handles' = [handles EXCEPT ![slot] = g]
               /\ g.mode = h.mode /\ g.pos_entry = h.pos_entry
               /\ g.remaining_bytes = h.remaining_bytes - chunk
               /\ loc' = [loc EXCEPT !.left = loc.left - chunk]
               /\ buf' = buf \o [i \in 1 .. chunk |-> disk_pointer + i - 1]
               /\ \/ disk_pointer' = move_to_data_region(g.cluster, g.offset)
                  \/ /\ disk_pointer' = disk_pointer + chunk
                     /\ g.remaining_bytes > 0 => /\ g.cluster = h.cluster
                                                 /\ g.offset = h.offset + chunk
<1> DEFINE slot == call.slot
           h == handles[slot]
           chunk == Smallest(loc.left, ClusterBytes - h.offset, h.remaining_bytes)
           rest == h.remaining_bytes - chunk
           moved == (h.offset + chunk) % OffsetMod
           next == get_next_cluster(h.cluster)
<1>1. /\ pc = "read" /\ loc.left > 0 /\ h.remaining_bytes # 0
      /\ loc' = [loc EXCEPT !.left = loc.left - chunk]
      /\ buf' = buf \o [i \in 1 .. chunk |-> disk_pointer + i - 1]
  BY DEF read_from_handle
<1>2. \/ /\ moved = ClusterBytes /\ rest # 0
         /\ handles' = [handles EXCEPT ![slot] = [h EXCEPT !.remaining_bytes = rest,
                                                           !.offset = 0, !.cluster = next]]
         /\ disk_pointer' = move_to_data_region(next, 0)
      \/ /\ ~(moved = ClusterBytes /\ rest # 0)
         /\ handles' = [handles EXCEPT ![slot] = [h EXCEPT !.remaining_bytes = rest,
                             !.offset = IF moved = ClusterBytes THEN 0 ELSE moved]]
         /\ disk_pointer' = disk_pointer + chunk
  BY DEF read_from_handle
<1>3. slot \in Slots /\ h.mode # "none" /\ loc.left \in Nat /\ TableInv
  BY <1>1 DEF DriverInv, CallInv, ReadOpen
<1>4. h \in EntryHandles /\ handles \in [Slots -> EntryHandles]
  BY <1>3 DEF TableInv
<1>5. PICK x \in RegularItems : OnFile(h, x)
  BY <1>3 DEF TableInv, HandlesOnFiles
<1>6. ClusterBytes \in Nat \ {0} /\ OffsetMod \in Nat \ {0}
  BY VolumeTypes
<1>7. h.remaining_bytes \in Nat /\ h.remaining_bytes > 0 /\ h.mode = "r" /\ ReaderAt(h, x.entry)
  <2>1. h.remaining_bytes \in Nat
    BY <1>4 DEF EntryHandles
  <2> QED
    BY <1>1, <1>5, <2>1 DEF OnFile
<1>8. h.offset \in 0 .. ClusterBytes - 1
  BY <1>7 DEF ReaderAt
<1>9. ClusterBytes - h.offset \in Nat /\ ClusterBytes - h.offset > 0
  BY <1>6, <1>8
<1>10. /\ chunk \in Nat /\ chunk > 0 /\ chunk <= loc.left
       /\ chunk <= ClusterBytes - h.offset /\ chunk <= h.remaining_bytes
  <2> DEFINE b == ClusterBytes - h.offset
             a == loc.left
             r == h.remaining_bytes
  <2>1. a \in Nat /\ b \in Nat /\ r \in Nat /\ a > 0 /\ b > 0 /\ r > 0
    BY <1>1, <1>3, <1>7, <1>9
  <2>2. chunk = Smallest(a, b, r)
    OBVIOUS
  <2> HIDE DEF a, b, r, chunk
  <2>3. chunk \in {a, b, r} /\ chunk <= a /\ chunk <= b /\ chunk <= r
    BY <2>1, <2>2, SmallestOf
  <2>4. chunk \in Nat /\ chunk > 0 /\ chunk <= a /\ chunk <= b /\ chunk <= r
    BY <2>1, <2>3
  <2> QED
    BY <2>4 DEF a, b, r
<1>11. rest \in Nat /\ moved \in Nat
  BY <1>6, <1>7, <1>8, <1>10
<1>12. next \in Nat
  <2>1. PICK k \in 1 .. Len(Chain[x.entry.cluster]) : h.cluster = Chain[x.entry.cluster][k]
    BY <1>7 DEF ReaderAt
  <2>2. x.entry.size \in Nat /\ h.remaining_bytes <= x.entry.size
    BY <1>7, RegularFacts DEF ReaderAt
  <2>3. Linked(x.entry.cluster)
    BY <1>7, <2>2, RegularFacts
  <2> QED
    BY <2>1, <2>3, ChainLinks DEF get_next_cluster
<1>13. PICK g :
         /\ handles' = [handles EXCEPT ![slot] = g]
         /\ g \in EntryHandles /\ g.mode = h.mode /\ g.pos_entry = h.pos_entry
         /\ g.remaining_bytes = rest
         /\ \/ /\ moved = ClusterBytes /\ rest # 0
               /\ g.offset = 0 /\ g.cluster = next
               /\ disk_pointer' = move_to_data_region(next, 0)
            \/ /\ ~(moved = ClusterBytes /\ rest # 0)
               /\ g.offset = IF moved = ClusterBytes THEN 0 ELSE moved
               /\ g.cluster = h.cluster
               /\ disk_pointer' = disk_pointer + chunk
  <2> HIDE DEF rest, moved, next, h
  <2>1. CASE moved = ClusterBytes /\ rest # 0
    <3> DEFINE g == [h EXCEPT !.remaining_bytes = rest, !.offset = 0, !.cluster = next]
    <3>1. handles' = [handles EXCEPT ![slot] = g] /\ disk_pointer' = move_to_data_region(next, 0)
      BY <1>2, <2>1
    <3>2. /\ g \in EntryHandles /\ g.mode = h.mode /\ g.pos_entry = h.pos_entry
          /\ g.remaining_bytes = rest /\ g.offset = 0 /\ g.cluster = next
      BY <1>4, <1>11, <1>12 DEF EntryHandles
    <3> HIDE DEF g
    <3> QED
      BY <2>1, <3>1, <3>2
  <2>2. CASE ~(moved = ClusterBytes /\ rest # 0)
    <3> DEFINE o == IF moved = ClusterBytes THEN 0 ELSE moved
               g == [h EXCEPT !.remaining_bytes = rest, !.offset = o]
    <3>1. handles' = [handles EXCEPT ![slot] = g] /\ disk_pointer' = disk_pointer + chunk
      BY <1>2, <2>2
    <3>2. o \in Nat
      BY <1>11
    <3>3. o = IF moved = ClusterBytes THEN 0 ELSE moved
      OBVIOUS
    <3> HIDE DEF o
    <3>4. /\ g \in EntryHandles /\ g.mode = h.mode /\ g.pos_entry = h.pos_entry
          /\ g.remaining_bytes = rest /\ g.offset = o /\ g.cluster = h.cluster
      BY <1>4, <1>11, <3>2 DEF EntryHandles
    <3> HIDE DEF g
    <3> QED
      BY <2>2, <3>1, <3>3, <3>4
  <2> QED
    BY <2>1, <2>2
<1>14. OnFile(g, x)
  <2>1. g.remaining_bytes = h.remaining_bytes - chunk /\ moved = (h.offset + chunk) % OffsetMod
        /\ next = get_next_cluster(h.cluster)
    BY <1>13
  <2> HIDE DEF h, chunk, rest, moved, next
  <2> QED
    BY <1>3, <1>4, <1>5, <1>7, <1>10, <1>13, <2>1, ReaderMoves
<1>15. moved = h.offset + chunk
  <2>1. OffsetMod \in Nat \ {0} /\ ClusterBytes < OffsetMod
    BY VolumeTypes
  <2> DEFINE o == h.offset
  <2>2. o \in Nat /\ moved = (o + chunk) % OffsetMod /\ o + chunk <= ClusterBytes
    BY <1>6, <1>8, <1>10
  <2> HIDE DEF o, moved, chunk
  <2>3. chunk \in Nat
    BY <1>10
  <2>4. moved = o + chunk
    BY <1>6, <2>1, <2>2, <2>3
  <2> QED
    BY <2>4 DEF o
<1>16. rest = h.remaining_bytes - chunk
  OBVIOUS
<1> HIDE DEF h, chunk, rest, moved, next
<1>17. \/ disk_pointer' = move_to_data_region(g.cluster, g.offset)
       \/ /\ disk_pointer' = disk_pointer + chunk
          /\ g.remaining_bytes > 0 => g.cluster = h.cluster /\ g.offset = h.offset + chunk
  BY <1>13, <1>15
<1>18. /\ slot \in Slots /\ h \in EntryHandles /\ h.mode = "r" /\ h.remaining_bytes > 0
       /\ OnFile(h, x) /\ OnFile(g, x)
       /\ chunk \in Nat /\ chunk > 0 /\ chunk <= loc.left
       /\ chunk <= ClusterBytes - h.offset /\ chunk <= h.remaining_bytes
       /\ handles' = [handles EXCEPT ![slot] = g] /\ g \in EntryHandles
       /\ g.mode = h.mode /\ g.pos_entry = h.pos_entry
       /\ g.remaining_bytes = h.remaining_bytes - chunk
       /\ loc' = [loc EXCEPT !.left = loc.left - chunk]
       /\ buf' = buf \o [i \in 1 .. chunk |-> disk_pointer + i - 1]
  BY <1>1, <1>3, <1>4, <1>5, <1>7, <1>10, <1>13, <1>14, <1>16
<1> QED
  BY <1>17, <1>18 DEF h

LEMMA ReadFromHandleInv ==
  ASSUME DriverInv, read_from_handle
  PROVE  DriverInv'
<1> DEFINE slot == call.slot
           h == handles[slot]
<1>1. pc = "read" /\ call' = call /\ pc' = "read" /\ dh' = dh
  BY DEF read_from_handle
<1>2. PICK x \in RegularItems, chunk \in Nat, g \in EntryHandles :
        /\ slot \in Slots /\ h.mode = "r" /\ OnFile(g, x) /\ chunk <= loc.left
        /\ handles' = [handles EXCEPT ![slot] = g]
        /\ g.mode = h.mode /\ g.pos_entry = h.pos_entry
        /\ loc' = [loc EXCEPT !.left = loc.left - chunk]
  BY ReadChunk
<1>3. loc.left \in Nat /\ TableInv /\ loc \in Locals /\ handles \in [Slots -> EntryHandles]
  BY <1>1 DEF DriverInv, CallInv, ReadOpen, CallTypes, TableInv
<1>4. TableInv'
  BY <1>2, <1>3, MovedInv
<1>5. handles'[call.slot].mode # "none"
  BY <1>2, <1>3
<1>6. loc' \in Locals /\ loc'.left \in Nat
  <2>1. loc.left - chunk \in Nat /\ loc.left - chunk \in Int
    BY <1>2, <1>3
  <2> QED
    BY <1>2, <1>3, <2>1, LocalsLeft
<1> QED
  BY <1>1, <1>2, <1>4, <1>5, <1>6, ReadingInv

LEMMA ReadReturnInv ==
  ASSUME DriverInv, read_return
  PROVE  DriverInv'
BY ReturnedInv DEF read_return

----------------------------------------------------------------------------
(* What the driver has found out for its caller.                           *)

LEMMA ReturnService ==
  ASSUME NEW v, Return(v)
  PROVE  ServiceInv'
<1>1. pc' = "idle" /\ call' = NoCall /\ buf' = << >>
  BY DEF Return
<1> QED
  BY <1>1 DEF ServiceInv, NothingPending, LookedUp, FoundNamed, Target, Reading, ListingAt

\* A step that goes on with the call: only what holds at its label is to be shown.
LEMMA ContinueService ==
  ASSUME ServiceInv, pc # "read", NEW label \in {"find", "found", "append", "share", "ls"},
         NEW h, NEW l, Continue(label, h, l),
         LookedUp', FoundNamed', Target', ListingAt'
  PROVE  ServiceInv'
<1>1. pc' = label /\ buf' = buf
  BY DEF Continue
<1>2. NothingPending'
  BY <1>1 DEF ServiceInv, NothingPending
<1>3. Reading'
  BY <1>1 DEF Reading
<1> QED
  BY <1>2, <1>3 DEF ServiceInv

LEMMA CallService ==
  ASSUME ServiceInv, NEW c, Call(c)
  PROVE  ServiceInv'
<1>1. pc = "idle" /\ pc' = "start" /\ buf' = buf
  BY DEF Call
<1> QED
  BY <1>1 DEF ServiceInv, NothingPending, LookedUp, FoundNamed, Target, Reading, ListingAt

\* find_entry_in_subdir begins: for a path of two components, with the second one.
LEMMA FindService ==
  ASSUME ServiceInv, pc # "read", NEW d, NEW name, NEW goal, NEW slot, Find(d, name, goal, slot),
         goal \in {"descend", Purpose},
         Shallow => /\ Len(call.path) = 2 /\ goal = Purpose
                    /\ call.path[1] \in ValidNames /\ call.path[2] \in ValidNames
                    /\ name = call.path[2]
                    /\ DirInRoot(call.path[1]) /\ d.cluster = RootEntry(call.path[1]).cluster
  PROVE  ServiceInv'
<1> DEFINE l == [NoLocals EXCEPT !.slot = slot, !.name = name, !.goal = goal, !.start = d.cluster]
<1>1. Continue("find", d, l)
  BY DEF Find
<1>2. l.name = name /\ l.goal = goal /\ l.start = d.cluster
  BY DEF NoLocals
<1> HIDE DEF l
<1>3. pc' = "find" /\ loc' = l /\ call' = call
  BY <1>1 DEF Continue
<1>4. LookedUp'
  BY <1>2, <1>3 DEF LookedUp, Shallow, Purpose
<1>5. FoundNamed' /\ Target' /\ ListingAt'
  BY <1>3 DEF FoundNamed, Target, ListingAt
<1> QED
  BY <1>1, <1>4, <1>5, ContinueService

LEMMA NavigateService ==
  ASSUME DriverInv, ServiceInv, navigate_to_subdir
  PROVE  ServiceInv'
<1> DEFINE path == call.path
           d == DirHandle(path[1])
           name == PathAtIndex(path)[1]
           goal == IF Len(path) > 2 THEN "descend" ELSE Purpose
           slot == find_available_handle
<1>1. pc = "start" /\ call.op \in {"open", "size", "ls"} /\ ~is_in_root(path)
  BY DEF navigate_to_subdir
<1>2. path \in Seq(STRING) /\ Len(path) \in Nat
  BY <1>1, PathOfCall
<1>3. CASE Return(-1)
  BY <1>3, ReturnService
<1>4. ASSUME Navigable(path), Find(d, name, goal, slot)
      PROVE  ServiceInv'
  <2>1. d.cluster = RootEntry(path[1]).cluster
    BY DEF DirHandle, Opened
  <2>2. ASSUME Shallow
        PROVE  /\ Len(path) = 2 /\ goal = Purpose
               /\ path[1] \in ValidNames /\ path[2] \in ValidNames
               /\ name = path[2] /\ DirInRoot(path[1])
    <3>1. Len(path) = 2
      <4> DEFINE n == Len(path)
      <4>1. n \in Nat /\ ~(n <= 1) /\ n <= 2
        BY <1>1, <1>2, <2>2 DEF Shallow, is_in_root
      <4> HIDE DEF n
      <4>2. n = 2
        BY <4>1
      <4> QED
        BY <4>2 DEF n
    <3> QED
      BY <1>2, <1>4, <3>1, NavigatedPath
  <2>3. goal \in {"descend", Purpose}
    OBVIOUS
  <2> HIDE DEF d, name, goal, slot
  <2> QED
    BY <1>1, <1>4, <2>1, <2>2, <2>3, FindService
<1> QED
  BY <1>3, <1>4 DEF navigate_to_subdir

\* Only paths of three components go down a second time.
LEMMA DescendService ==
  ASSUME DriverInv, ServiceInv, descend
  PROVE  ServiceInv'
<1>1. pc = "found" /\ loc.goal = "descend"
  BY DEF descend
<1>2. Purpose \in {"file", "size", "dir"}
  BY <1>1 DEF Purpose, DriverInv, CallInv, CallOfScan
<1>3. ~Shallow
  BY <1>1, <1>2 DEF ServiceInv, LookedUp
<1> QED
  BY <1>1, <1>3, FindService DEF descend

LEMMA FindNextService ==
  ASSUME DriverInv, ServiceInv, find_next
  PROVE  ServiceInv'
<1>1. pc = "find" /\ Continue("find", AfterEntry(dh), loc)
  BY DEF find_next
<1>2. pc' = "find" /\ loc' = loc /\ call' = call
  BY <1>1 DEF Continue
<1>3. LookedUp' /\ FoundNamed' /\ Target' /\ ListingAt'
  BY <1>1, <1>2 DEF ServiceInv, LookedUp, FoundNamed, Target, ListingAt, Shallow, Purpose
<1> QED
  BY <1>1, <1>3, ContinueService

\* The scan of a directory for the second component of a path is over.
LEMMA FoundService ==
  ASSUME DriverInv, ServiceInv, pc = "find", NEW l, Continue("found", Rewound, l),
         l.goal = loc.goal, l.start = loc.start, l.name = loc.name,
         \/ /\ l.entry.status = "used" /\ l.pos \notin InRoot
            /\ InDirCalled(loc.start, loc.name) = {[pos |-> l.pos, entry |-> l.entry]}
         \/ /\ l.entry.status # "used"
            /\ InDirCalled(loc.start, loc.name) = {}
  PROVE  ServiceInv'
<1> DEFINE y == [pos |-> l.pos, entry |-> l.entry]
           path == call.path
           e == RootEntry(path[1])
           p == move_to_root_directory_region(find_root_directory_entry(path[1]))
           x == [pos |-> p, entry |-> e]
<1>1. pc' = "found" /\ loc' = l /\ call' = call
  BY DEF Continue
<1>2. LookedUp' /\ Target' /\ ListingAt'
  BY <1>1 DEF ServiceInv, LookedUp, Target, ListingAt, Shallow, Purpose
<1>3. ASSUME Shallow PROVE Resolve(path) = IF l.entry.status = "used" THEN {y} ELSE {}
  <2>1. /\ Len(path) = 2 /\ path[1] \in ValidNames /\ path[2] \in ValidNames
        /\ loc.name = path[2] /\ DirInRoot(path[1]) /\ loc.start = e.cluster
    BY <1>3 DEF ServiceInv, LookedUp
  <2>2. find_root_directory_entry(path[1]) >= 0 /\ "VOLUME" \notin e.attribute
    BY <2>1 DEF DirInRoot, Accepts
  <2>3. Resolve(path) = IF "SUBDIR" \in e.attribute THEN InDirCalled(loc.start, loc.name) ELSE {}
    BY <2>1, <2>2, ResolveTwo
  <2>4. x \in InRootCalled(path[1]) /\ x.entry = e
    BY <2>2, RootLookup
  <2> HIDE DEF x, y, e, p
  <2>5. Enterable(x)
    <3>1. call.op \in {"open", "size", "ls"} /\ Len(path) > 1
      BY <2>1 DEF DriverInv, CallInv, CallOfScan
    <3> QED
      BY <2>4, <3>1, EnteredInRoot
  <2>6. "SUBDIR" \in e.attribute
    BY <2>2, <2>4, <2>5 DEF Enterable, IsDir
  <2> QED
    BY <2>3, <2>6 DEF y
<1>4. FoundNamed'
  BY <1>1, <1>3 DEF FoundNamed, Shallow
<1> QED
  BY <1>2, <1>4, ContinueService

LEMMA FindHitService ==
  ASSUME DriverInv, ServiceInv, find_hit
  PROVE  ServiceInv'
<1> DEFINE c == loc.start
           after == AfterEntry(dh)
           e == ReadEntry(dh)
           pos == move_to_data_region(after.cluster, after.offset) - 1
           l == [loc EXCEPT !.entry = e, !.pos = pos]
<1>1. pc = "find" /\ Matches(e, loc.name) /\ Continue("found", Rewound, l)
  BY DEF find_hit
<1>2. PICK x \in Reached(loc.goal), i \in 1 .. Len(SubdirEntries(c)) :
        /\ DirAt(x, c) /\ e = SubdirEntries(c)[i]
        /\ pos = Extent[c][i] /\ pos \notin InRoot
        /\ \A j \in 1 .. i - 1 : Skips(SubdirEntries(c)[j], loc.name)
  BY EntryHit
<1>3. SubdirEntries(c) \in Seq(DirEntries) /\ x \in Items
  BY <1>2, DirAtFacts
<1>4. loc \in Locals
  BY <1>1 DEF DriverInv, CallInv, CallTypes
<1>5. /\ l.entry = e /\ l.pos = pos
      /\ l.goal = loc.goal /\ l.start = loc.start /\ l.name = loc.name
  BY <1>4 DEF Locals
<1> HIDE DEF l, e, pos, after
<1>6. First(SubdirEntries(c), loc.name) = {i}
  BY <1>1, <1>2, <1>3, FirstIs
<1>7. InDirCalled(c, loc.name) = {[pos |-> Extent[c][i], entry |-> SubdirEntries(c)[i]]}
  BY <1>6 DEF InDirCalled
<1>8. InDirCalled(c, loc.name) = {[pos |-> l.pos, entry |-> l.entry]}
  BY <1>2, <1>5, <1>7
<1>9. l.entry.status = "used"
  BY <1>1, <1>5 DEF Matches
<1>10. l.pos \notin InRoot
  BY <1>2, <1>5
<1> QED
  BY <1>1, <1>5, <1>8, <1>9, <1>10, FoundService

\* A scan that has come to the end of its directory has not missed the name.
LEMMA ScanMissed ==
  ASSUME NEW x, NEW c, DirAt(x, c), NEW h \in EntryHandles, NEW name, ScanAt(c, h, name),
         NoMoreEntries(h) \/ ReadEntry(h).status = "end"
  PROVE  InDirCalled(c, name) = {}
<1> DEFINE s == SubdirEntries(c)
<1>1. Linked(c) /\ s \in Seq(DirEntries) /\ Len(s) = Len(Chain[c]) * ClusterBytes
  BY ONLY DirAt(x, c), DirAtFacts
<1>2. Len(Chain[c]) \in Nat \ {0} /\ ClusterBytes \in Nat \ {0} /\ EOC \in Nat /\ Len(s) \in Nat
  BY <1>1, ChainLinks, VolumeTypes
<1>3. \E n \in 0 .. Len(s) : /\ \A i \in 1 .. n : Skips(s[i], name)
                             /\ n = Len(s) \/ s[n + 1].status = "end"
  <2>1. CASE NoMoreEntries(h)
    <3>1. PICK j \in 1 .. Len(Chain[c]) :
            /\ h.cluster = Chain[c][j]
            /\ \A i \in 1 .. (j - 1) * ClusterBytes + h.offset : Skips(s[i], name)
      BY DEF ScanAt
    <3>2. h.offset = ClusterBytes /\ Fat[Chain[c][j]] >= EOC
      BY <2>1, <3>1 DEF NoMoreEntries, AtClusterEnd, get_next_cluster
    <3>3. j = Len(Chain[c])
      BY <1>1, <3>2, ChainLinks
    <3>4. (j - 1) * ClusterBytes + h.offset = Len(s)
      BY <1>1, <1>2, <3>2, <3>3
    <3>5. Len(s) \in 0 .. Len(s)
      BY <1>2
    <3> HIDE DEF s
    <3> QED
      BY <3>1, <3>4, <3>5
  <2>2. CASE ~NoMoreEntries(h) /\ ReadEntry(h).status = "end"
    <3>1. PICK k \in 1 .. Len(Chain[c]), o \in 0 .. ClusterBytes - 1 :
            /\ ReadEntry(h) = s[(k - 1) * ClusterBytes + o + 1]
            /\ \A i \in 1 .. (k - 1) * ClusterBytes + o : Skips(s[i], name)
      BY <2>2, ScanReads
    <3> DEFINE n == (k - 1) * ClusterBytes + o
    <3>2. n + 1 \in 1 .. Len(s) /\ n \in Int
      <4>1. n + 1 \in 1 .. Len(Extent[c]) /\ Len(Extent[c]) = Len(Chain[c]) * ClusterBytes
        BY <1>1, ExtentCells
      <4> QED
        BY <1>1, <1>2, <4>1
    <3>3. s[n + 1].status = "end" /\ \A i \in 1 .. n : Skips(s[i], name)
      BY <2>2, <3>1
    <3> HIDE DEF n, s
    <3>4. n \in 0 .. Len(s)
      BY <1>2, <3>2
    <3> QED
      BY <3>3, <3>4
  <2> QED
    BY <2>1, <2>2
<1> HIDE DEF s
<1>4. First(s, name) = {}
  BY <1>1, <1>3, FirstNone
<1> QED
  BY <1>4 DEF InDirCalled, s

LEMMA FindMissService ==
  ASSUME DriverInv, ServiceInv, find_miss
  PROVE  ServiceInv'
<1> DEFINE l == [loc EXCEPT !.entry = EndEntry]
<1>1. /\ pc = "find" /\ Continue("found", Rewound, l)
      /\ NoMoreEntries(dh) \/ ReadEntry(dh).status = "end"
  BY DEF find_miss
<1>2. /\ loc \in Locals /\ dh \in EntryHandles /\ ScanAt(loc.start, dh, loc.name)
      /\ \E x \in Reached(loc.goal) : DirAt(x, loc.start)
  BY <1>1, ScanIsInDirectory
<1> HIDE DEF l
<1>3. l.entry = EndEntry /\ l.goal = loc.goal /\ l.start = loc.start /\ l.name = loc.name
  BY <1>2 DEF Locals, l
<1>4. l.entry.status # "used"
  BY <1>3, NoHandleTypes
<1>5. InDirCalled(loc.start, loc.name) = {}
  BY <1>1, <1>2, ScanMissed
<1> QED
  BY <1>1, <1>3, <1>4, <1>5, FoundService

\* A file is about to be opened: it is the one the path names.
LEMMA TargetService ==
  ASSUME ServiceInv, pc # "read", NEW label \in {"append", "share"},
         NEW h, NEW l, Continue(label, h, l),
         call.op = "open", call.mode \in Modes, h.mode = call.mode,
         Shallow => LookupOf[call.path] = h.pos_entry,
         h.pos_entry \in ReadOnlyItems => call.mode = "r",
         (label = "append" /\ l.goal = "root") <=> h.pos_entry \in InRoot,
         h.mode = "r" => h.remaining_bytes = EntryOf[h.pos_entry].size
  PROVE  ServiceInv'
<1>1. pc' = label /\ loc' = l /\ dh' = h /\ call' = call
  BY DEF Continue
<1>2. Target'
  BY <1>1 DEF Target, Shallow
<1>3. LookedUp' /\ FoundNamed' /\ ListingAt'
  BY <1>1 DEF LookedUp, FoundNamed, ListingAt
<1> QED
  BY <1>1, <1>2, <1>3, ContinueService

LEMMA OpenFileInRootService ==
  ASSUME DriverInv, ServiceInv, open_file_in_root
  PROVE  ServiceInv'
<1> DEFINE name == call.path[1]
           slot == find_available_handle
           index == find_root_directory_entry(name)
           p == move_to_root_directory_region(index)
           e == RootEntry(name)
           opened == Opened(e, p, call.mode)
           l == [NoLocals EXCEPT !.slot = slot, !.goal = "root", !.left = RootEntry(name).size]
           x == [pos |-> p, entry |-> e]
<1>1. /\ pc = "start" /\ call.op = "open" /\ call.mode \in Modes
      /\ Len(call.path) = 1 /\ name \in ValidNames
  BY DEF open_file_in_root, Start, to_short_filename
<1>2. CASE Return(-1) \/ Return(0)
  BY <1>2, ReturnService
<1>3. ASSUME index >= 0, Accepts(e, call.mode, TRUE), call.mode = "a", Continue("append", opened, l)
      PROVE  ServiceInv'
  <2>1. Resolve(call.path) = {x} /\ x \in Items /\ x.pos \in InRoot
    BY <1>1, <1>3, RootPath
  <2>2. x.pos = p /\ x.entry = e
    OBVIOUS
  <2>3. call.path \in Paths
    BY <1>1, PathOfCall
  <2>4. opened.mode = call.mode /\ opened.pos_entry = p /\ l.goal = "root"
    BY DEF Opened, NoLocals
  <2> HIDE DEF x, opened, l, e, p
  <2>5. LookupOf[call.path] = p
    BY <2>1, <2>2, <2>3, LookupOfPath
  <2>6. p \notin ReadOnlyItems
    BY <1>3, <2>1, <2>2, PositionFacts DEF Accepts
  <2>7. p \in InRoot
    BY <2>1, <2>2
  <2> QED
    BY <1>1, <1>3, <2>4, <2>5, <2>6, <2>7, TargetService
<1> QED
  BY <1>2, <1>3 DEF open_file_in_root

LEMMA OpenFileInSubdirService ==
  ASSUME DriverInv, ServiceInv, open_file_in_subdir
  PROVE  ServiceInv'
<1> DEFINE label == IF call.mode = "a" THEN "append" ELSE "share"
           h == Opened(loc.entry, loc.pos, call.mode)
           l == [loc EXCEPT !.left = loc.entry.size]
           x == [pos |-> loc.pos, entry |-> loc.entry]
<1>1. pc = "found" /\ loc.goal = "file"
  BY DEF open_file_in_subdir
<1>2. call.op = "open" /\ call.mode \in Modes
  BY <1>1 DEF DriverInv, CallInv, ModeOfCall
<1>3. CASE Return(-1)
  BY <1>3, ReturnService
<1>4. ASSUME loc.entry.status = "used", Accepts(loc.entry, call.mode, TRUE), Continue(label, h, l)
      PROVE  ServiceInv'
  <2>1. x \in Items
    BY <1>1, <1>4 DEF DriverInv, CallInv, FoundItem, FoundIn
  <2>2. x.pos = loc.pos /\ x.entry = loc.entry
    OBVIOUS
  <2>3. (Shallow => Resolve(call.path) = {x}) /\ loc.pos \notin InRoot
    BY <1>1, <1>4 DEF ServiceInv, FoundNamed
  <2>4. h.mode = call.mode /\ h.pos_entry = loc.pos
        /\ (h.mode = "r" => h.remaining_bytes = loc.entry.size)
    BY DEF Opened
  <2>5. loc \in Locals
    BY <1>1 DEF DriverInv, CallInv, CallTypes
  <2>6. l.goal = "file"
    BY <1>1, <2>5 DEF Locals
  <2>7. label \in {"append", "share"}
    OBVIOUS
  <2>8. call.path \in Paths
    BY <1>1, <1>2, PathOfCall
  <2> HIDE DEF x, h, l, label
  <2>9. Shallow => LookupOf[call.path] = loc.pos
    BY <2>2, <2>3, <2>8, LookupOfPath
  <2>10. loc.pos \in ReadOnlyItems => call.mode = "r"
    BY <1>4, <2>1, <2>2, PositionFacts DEF Accepts
  <2>11. EntryOf[loc.pos] = loc.entry
    BY <2>1, <2>2, PositionFacts
  <2>12. ~(label = "append" /\ l.goal = "root") /\ h.pos_entry \notin InRoot
    BY <2>3, <2>4, <2>6
  <2>13. h.mode = "r" => h.remaining_bytes = EntryOf[h.pos_entry].size
    BY <2>4, <2>11
  <2> QED
    BY <1>1, <1>2, <1>4, <2>4, <2>7, <2>9, <2>10, <2>12, <2>13, TargetService
<1> QED
  BY <1>3, <1>4 DEF open_file_in_subdir

LEMMA AppendService ==
  ASSUME DriverInv, ServiceInv, append_walk \/ append_end
  PROVE  ServiceInv'
<1>1. pc = "append"
  BY DEF append_walk, append_end
<1>2. /\ call.op = "open" /\ call.mode \in Modes /\ dh.mode = call.mode
      /\ Shallow => LookupOf[call.path] = dh.pos_entry
      /\ dh.pos_entry \in ReadOnlyItems => call.mode = "r"
      /\ loc.goal = "root" <=> dh.pos_entry \in InRoot
  BY <1>1 DEF ServiceInv, Target
<1>3. dh \in EntryHandles /\ loc \in Locals /\ dh.mode = "a"
  BY <1>1 DEF DriverInv, CallInv, CallTypes, WalkOnFile
<1>4. CASE append_walk
  <2> DEFINE h == [dh EXCEPT !.cluster = get_next_cluster(dh.cluster)]
             l == [loc EXCEPT !.left = loc.left - ClusterBytes]
  <2>1. Continue("append", h, l)
    BY <1>4 DEF append_walk
  <2>2. h.mode = "a" /\ h.pos_entry = dh.pos_entry /\ l.goal = loc.goal
    BY <1>3 DEF EntryHandles, Locals
  <2> HIDE DEF h, l
  <2> QED
    BY <1>1, <1>2, <1>3, <2>1, <2>2, TargetService
<1>5. CASE append_end
  <2> DEFINE h == [dh EXCEPT !.offset = loc.left % OffsetMod]
  <2>1. \/ Return(0)
        \/ loc.goal # "root" /\ Continue("share", h, loc)
    BY <1>5 DEF append_end
  <2>2. h.mode = "a" /\ h.pos_entry = dh.pos_entry
    BY <1>3 DEF EntryHandles
  <2> HIDE DEF h
  <2>3. CASE loc.goal # "root" /\ Continue("share", h, loc)
    BY <1>1, <1>2, <1>3, <2>2, <2>3, TargetService
  <2> QED
    BY <2>1, <2>3, ReturnService
<1> QED
  BY <1>4, <1>5

\* ls_in_subdir begins in the first cluster of the directory the path names.
LEMMA ListBegins ==
  ASSUME ServiceInv, pc # "read", NEW x \in Items,
         Continue("ls", Opened(x.entry, x.pos, "r"), [NoLocals EXCEPT !.left = call.index]),
         call.op = "ls", call.path # << >>, call.index \in Nat,
         Shallow => Resolve(call.path) = {x}
  PROVE  ServiceInv'
<1> DEFINE h == Opened(x.entry, x.pos, "r")
           l == [NoLocals EXCEPT !.left = call.index]
           c == x.entry.cluster
<1>1. pc' = "ls" /\ dh' = h /\ loc' = l /\ call' = call
  BY DEF Continue
<1>2. x.entry \in DirEntries /\ x.pos \in Int
  BY EntryOfItem
<1>3. h \in EntryHandles /\ h.cluster = c /\ h.offset = 0
  BY <1>2, OpenedFields DEF Modes
<1>4. l \in Locals /\ l.left = call.index
  BY NoHandleTypes, LocalsLeft
<1> HIDE DEF h, l
<1>5. ASSUME Listable(x)
      PROVE  /\ dh' \in EntryHandles /\ loc' \in Locals /\ loc'.left \in Nat
             /\ \E k \in 1 .. Len(Chain[c]) :
                  /\ dh'.cluster = Chain[c][k] /\ dh'.offset \in 0 .. ClusterBytes
                  /\ (k - 1) * ClusterBytes + dh'.offset + loc'.left = call'.index
  <2>1. dh' \in EntryHandles /\ loc' \in Locals /\ loc'.left \in Nat /\ loc'.left = call'.index
        /\ dh'.cluster = c /\ dh'.offset = 0
    BY <1>1, <1>3, <1>4
  <2>2. Linked(c)
    BY <1>5, VolumeAssumption DEF Listable
  <2>3. 1 \in 1 .. Len(Chain[c]) /\ Chain[c][1] = c /\ ClusterBytes \in Nat
    BY <2>2, ChainLinks, VolumeTypes
  <2>4. (1 - 1) * ClusterBytes + dh'.offset + loc'.left = call'.index /\ 0 \in 0 .. ClusterBytes
    BY <2>1, <2>3
  <2> QED
    BY <2>1, <2>3, <2>4
<1> HIDE DEF c
<1>6. ListingAt'
  <2>1. call'.op = "ls" /\ call'.path # << >>
    BY <1>1
  <2>2. Listable(x) => ListAt(x.entry.cluster)'
    BY <1>5 DEF ListAt, c
  <2>3. Shallow' => Resolve(call'.path) = {x}
    BY <1>1 DEF Shallow
  <2> QED
    BY <2>1, <2>2, <2>3 DEF ListingAt
<1>7. LookedUp' /\ FoundNamed' /\ Target'
  BY <1>1 DEF LookedUp, FoundNamed, Target
<1> QED
  BY <1>6, <1>7, ContinueService

LEMMA ListDirOfRootService ==
  ASSUME DriverInv, ServiceInv, ls_dir_of_root
  PROVE  ServiceInv'
<1> DEFINE name == call.path[1]
           l == [NoLocals EXCEPT !.left = call.index]
           x == [pos |-> move_to_root_directory_region(find_root_directory_entry(name)),
                 entry |-> RootEntry(name)]
<1>1. pc = "start" /\ call.op = "ls" /\ Len(call.path) = 1
  BY DEF ls_dir_of_root, Start
<1>2. call.index \in Nat /\ call.path # << >>
  BY <1>1, PathOfCall
<1>3. CASE Return(-1)
  BY <1>3, ReturnService
<1>4. ASSUME to_short_filename(call.path), DirInRoot(name), Continue("ls", DirHandle(name), l)
      PROVE  ServiceInv'
  <2>1. name \in ValidNames /\ find_root_directory_entry(name) >= 0
    BY <1>4 DEF to_short_filename, DirInRoot
  <2>2. Resolve(call.path) = {x} /\ x \in Items
    BY <1>1, <2>1, RootPath
  <2>3. DirHandle(name) = Opened(x.entry, x.pos, "r")
    BY DEF DirHandle
  <2>4. Continue("ls", Opened(x.entry, x.pos, "r"), l)
    BY <1>4, <2>3
  <2> HIDE DEF x
  <2> QED
    BY <1>1, <1>2, <2>2, <2>4, ListBegins
<1> QED
  BY <1>3, <1>4 DEF ls_dir_of_root

LEMMA ListDirOfSubdirService ==
  ASSUME DriverInv, ServiceInv, ls_dir_of_subdir
  PROVE  ServiceInv'
<1> DEFINE l == [NoLocals EXCEPT !.left = call.index]
           x == [pos |-> loc.pos, entry |-> loc.entry]
<1>1. pc = "found" /\ loc.goal = "dir"
  BY DEF ls_dir_of_subdir
<1>2. call.op \in {"open", "size", "ls"} /\ Purpose = "dir"
  BY <1>1 DEF DriverInv, CallInv, CallOfScan, ServiceInv, LookedUp
<1>3. call.op = "ls"
  BY <1>2 DEF Purpose
<1>4. call.index \in Nat /\ call.path # << >>
  <2>1. Shallow => Len(call.path) = 2
    BY <1>1 DEF ServiceInv, LookedUp
  <2>2. Len(call.path) \in Nat /\ call.index \in Nat /\ (call.path = << >> => Len(call.path) = 0)
    BY <1>1, <1>3, PathOfCall
  <2> DEFINE n == Len(call.path)
  <2>3. n \in Nat /\ (n <= 2 => n = 2) /\ (call.path = << >> => n = 0)
    BY <2>1, <2>2 DEF Shallow
  <2> HIDE DEF n
  <2> QED
    BY <2>2, <2>3
<1>5. CASE Return(-1)
  BY <1>5, ReturnService
<1>6. ASSUME loc.entry.status = "used", Continue("ls", Opened(loc.entry, loc.pos, "r"), l)
      PROVE  ServiceInv'
  <2>1. x \in Items
    BY <1>1, <1>6 DEF DriverInv, CallInv, FoundItem, FoundIn
  <2>2. x.pos = loc.pos /\ x.entry = loc.entry
    OBVIOUS
  <2>3. Shallow => Resolve(call.path) = {x}
    BY <1>1, <1>6 DEF ServiceInv, FoundNamed
  <2> HIDE DEF x
  <2>4. Continue("ls", Opened(x.entry, x.pos, "r"), l)
    BY <1>6, <2>2
  <2> QED
    BY <1>1, <1>3, <1>4, <2>1, <2>3, <2>4, ListBegins
<1> QED
  BY <1>5, <1>6 DEF ls_dir_of_subdir

\* Skipping an entry takes one from left and moves the handle by one.
LEMMA ListSkipService ==
  ASSUME DriverInv, ServiceInv, ls_skip
  PROVE  ServiceInv'
<1> DEFINE h == AfterEntry(dh)
           l == [loc EXCEPT !.left = loc.left - 1]
<1>1. pc = "ls" /\ ~NoMoreEntries(dh) /\ loc.left > 0 /\ Continue("ls", h, l)
  BY DEF ls_skip
<1>2. pc' = "ls" /\ dh' = h /\ loc' = l /\ call' = call
  BY <1>1 DEF Continue
<1>3. call.op = "ls" /\ call.path # << >>
  BY <1>1 DEF ServiceInv, ListingAt
<1>4. LookedUp' /\ FoundNamed' /\ Target'
  BY <1>2 DEF LookedUp, FoundNamed, Target
<1>5. call.index \in Nat
  BY <1>1, <1>3, PathOfCall
<1>6. ASSUME Shallow
      PROVE  \E x \in Items : Resolve(call.path) = {x} /\ (Listable(x) => ListAt(x.entry.cluster)')
  <2>1. PICK x \in Items : Resolve(call.path) = {x} /\ (Listable(x) => ListAt(x.entry.cluster))
    BY <1>1, <1>6 DEF ServiceInv, ListingAt
  <2> SUFFICES ASSUME Listable(x) PROVE ListAt(x.entry.cluster)'
    BY <2>1
  <2> DEFINE c == x.entry.cluster
  <2>2. IsDir(x) /\ c # 0
    BY DEF Listable
  <2>3. dh \in EntryHandles /\ loc \in Locals /\ loc.left \in Nat
    BY <2>1 DEF ListAt
  <2>4. loc.left - 1 \in Nat /\ loc.left - 1 \in Int
    BY <1>1, <2>3
  <2>5. l \in Locals /\ l.left = loc.left - 1
    BY <2>3, <2>4, LocalsLeft
  <2>6. PICK j \in 1 .. Len(Chain[c]) :
          /\ dh.cluster = Chain[c][j] /\ dh.offset \in 0 .. ClusterBytes
          /\ (j - 1) * ClusterBytes + dh.offset + loc.left = call.index
    BY <2>1 DEF ListAt
  <2>7. DirAt(x, c)
    BY <2>2, DirectoryAt
  <2>8. PICK k \in 1 .. Len(Chain[c]), o \in 0 .. ClusterBytes - 1 :
          /\ EntryCluster(dh) = Chain[c][k] /\ EntryOffset(dh) = o
          /\ (k - 1) * ClusterBytes + o = (j - 1) * ClusterBytes + dh.offset
    BY <1>1, <2>6, <2>7, <2>3, EntryReads
  <2>9. Linked(c)
    BY <2>7, DirAtFacts
  <2>10. Len(Chain[c]) \in Nat /\ Chain[c][k] \in Clusters
    BY <2>9, ChainLinks
  <2>11. Chain[c][k] \in Nat /\ ClusterBytes \in Nat \ {0}
    BY <2>10, VolumeTypes
  <2>12. h \in EntryHandles /\ h.cluster = Chain[c][k] /\ h.offset = o + 1
    BY <2>8, <2>11, <2>3, AfterEntryFields
  <2> DEFINE m == (k - 1) * ClusterBytes
  <2>13. m \in Int /\ o \in Nat /\ o + 1 \in 0 .. ClusterBytes
    BY <2>10, <2>11
  <2>14. m + o + loc.left = call.index
    BY <2>6, <2>8
  <2> HIDE DEF m
  <2>15. m + (o + 1) + (loc.left - 1) = call.index
    BY <1>5, <2>13, <2>14, <2>3
  <2>16. m + h.offset + l.left = call.index /\ h.offset \in 0 .. ClusterBytes
    BY <2>12, <2>13, <2>15, <2>5
  <2> HIDE DEF h, l
  <2>17. /\ dh' \in EntryHandles /\ loc' \in Locals /\ loc'.left \in Nat
         /\ dh'.cluster = Chain[c][k] /\ dh'.offset \in 0 .. ClusterBytes
         /\ (k - 1) * ClusterBytes + dh'.offset + loc'.left = call'.index
    BY <1>2, <2>12, <2>16, <2>4, <2>5 DEF m
  <2> QED
    BY <2>17 DEF ListAt
<1>7. ListingAt'
  <2>1. call'.op = "ls" /\ call'.path # << >>
    BY <1>2, <1>3
  <2>2. Shallow' => Shallow
    BY <1>2 DEF Shallow
  <2>3. Resolve(call'.path) = Resolve(call.path)
    BY <1>2
  <2> QED
    BY <1>6, <2>1, <2>2, <2>3 DEF ListingAt
<1> QED
  BY <1>1, <1>4, <1>7, ContinueService

LEMMA DataAdd ==
  ASSUME NEW q \in Clusters, NEW o \in Nat, NEW j \in Int
  PROVE  move_to_data_region(q, o + j) = move_to_data_region(q, o) + j
<1> DEFINE u == (q - 2) * ClusterBytes
<1>1. q - 2 \in Nat /\ FatEntries \in Nat /\ Len(Root) \in Nat /\ ClusterBytes \in Nat
  BY VolumeTypes
<1>2. u \in Nat
  BY <1>1
<1>3. move_to_data_region(q, o) = FatEntries + Len(Root) + u + o
      /\ move_to_data_region(q, o + j) = FatEntries + Len(Root) + u + (o + j)
  BY DEF move_to_data_region
<1> HIDE DEF u
<1> QED
  BY <1>1, <1>2, <1>3

\* What a reader that has bytes left knows of its file.
LEMMA ReaderFacts ==
  ASSUME NEW x \in RegularItems, NEW h \in EntryHandles, OnFile(h, x), h.mode = "r",
         h.remaining_bytes > 0
  PROVE  LET e == x.entry
         IN  /\ Linked(e.cluster) /\ e.size \in Nat /\ h.remaining_bytes \in Nat
             /\ h.remaining_bytes <= e.size /\ h.cluster \in Clusters /\ h.cluster # 0
             /\ h.offset \in 0 .. ClusterBytes - 1
             /\ \E k \in 1 .. Len(Chain[e.cluster]) :
                  /\ h.cluster = Chain[e.cluster][k]
                  /\ e.size - h.remaining_bytes = (k - 1) * ClusterBytes + h.offset
<1> DEFINE e == x.entry
<1>1. ReaderAt(h, e)
  BY DEF OnFile
<1>2. h.remaining_bytes \in Nat /\ h.remaining_bytes <= e.size /\ h.offset \in 0 .. ClusterBytes - 1
  BY <1>1 DEF ReaderAt, EntryHandles
<1>3. PICK k \in 1 .. Len(Chain[e.cluster]) :
        /\ h.cluster = Chain[e.cluster][k]
        /\ e.size - h.remaining_bytes = (k - 1) * ClusterBytes + h.offset
  BY <1>1 DEF ReaderAt
<1>4. /\ e.size \in Nat /\ (e.cluster = 0) = (e.size = 0)
      /\ e.cluster # 0 => Linked(e.cluster)
  BY RegularFacts
<1>5. Linked(e.cluster)
  BY <1>2, <1>4
<1>6. h.cluster \in Clusters
  BY <1>3, <1>5, ChainLinks
<1>7. h.cluster # 0
  BY <1>6, VolumeTypes
<1> QED
  BY <1>2, <1>3, <1>4, <1>5, <1>6, <1>7

\* The bytes of a reader's cluster, from its offset on, are the next ones of the file.
LEMMA NextBytes ==
  ASSUME NEW x \in RegularItems, NEW h \in EntryHandles, OnFile(h, x), h.mode = "r",
         h.remaining_bytes > 0, NEW j \in Nat \ {0}, j <= ClusterBytes - h.offset
  PROVE  LET e == x.entry
         IN  Extent[e.cluster][(e.size - h.remaining_bytes) + j] =
               move_to_data_region(h.cluster, h.offset) + j - 1
<1> DEFINE e == x.entry
           o == h.offset + (j - 1)
<1>1. /\ Linked(e.cluster) /\ h.cluster \in Clusters /\ h.offset \in 0 .. ClusterBytes - 1
      /\ e.size \in Nat /\ h.remaining_bytes \in Nat
  BY ReaderFacts
<1>2. PICK k \in 1 .. Len(Chain[e.cluster]) :
        /\ h.cluster = Chain[e.cluster][k]
        /\ e.size - h.remaining_bytes = (k - 1) * ClusterBytes + h.offset
  BY ReaderFacts
<1>3. ClusterBytes \in Nat \ {0} /\ Len(Chain[e.cluster]) \in Nat
  BY <1>1, ChainLinks, VolumeTypes
<1>4. o \in 0 .. ClusterBytes - 1
  BY <1>1, <1>3
<1> DEFINE q == h.offset
           m == (k - 1) * ClusterBytes
<1>5. m \in Int /\ q \in Int
  BY <1>1, <1>3
<1> HIDE DEF m, q
<1>6. m + (q + (j - 1)) + 1 = (m + q) + j
  BY <1>5
<1> HIDE DEF o
<1>7. Extent[e.cluster][(k - 1) * ClusterBytes + o + 1] = move_to_data_region(h.cluster, o)
  <2>1. Linked(e.cluster)
    BY <1>1
  <2> HIDE DEF e
  <2>2. Extent[e.cluster][(k - 1) * ClusterBytes + o + 1] = move_to_data_region(Chain[e.cluster][k], o)
    BY ONLY <1>4, <2>1, k \in 1 .. Len(Chain[e.cluster]), ExtentCells
  <2> QED
    BY <1>2, <2>2
<1>8. (e.size - h.remaining_bytes) + j = (k - 1) * ClusterBytes + o + 1
  BY <1>2, <1>6 DEF m, o, q
<1>9. move_to_data_region(h.cluster, o) = move_to_data_region(h.cluster, h.offset) + (j - 1)
  <2>1. h.offset \in Nat /\ j - 1 \in Int
    BY <1>1, <1>3
  <2> QED
    BY <1>1, <2>1, DataAdd DEF o
<1>10. move_to_data_region(h.cluster, h.offset) \in Int
  <2>1. h.offset \in Nat
    BY <1>1, <1>3
  <2> QED
    BY <1>1, <2>1, DataBehindRoot
<1> DEFINE p == move_to_data_region(h.cluster, h.offset)
<1> HIDE DEF p
<1>11. p + (j - 1) = p + j - 1
  BY <1>10 DEF p
<1> QED
  BY <1>7, <1>8, <1>9, <1>11 DEF p

\* A step into or within the read loop.
LEMMA ReadingService ==
  ASSUME pc' = "read", Reading'
  PROVE  ServiceInv'
BY DEF ServiceInv, NothingPending, LookedUp, FoundNamed, Target, ListingAt

LEMMA ReadBeginsService ==
  ASSUME DriverInv, ServiceInv, fat16_read
  PROVE  ServiceInv'
<1> DEFINE slot == call.slot
           h == handles[slot]
<1>1. pc = "start" /\ call.op = "read" /\ handles' = handles
  BY DEF fat16_read, Start, NoStore
<1>2. CASE Return(-1) \/ Return(0)
  BY <1>2, ReturnService
<1>3. CASE /\ check_handle(slot) /\ h.remaining_bytes # 0
           /\ disk_pointer' = move_to_data_region(h.cluster, h.offset)
           /\ loc' = [NoLocals EXCEPT !.left = call.count]
           /\ pc' = "read" /\ call' = call /\ buf' = buf
  <2>1. buf = << >> /\ buf \in Seq(Int) /\ Len(buf) = 0
    BY <1>1, EmptySeq DEF ServiceInv, NothingPending
  <2>2. slot \in Slots /\ h.mode # "none" /\ handles \in [Slots -> EntryHandles]
    BY <1>3 DEF check_handle, DriverInv, TableInv
  <2>3. PICK x \in RegularItems : OnFile(h, x)
    BY <2>2 DEF DriverInv, TableInv, HandlesOnFiles
  <2>4. h \in EntryHandles /\ h.remaining_bytes \in Nat
    BY <2>2 DEF EntryHandles
  <2>5. h.remaining_bytes > 0 /\ h.mode = "r"
    BY <1>3, <2>3, <2>4 DEF OnFile
  <2>6. x.entry.size \in Nat /\ h.remaining_bytes <= x.entry.size
    BY <2>3, <2>4, <2>5, ReaderFacts
  <2>7. EntryOf[h.pos_entry] = x.entry
    BY <2>3, EntryOfItem DEF RegularItems, OnFile
  <2>8. call.count \in Nat
    BY <1>1, Fat16Assumption DEF DriverInv, CallInv, CallTypes
  <2>9. loc'.left = call.count
    BY <1>3 DEF NoLocals
  <2>10. loc'.left = call.count - Len(buf)
    BY <2>1, <2>8, <2>9
  <2> DEFINE e == x.entry
  <2>11. e.size - h.remaining_bytes - Len(buf) \in Nat
    BY <2>1, <2>4, <2>6
  <2>12. \A i \in 1 .. Len(buf) : buf[i] = Extent[e.cluster][e.size - h.remaining_bytes - Len(buf) + i]
    BY <2>1
  <2> HIDE DEF h, e
  <2>13. call'.slot = slot /\ handles'[slot] = h
    BY <1>1, <1>3 DEF h
  <2>14. Reading'
    BY <1>1, <1>3, <2>1, <2>5, <2>7, <2>10, <2>11, <2>12, <2>13 DEF Reading, ReadSoFar, e
  <2> QED
    BY <1>3, <2>14, ReadingService
<1> QED
  BY <1>2, <1>3 DEF fat16_read

LEMMA ReadFromHandleService ==
  ASSUME DriverInv, ServiceInv, read_from_handle
  PROVE  ServiceInv'
<1> DEFINE slot == call.slot
           h == handles[slot]
           b == Len(buf)
<1>1. pc = "read" /\ call' = call /\ pc' = "read"
  BY DEF read_from_handle
<1>2. PICK x \in RegularItems, chunk \in Nat, g \in EntryHandles :
        /\ slot \in Slots /\ h \in EntryHandles /\ h.mode = "r" /\ h.remaining_bytes > 0
        /\ OnFile(h, x) /\ OnFile(g, x)
        /\ chunk > 0 /\ chunk <= ClusterBytes - h.offset /\ chunk <= h.remaining_bytes
        /\ handles' = [handles EXCEPT ![slot] = g]
        /\ g.mode = h.mode /\ g.pos_entry = h.pos_entry
        /\ g.remaining_bytes = h.remaining_bytes - chunk
        /\ loc' = [loc EXCEPT !.left = loc.left - chunk]
        /\ buf' = buf \o [i \in 1 .. chunk |-> disk_pointer + i - 1]
        /\ \/ disk_pointer' = move_to_data_region(g.cluster, g.offset)
           \/ /\ disk_pointer' = disk_pointer + chunk
              /\ g.remaining_bytes > 0 => g.cluster = h.cluster /\ g.offset = h.offset + chunk
  BY ReadChunk
<1>3. handles'[slot] = g
  BY <1>2 DEF DriverInv, TableInv
<1> DEFINE e == x.entry
           first == e.size - h.remaining_bytes - b
           more == [i \in 1 .. chunk |-> disk_pointer + i - 1]
<1>4. EntryOf[h.pos_entry] = e
  BY <1>2, EntryOfItem DEF RegularItems, OnFile
<1>5. /\ call.op = "read" /\ buf \in Seq(Int) /\ loc.left = call.count - b /\ first \in Nat
      /\ \A i \in 1 .. b : buf[i] = Extent[e.cluster][first + i]
      /\ disk_pointer = move_to_data_region(h.cluster, h.offset)
  BY <1>1, <1>2, <1>4 DEF ServiceInv, Reading, ReadSoFar
<1>6. /\ e.size \in Nat /\ h.remaining_bytes \in Nat /\ h.cluster \in Clusters
      /\ h.offset \in 0 .. ClusterBytes - 1 /\ ClusterBytes \in Nat \ {0}
  BY <1>2, ReaderFacts, VolumeTypes
<1>7. h.offset \in Nat /\ disk_pointer \in Int /\ b \in Nat
  <2>1. h.offset \in Nat
    BY <1>6
  <2>2. disk_pointer \in Int
    <3>1. h.cluster \in Clusters
      BY <1>6
    <3>2. move_to_data_region(h.cluster, h.offset) \in Nat
      BY ONLY <2>1, <3>1, DataBehindRoot
    <3> QED
      BY <1>5, <3>2
  <2> QED
    BY <1>5, <2>1, <2>2, LenProperties
<1>8. more \in Seq(Int) /\ Len(more) = chunk
  <2>1. more \in [1 .. chunk -> Int]
    BY <1>7
  <2> HIDE DEF more
  <2> QED
    BY <2>1, SequenceOfLength
<1>9. buf' = buf \o more
  BY <1>2
<1>10. \A i \in 1 .. chunk : more[i] = disk_pointer + i - 1
  OBVIOUS
<1> HIDE DEF more
<1>11. /\ buf' \in Seq(Int) /\ Len(buf') = b + chunk
       /\ \A i \in 1 .. b + chunk : buf'[i] = IF i <= b THEN buf[i] ELSE more[i - b]
  BY <1>5, <1>8, <1>9, ConcatProperties
<1> HIDE DEF b
<1>12. e.size - g.remaining_bytes - Len(buf') = first
  <2> DEFINE z == e.size
             r == h.remaining_bytes
  <2>1. g.remaining_bytes = r - chunk /\ z \in Nat /\ r \in Nat /\ Len(buf') = b + chunk
    BY <1>2, <1>6, <1>11
  <2> HIDE DEF z, r
  <2>2. z - (r - chunk) - (b + chunk) = z - r - b
    BY <1>7, <2>1
  <2> QED
    BY <2>1, <2>2 DEF z, r
<1>13. ASSUME NEW i \in 1 .. b + chunk PROVE buf'[i] = Extent[e.cluster][first + i]
  <2>1. CASE i <= b
    <3>1. i \in 1 .. b /\ buf'[i] = buf[i]
      BY <1>7, <1>11, <2>1
    <3> QED
      BY <1>5, <3>1
  <2>2. CASE ~(i <= b)
    <3> DEFINE j == i - b
    <3>1. j \in 1 .. chunk /\ j \in Nat \ {0} /\ buf'[i] = more[j]
      BY <1>7, <1>11, <2>2
    <3>2. buf'[i] = disk_pointer + j - 1
      BY <1>10, <3>1
    <3>3. j <= ClusterBytes - h.offset
      <4> DEFINE off == h.offset
      <4>1. off \in Nat /\ chunk <= ClusterBytes - off /\ j \in Nat /\ j <= chunk
        <5>1. chunk <= ClusterBytes - off
          BY <1>2
        <5>2. j \in Nat /\ j <= chunk
          BY <3>1
        <5> QED
          BY <1>7, <5>1, <5>2
      <4> HIDE DEF off, j
      <4>2. j <= ClusterBytes - off
        BY <1>6, <4>1
      <4> QED
        BY <4>2 DEF off
    <3> HIDE DEF j
    <3>4. Extent[e.cluster][(e.size - h.remaining_bytes) + j] = disk_pointer + j - 1
      BY <1>2, <1>5, <3>1, <3>3, NextBytes
    <3>5. (e.size - h.remaining_bytes) + j = first + i
      BY <1>6, <1>7 DEF j
    <3> QED
      BY <3>2, <3>4, <3>5
  <2> QED
    BY <2>1, <2>2
<1>14. ASSUME g.remaining_bytes > 0 PROVE disk_pointer' = move_to_data_region(g.cluster, g.offset)
  <2>1. CASE disk_pointer' = disk_pointer + chunk /\ g.cluster = h.cluster
             /\ g.offset = h.offset + chunk
    <3>1. move_to_data_region(h.cluster, h.offset + chunk)
            = move_to_data_region(h.cluster, h.offset) + chunk
      <4>1. chunk \in Int
        BY <1>2
      <4> HIDE DEF h
      <4> QED
        BY <1>6, <1>7, <4>1, DataAdd
    <3> QED
      BY <1>5, <2>1, <3>1
  <2> QED
    BY <1>2, <1>14, <2>1
<1>15. loc'.left = call.count - Len(buf')
  <2>1. loc \in Locals /\ loc.left \in Nat /\ call.count \in Nat
    BY <1>1, <1>5, Fat16Assumption DEF DriverInv, CallInv, CallTypes, ReadOpen
  <2>2. loc'.left = loc.left - chunk
    BY <1>2, <2>1 DEF Locals
  <2> QED
    BY <1>5, <1>7, <1>11, <2>1, <2>2
<1> HIDE DEF e, first
<1>16. Reading'
  <2>1. EntryOf[g.pos_entry] = e /\ g.mode = "r"
    BY <1>2, <1>4
  <2>2. call'.slot = slot /\ call'.op = "read" /\ call'.count = call.count
    BY <1>1, <1>5
  <2>3. /\ e.size - g.remaining_bytes - Len(buf') \in Nat
        /\ \A i \in 1 .. Len(buf') :
             buf'[i] = Extent[e.cluster][(e.size - g.remaining_bytes - Len(buf')) + i]
    BY <1>5, <1>11, <1>12, <1>13
  <2> QED
    BY <1>3, <1>11, <1>14, <1>15, <2>1, <2>2, <2>3 DEF Reading, ReadSoFar
<1> QED
  BY <1>1, <1>16, ReadingService

----------------------------------------------------------------------------
(* The theorems.                                                           *)

LEMMA InitDriverInv == Init => DriverInv
<1> SUFFICES ASSUME Init PROVE DriverInv
  OBVIOUS
<1>1. /\ pc = "idle" /\ dh = NoHandle /\ loc = NoLocals
      /\ handles = [s \in Slots |-> NoHandle]
  BY DEF Init
<1>2. CallInv
  BY <1>1, NoHandleTypes
     DEF CallInv, CallTypes, SlotStillFree, ModeOfCall, RootOpensInRoot, ShareOnFile, WalkOnFile,
         ReadOpen, ScanOrigin, DescendsFrom, Scanning, FoundItem, GoalOfScan, CallOfScan
<1>3. handles \in [Slots -> EntryHandles] /\ \A s \in Slots : handles[s].mode = "none"
  BY <1>1, NoHandleTypes
<1>4. TableInv
  BY <1>3 DEF TableInv, HandlesOnFiles, ExclusiveUse
<1> QED
  BY <1>2, <1>4 DEF DriverInv

LEMMA StepDriverInv == DriverInv /\ [Next]_vars => DriverInv'
<1> SUFFICES ASSUME DriverInv, [Next]_vars PROVE DriverInv'
  OBVIOUS
<1>1. ASSUME NEW c \in Requests, Call(c) PROVE DriverInv'
  BY <1>1, CallStartsInv
<1>2. CASE navigate_to_subdir
  BY <1>2, NavigateInv
<1>3. CASE open_rejected \/ size_in_root \/ subdir_entry_size
  BY <1>3, SizeInv
<1>4. CASE open_file_in_root
  BY <1>4, OpenFileInRootInv
<1>5. CASE open_file_in_subdir
  BY <1>5, OpenFileInSubdirInv
<1>6. CASE append_walk
  BY <1>6, AppendWalkInv
<1>7. CASE append_end
  BY <1>7, AppendEndInv
<1>8. CASE open_share
  BY <1>8, OpenShareInv
<1>9. CASE find_next
  BY <1>9, FindNextInv
<1>10. CASE find_hit
  BY <1>10, FindHitInv
<1>11. CASE find_miss
  BY <1>11, FindMissInv
<1>12. CASE descend
  BY <1>12, DescendInv
<1>13. CASE ls_in_root \/ ls_dir_of_root \/ ls_dir_of_subdir \/ ls_skip \/ ls_take
  BY <1>13, ListInv
<1>14. CASE fat16_close
  BY <1>14, CloseInv
<1>15. CASE fat16_read
  BY <1>15, ReadBeginsInv
<1>16. CASE read_from_handle
  BY <1>16, ReadFromHandleInv
<1>17. CASE read_return
  BY <1>17, ReadReturnInv
<1>18. CASE UNCHANGED vars
  <2>1. handles' = handles /\ pc' = pc /\ dh' = dh /\ loc' = loc /\ call' = call
    BY <1>18 DEF vars
  <2>2. TableInv'
    BY <2>1, TableUnchanged DEF DriverInv
  <2>3. CallInv'
    BY <2>1 DEF DriverInv, CallInv, CallTypes, SlotStillFree, ModeOfCall, RootOpensInRoot,
         ShareOnFile, WalkOnFile, ReadOpen, ScanOrigin, DescendsFrom, Scanning, FoundItem, GoalOfScan, CallOfScan,
         OnFile, ReaderAt, AppenderAt, ScanAt, Skips, DirAt, Reached, FoundIn
  <2> QED
    BY <2>2, <2>3 DEF DriverInv
<1> QED
  BY <1>1, <1>2, <1>3, <1>4, <1>5, <1>6, <1>7, <1>8, <1>9, <1>10, <1>11, <1>12, <1>13, <1>14,
     <1>15, <1>16, <1>17, <1>18 DEF Next, Serve

LEMMA SpecDriverInv == Spec => []DriverInv
BY InitDriverInv, StepDriverInv, PTL DEF Spec

(***************************************************************************)
(* An open reader stands on the byte size - remaining_bytes of its file,   *)
(* an appender behind the last one: through opens at any depth, the append *)
(* walk and reads of any length, on every well-formed volume               *)
(* (read_from_handle, open_entry_in_root, open_entry_in_subdir).           *)
(***************************************************************************)
THEOREM HandlesStayOnChain == Spec => []HandlesOnChain
<1>1. DriverInv => HandlesOnChain
  BY OnFilesOnChain DEF DriverInv, TableInv
<1> QED
  BY <1>1, SpecDriverInv, PTL

(***************************************************************************)
(* fat16_open's sharing loop works for any number of handles: a file below *)
(* the root that is open for writing is open once (fat16.c:300-313).       *)
(***************************************************************************)
THEOREM WritersAreAlone == Spec => []ExclusiveUse
<1>1. DriverInv => ExclusiveUse
  BY DEF DriverInv, TableInv
<1> QED
  BY <1>1, SpecDriverInv, PTL

(***************************************************************************)
(* A write behind handles[] happens only in a call made while every handle *)
(* is open: the slot found at the start of the call is the one stored to   *)
(* at its end (find_available_handle, fat16.c:256).                        *)
(***************************************************************************)
THEOREM StrayWritesOnlyWhenFull == Spec => StrayWriteOnlyWhenFull
<1> DEFINE Full == \A s \in Slots : handles[s].mode # "none"
<1>1. ASSUME DriverInv, [Next]_vars, stray', ~stray PROVE Full
  <2>1. ASSUME NEW slot, NEW h, Store(slot, h),
               \/ slot \in Slots
               \/ slot = INVALID_HANDLE /\ Full
        PROVE  Full
    <3>1. slot = INVALID_HANDLE
      BY <1>1, <2>1 DEF Store
    <3>2. INVALID_HANDLE \notin Slots
      BY Fat16Assumption DEF Slots
    <3> QED
      BY <2>1, <3>1, <3>2
  <2>2. stray' # stray
    BY <1>1
  <2>3. ASSUME NEW c \in Requests, Call(c) PROVE FALSE
    BY <1>1, <2>3 DEF Call
  <2>4. ASSUME NoStore PROVE FALSE
    BY <2>2, <2>4 DEF NoStore
  <2>5. ASSUME pc \in {"find", "found", "append", "share"}, NEW h, Store(loc.slot, h) PROVE Full
    BY <1>1, <2>1, <2>5 DEF DriverInv, CallInv, SlotStillFree
  <2>6. CASE open_file_in_root
    <3>1. \E h : Store(find_available_handle, h)
      BY <2>4, <2>6 DEF open_file_in_root
    <3> QED
      BY <2>1, <3>1, AvailableHandle
  <2>7. CASE append_end
    BY <2>4, <2>5, <2>7 DEF append_end
  <2>8. CASE open_share
    BY <2>5, <2>8 DEF open_share
  <2>9. CASE subdir_entry_size
    BY <2>5, <2>9 DEF subdir_entry_size
  <2>10. CASE fat16_close
    BY <2>1, <2>4, <2>10 DEF fat16_close, check_handle
  <2>11. CASE navigate_to_subdir \/ open_rejected \/ open_file_in_subdir \/ append_walk
    BY <2>4, <2>11 DEF navigate_to_subdir, open_rejected, open_file_in_subdir, append_walk
  <2>12. CASE find_next \/ find_hit \/ find_miss \/ descend \/ size_in_root
    BY <2>4, <2>12 DEF find_next, find_hit, find_miss, descend, size_in_root
  <2>13. CASE ls_in_root \/ ls_dir_of_root \/ ls_dir_of_subdir \/ ls_skip \/ ls_take
    BY <2>4, <2>13 DEF ls_in_root, ls_dir_of_root, ls_dir_of_subdir, ls_skip, ls_take
  <2>14. CASE fat16_read \/ read_return
    BY <2>4, <2>14 DEF fat16_read, read_return
  <2>15. CASE read_from_handle \/ UNCHANGED vars
    BY <2>2, <2>15 DEF read_from_handle, vars
  <2> QED
    BY <1>1, <2>3, <2>6, <2>7, <2>8, <2>9, <2>10, <2>11, <2>12, <2>13, <2>14, <2>15
       DEF Next, Serve
<1>2. DriverInv /\ [Next]_vars => [(stray' /\ ~stray) => Full]_vars
  BY <1>1
<1> QED
  BY <1>2, SpecDriverInv, PTL DEF Spec, StrayWriteOnlyWhenFull

LEMMA InitServiceInv == Init => ServiceInv
<1> SUFFICES ASSUME Init PROVE ServiceInv
  OBVIOUS
<1>1. pc = "idle" /\ call = NoCall /\ buf = << >>
  BY DEF Init
<1> QED
  BY <1>1 DEF ServiceInv, NothingPending, LookedUp, FoundNamed, Target, Reading, ListingAt

LEMMA StepServiceInv == DriverInv /\ ServiceInv /\ [Next]_vars => ServiceInv'
<1> SUFFICES ASSUME DriverInv, ServiceInv, [Next]_vars PROVE ServiceInv'
  OBVIOUS
<1>1. ASSUME NEW c \in Requests, Call(c) PROVE ServiceInv'
  BY <1>1, CallService
<1>2. CASE navigate_to_subdir
  BY <1>2, NavigateService
<1>3. CASE open_rejected \/ size_in_root \/ subdir_entry_size \/ ls_in_root \/ ls_take
           \/ fat16_close \/ open_share \/ read_return
  <2>1. \E v : Return(v)
    BY <1>3 DEF open_rejected, size_in_root, subdir_entry_size, ls_in_root, ls_take, fat16_close,
                open_share, read_return, Listed
  <2> QED
    BY <2>1, ReturnService
<1>4. CASE open_file_in_root
  BY <1>4, OpenFileInRootService
<1>5. CASE open_file_in_subdir
  BY <1>5, OpenFileInSubdirService
<1>6. CASE append_walk \/ append_end
  BY <1>6, AppendService
<1>7. CASE find_next
  BY <1>7, FindNextService
<1>8. CASE find_hit
  BY <1>8, FindHitService
<1>9. CASE find_miss
  BY <1>9, FindMissService
<1>10. CASE descend
  BY <1>10, DescendService
<1>11. CASE ls_dir_of_root
  BY <1>11, ListDirOfRootService
<1>12. CASE ls_dir_of_subdir
  BY <1>12, ListDirOfSubdirService
<1>13. CASE ls_skip
  BY <1>13, ListSkipService
<1>14. CASE fat16_read
  BY <1>14, ReadBeginsService
<1>15. CASE read_from_handle
  BY <1>15, ReadFromHandleService
<1>16. CASE UNCHANGED vars
  <2>1. /\ handles' = handles /\ pc' = pc /\ dh' = dh /\ loc' = loc /\ call' = call
        /\ buf' = buf /\ disk_pointer' = disk_pointer
    BY <1>16 DEF vars
  <2>2. NothingPending' /\ LookedUp' /\ FoundNamed' /\ Target'
    BY <2>1 DEF ServiceInv, NothingPending, LookedUp, FoundNamed, Target, Shallow, Purpose
  <2>3. Reading'
    BY <2>1 DEF ServiceInv, Reading, ReadSoFar
  <2>4. ListingAt'
    BY <2>1 DEF ServiceInv, ListingAt, ListAt, Shallow
  <2> QED
    BY <2>2, <2>3, <2>4 DEF ServiceInv
<1> QED
  BY <1>1, <1>2, <1>3, <1>4, <1>5, <1>6, <1>7, <1>8, <1>9, <1>10, <1>11, <1>12, <1>13, <1>14,
     <1>15, <1>16 DEF Next, Serve

LEMMA SpecServiceInv == Spec => [](DriverInv /\ ServiceInv)
<1>1. Init => DriverInv /\ ServiceInv
  BY InitDriverInv, InitServiceInv
<1>2. (DriverInv /\ ServiceInv) /\ [Next]_vars => (DriverInv /\ ServiceInv)'
  BY StepDriverInv, StepServiceInv
<1> QED
  BY <1>1, <1>2, PTL DEF Spec

----------------------------------------------------------------------------
(* The driver implements FileTable.                                        *)

\* What a caller sees of a handle is its file and its mode.
LEMMA DescriptorFacts ==
  ASSUME NEW s \in Slots
  PROVE  /\ Descriptors[s] = FdOf(s)
         /\ Descriptors[s].mode = handles[s].mode
         /\ Descriptors[s].file = IF handles[s].mode = "none" THEN NoEntry ELSE handles[s].pos_entry
         /\ Implemented!InUse(s) <=> handles[s].mode # "none"
<1>1. Descriptors[s] = FdOf(s)
  BY DEF Descriptors
<1> QED
  BY <1>1 DEF FdOf, Implemented!InUse, Implemented!Closed

\* A handle of an open file: its size is the one in the file's entry.
LEMMA HandleFile ==
  ASSUME DriverInv, NEW s \in Slots, handles[s].mode # "none"
  PROVE  \E x \in RegularItems :
           /\ OnFile(handles[s], x) /\ handles[s] \in EntryHandles
           /\ handles[s].pos_entry = x.pos /\ x.pos \in Regular
           /\ SizeTable[x.pos] = x.entry.size /\ EntryOf[x.pos] = x.entry /\ x.entry.size \in Nat
<1>1. PICK x \in RegularItems : OnFile(handles[s], x)
  BY DEF DriverInv, TableInv, HandlesOnFiles
<1>2. handles[s] \in EntryHandles
  BY DEF DriverInv, TableInv
<1>3. x \in Items /\ x.entry.size \in Nat
  BY RegularFacts
<1>4. SizeTable[x.pos] = x.entry.size /\ EntryOf[x.pos] = x.entry
  BY <1>3, PositionFacts
<1>5. handles[s].pos_entry = x.pos /\ x.pos \in Regular
  BY <1>1 DEF OnFile, Regular
<1> QED
  BY <1>1, <1>2, <1>3, <1>4, <1>5

\* Outside the read loop a reader has delivered what it no longer has left.
LEMMA DeliveredIdle ==
  ASSUME DriverInv, pc # "read", NEW s \in Slots, handles[s].mode # "none"
  PROVE  Delivered(s) = SizeTable[handles[s].pos_entry] - handles[s].remaining_bytes
<1>1. SizeTable[handles[s].pos_entry] \in Nat /\ handles[s].remaining_bytes \in Nat
  BY HandleFile DEF EntryHandles
<1> DEFINE a == SizeTable[handles[s].pos_entry]
           b == handles[s].remaining_bytes
<1>2. Delivered(s) = a - b - 0
  BY DEF Delivered
<1> HIDE DEF a, b
<1>3. a - b - 0 = a - b
  BY <1>1 DEF a, b
<1> QED
  BY <1>2, <1>3 DEF a, b

\* Outside the read loop a caller sees a change only where a handle changes.
LEMMA SameDescriptor ==
  ASSUME pc # "read", pc' # "read", NEW s \in Slots, handles'[s] = handles[s]
  PROVE  FdOf(s)' = FdOf(s)
BY DEF FdOf, Delivered

LEMMA SameDescriptors ==
  ASSUME pc # "read", pc' # "read", handles' = handles
  PROVE  Descriptors' = Descriptors
BY SameDescriptor DEF Descriptors

\* The slot of a call that looks a file up is free, or none is.
LEMMA StoreNothing ==
  ASSUME pc # "read", pc' # "read", NEW slot, Store(slot, NoHandle),
         \/ slot \in Slots /\ handles[slot].mode = "none"
         \/ slot = INVALID_HANDLE
  PROVE  Descriptors' = Descriptors
<1>1. INVALID_HANDLE \notin Slots
  BY Fat16Assumption DEF Slots
<1>2. ASSUME NEW s \in Slots PROVE FdOf(s)' = FdOf(s)
  <2>1. CASE s = slot
    <3>1. handles'[s] = NoHandle /\ handles[s].mode = "none"
      BY <1>1, <2>1 DEF Store
    <3> QED
      BY <3>1, NoHandleTypes DEF FdOf
  <2>2. CASE s # slot
    <3>1. handles'[s] = handles[s]
      BY <2>2 DEF Store
    <3> QED
      BY <3>1, SameDescriptor
  <2> QED
    BY <2>1, <2>2
<1> QED
  BY <1>2 DEF Descriptors

LEMMA StoreOne ==
  ASSUME pc # "read", pc' # "read", NEW slot \in Slots, NEW h, Store(slot, h), NEW d,
         FdOf(slot)' = d
  PROVE  Descriptors' = [Descriptors EXCEPT ![slot] = d]
<1>1. ASSUME NEW s \in Slots, s # slot PROVE FdOf(s)' = FdOf(s)
  <2>1. handles'[s] = handles[s]
    BY <1>1 DEF Store
  <2> QED
    BY <2>1, SameDescriptor
<1> QED
  BY <1>1 DEF Descriptors

\* A call that only returns, or goes on, is a step of FileTable.
LEMMA Stutter ==
  ASSUME call' = call, ret' = ret, data' = data, Descriptors' = Descriptors
  PROVE  UNCHANGED Implemented!fvars
BY DEF Implemented!fvars

LEMMA ContinueStutters ==
  ASSUME pc # "read", NEW label, label # "read", NEW h, NEW l, Continue(label, h, l), NoStore
  PROVE  UNCHANGED Implemented!fvars
<1>1. /\ pc' # "read" /\ handles' = handles
      /\ call' = call /\ ret' = ret /\ data' = data
  BY DEF Continue, NoStore
<1>2. Descriptors' = Descriptors
  BY <1>1, SameDescriptors
<1> QED
  BY <1>1, <1>2, Stutter

----------------------------------------------------------------------------
(* fat16_open.                                                             *)

\* A refused open, a size and a listing leave the descriptors alone.
LEMMA RefuseStep ==
  ASSUME call.op = "open", Return(-1), data' = data, Descriptors' = Descriptors,
         ~Implemented!MayOpen(LookupOf[call.path], call.mode) \/ Len(call.path) > 2
  PROVE  Implemented!Next
<1>1. Implemented!Refuse
  BY DEF Return, NoCall, Implemented!Refuse, Implemented!Serving, Implemented!Deep,
         Implemented!NoCall
<1> QED
  BY <1>1 DEF Implemented!Next

\* A path that leads to nothing, or to an entry the mode does not allow, is refused.
LEMMA NothingToOpen ==
  ASSUME NEW path \in Paths, Resolve(path) = {}, NEW mode
  PROVE  ~Implemented!MayOpen(LookupOf[path], mode)
BY LookupOfPath, NoEntryFacts DEF Implemented!MayOpen

LEMMA EntryNotAccepted ==
  ASSUME NEW path \in Paths, NEW x \in Items, Resolve(path) = {x}, NEW mode,
         ~Accepts(x.entry, mode, TRUE)
  PROVE  ~Implemented!MayOpen(LookupOf[path], mode)
<1>1. LookupOf[path] = x.pos
  BY LookupOfPath
<1>2. x.pos \notin Regular \/ (x.pos \in ReadOnlyItems /\ mode # "r")
  BY PositionFacts DEF Accepts
<1> QED
  BY <1>1, <1>2 DEF Implemented!MayOpen

\* A complete handle is stored: the call opens its file, or no descriptor is free.
LEMMA OpenStep ==
  ASSUME DriverInv, pc # "read", call.op = "open", call.mode \in Modes,
         NEW slot, NEW h \in EntryHandles, NEW v, NEW x \in RegularItems,
         Store(slot, h), Return(v), data' = data,
         \/ slot \in Slots /\ handles[slot].mode = "none"
         \/ slot = INVALID_HANDLE /\ \A s \in Slots : handles[s].mode # "none",
         h.mode = call.mode, h.pos_entry = x.pos,
         h.mode = "r" => h.remaining_bytes = x.entry.size,
         LookupOf[call.path] = x.pos \/ Len(call.path) > 2,
         x.pos \in ReadOnlyItems => call.mode = "r",
         \/ x.pos \in InRoot /\ v = 0
         \/ /\ v = slot
            /\ \A s \in Slots \ {slot} :
                 (handles[s].mode # "none" /\ handles[s].pos_entry = x.pos) =>
                   call.mode = "r" /\ handles[s].mode = "r"
  PROVE  Implemented!Next
<1>1. pc' = "idle" /\ call' = NoCall /\ ret' = v
  BY DEF Return
<1>2. Implemented!Serving("open")
  BY <1>1 DEF Implemented!Serving, NoCall, Implemented!NoCall
<1>3. CASE slot \in Slots /\ handles[slot].mode = "none"
  <2> DEFINE d == [file |-> x.pos, mode |-> call.mode, pos |-> 0]
  <2>1. x.pos \in Regular /\ SizeTable[x.pos] = x.entry.size /\ x.entry.size \in Nat
    BY RegularFacts, PositionFacts DEF Regular
  <2>2. handles'[slot] = h
    BY <1>3 DEF Store
  <2>3. FdOf(slot)' = d
    <3>1. h.mode # "none"
      BY DEF Modes
    <3>2. CASE h.mode = "r"
      <4>1. Delivered(slot)' = SizeTable[x.pos] - h.remaining_bytes - 0
        BY <1>1, <2>2 DEF Delivered
      <4>2. x.entry.size - x.entry.size - 0 = 0
        BY <2>1
      <4>3. Delivered(slot)' = 0
        BY <2>1, <3>2, <4>1, <4>2
      <4> QED
        BY <2>2, <3>1, <3>2, <4>3 DEF FdOf
    <3>3. CASE h.mode # "r"
      BY <2>2, <3>1, <3>3 DEF FdOf
    <3> QED
      BY <3>2, <3>3
  <2>4. Descriptors' = [Descriptors EXCEPT ![slot] = d]
    BY <1>1, <1>3, <2>3, StoreOne
  <2>5. ~Implemented!InUse(slot)
    BY <1>3, DescriptorFacts
  <2>6. ~Implemented!Conflict(x.pos, call.mode)
    <3> SUFFICES ASSUME x.pos \notin InRoot, NEW s \in Slots, Descriptors[s].file = x.pos
                 PROVE  call.mode = "r" /\ Descriptors[s].mode = "r"
      BY DEF Implemented!Conflict
    <3>1. handles[s].mode # "none" /\ handles[s].pos_entry = x.pos
      BY <2>1, DescriptorFacts, NoEntryFacts
    <3>2. s \in Slots \ {slot}
      BY <1>3, <3>1
    <3> QED
      BY <3>1, <3>2, DescriptorFacts
  <2>7. Implemented!MayOpen(x.pos, call.mode)
    BY <2>1, <2>6 DEF Implemented!MayOpen, Modes
  <2>8. Implemented!Open(slot, x.pos)
    BY <1>1, <1>2, <2>4, <2>5, <2>7 DEF Implemented!Open, Implemented!Deep
  <2> QED
    BY <1>3, <2>1, <2>8 DEF Implemented!Next
<1>4. CASE slot = INVALID_HANDLE /\ \A s \in Slots : handles[s].mode # "none"
  <2>1. INVALID_HANDLE \notin Slots
    BY Fat16Assumption DEF Slots
  <2>2. ASSUME NEW s \in Slots PROVE FdOf(s)' = FdOf(s)
    <3>1. handles'[s] = handles[s]
      BY <1>4, <2>1 DEF Store
    <3> QED
      BY <1>1, <3>1, SameDescriptor
  <2>3. Descriptors' = Descriptors
    BY <2>2 DEF Descriptors
  <2>4. \A s \in Slots : Implemented!InUse(s)
    BY <1>4, DescriptorFacts
  <2>5. Implemented!OpenWhenFull
    BY <1>2, <2>3, <2>4 DEF Implemented!OpenWhenFull
  <2> QED
    BY <2>5 DEF Implemented!Next
<1> QED
  BY <1>3, <1>4

\* The calls of fat16_open that return, action by action.
LEMMA OpenRejectedStep ==
  ASSUME DriverInv, open_rejected
  PROVE  Implemented!Next
<1>1. pc = "start" /\ call.op = "open" /\ Return(-1) /\ data' = data /\ NoStore
  BY DEF open_rejected, Start
<1>2. Descriptors' = Descriptors
  BY <1>1, SameDescriptors DEF Return, NoStore
<1>3. /\ call.path \in Paths /\ Len(call.path) \in Nat
  BY <1>1, PathOfCall
<1>4. ~Implemented!MayOpen(LookupOf[call.path], call.mode)
  <2>1. CASE call.mode \notin Modes
    BY <2>1 DEF Implemented!MayOpen, Modes
  <2>2. CASE is_in_root(call.path) /\ ~to_short_filename(call.path)
    <3>1. Len(call.path) = 0 \/ \E k \in 1 .. Len(call.path) : call.path[k] \notin ValidNames
      <4> DEFINE n == Len(call.path)
      <4>1. n \in Nat /\ n <= 1 /\ (n = 1 => call.path[1] \notin ValidNames)
        BY <1>3, <2>2 DEF is_in_root, to_short_filename
      <4> HIDE DEF n
      <4>2. n = 0 \/ (n = 1 /\ 1 \in 1 .. n)
        BY <4>1
      <4> QED
        BY <4>1, <4>2 DEF n
    <3>2. Resolve(call.path) = {}
      BY <1>3, <3>1, ResolveNothing
    <3> QED
      BY <1>3, <3>2, NothingToOpen
  <2> QED
    BY <2>1, <2>2 DEF open_rejected
<1> QED
  BY <1>1, <1>2, <1>4, RefuseStep

LEMMA OpenFileInRootStep ==
  ASSUME DriverInv, open_file_in_root
  PROVE  [Implemented!Next]_(Implemented!fvars)
<1> DEFINE name == call.path[1]
           slot == find_available_handle
           index == find_root_directory_entry(name)
           pos == move_to_root_directory_region(index)
           opened == Opened(RootEntry(name), pos, call.mode)
<1>1. /\ pc = "start" /\ call.op = "open" /\ call.mode \in Modes
      /\ is_in_root(call.path) /\ to_short_filename(call.path)
  BY DEF open_file_in_root, Start
<1>2. call.path \in Paths /\ Len(call.path) = 1 /\ name \in ValidNames
  BY <1>1, PathOfCall DEF to_short_filename
<1>3. \/ slot \in Slots /\ handles[slot].mode = "none"
      \/ slot = INVALID_HANDLE /\ \A s \in Slots : handles[s].mode # "none"
  BY AvailableHandle
<1>4. CASE /\ index < 0 \/ ~Accepts(RootEntry(name), call.mode, TRUE)
           /\ Store(slot, NoHandle) /\ Return(-1) /\ data' = data
  <2>1. pc' # "read"
    BY <1>4 DEF Return
  <2>2. Descriptors' = Descriptors
    BY <1>1, <1>3, <1>4, <2>1, StoreNothing
  <2>3. ~Implemented!MayOpen(LookupOf[call.path], call.mode)
    <3>1. CASE ~(index >= 0)
      <4>1. Resolve(call.path) = {}
        BY <1>2, <3>1, RootPath
      <4> QED
        BY <1>2, <4>1, NothingToOpen
    <3>2. CASE index >= 0
      <4> DEFINE x == [pos |-> pos, entry |-> RootEntry(name)]
      <4>1. Resolve(call.path) = {x} /\ x \in Items
        BY <1>2, <3>2, RootPath
      <4>2. ~(index < 0)
        <5>1. index \in Int
          BY RootIndex
        <5> QED
          BY <3>2, <5>1
      <4>3. ~Accepts(x.entry, call.mode, TRUE)
        BY <1>4, <4>2
      <4> QED
        BY <1>2, <4>1, <4>3, EntryNotAccepted
    <3> QED
      BY <3>1, <3>2
  <2>4. Implemented!Next
    BY <1>1, <1>4, <2>2, <2>3, RefuseStep
  <2> QED
    BY <2>4
<1>5. CASE /\ index >= 0 /\ Accepts(RootEntry(name), call.mode, TRUE) /\ call.mode # "a"
           /\ Store(slot, opened) /\ Return(0) /\ data' = data
  <2> DEFINE x == [pos |-> pos, entry |-> RootEntry(name)]
  <2>1. Resolve(call.path) = {x} /\ x \in Items /\ x.pos \in InRoot
    BY <1>2, <1>5, RootPath
  <2>2. x \in RegularItems
    BY <1>5, <2>1, AcceptedFile
  <2>3. LookupOf[call.path] = x.pos
    BY <1>2, <2>1, LookupOfPath
  <2>4. x.pos \in ReadOnlyItems => call.mode = "r"
    BY <1>5, <2>1, PositionFacts DEF Accepts
  <2>5. x.entry \in DirEntries /\ x.pos \in Int
    BY <2>2, RegularFacts
  <2>6. /\ opened \in EntryHandles /\ opened.mode = call.mode /\ opened.pos_entry = x.pos
        /\ opened.mode = "r" => opened.remaining_bytes = x.entry.size
    BY <1>1, <2>5, OpenedFields
  <2> HIDE DEF opened, x, slot
  <2>7. Implemented!Next
    BY <1>1, <1>3, <1>5, <2>1, <2>2, <2>3, <2>4, <2>6, OpenStep
  <2> QED
    BY <2>7
<1>6. CASE \E l : Continue("append", opened, l) /\ NoStore
  BY <1>1, <1>6, ContinueStutters
<1> QED
  BY <1>4, <1>5, <1>6 DEF open_file_in_root

LEMMA OpenFileInSubdirStep ==
  ASSUME DriverInv, ServiceInv, open_file_in_subdir
  PROVE  [Implemented!Next]_(Implemented!fvars)
<1>1. pc = "found" /\ loc.goal = "file" /\ NoStore
  BY DEF open_file_in_subdir
<1>2. call.op = "open"
  BY <1>1 DEF DriverInv, CallInv, ModeOfCall
<1>3. CASE \E label \in {"append", "share"} : \E h, l : Continue(label, h, l)
  BY <1>1, <1>3, ContinueStutters
<1>4. CASE /\ ~(loc.entry.status = "used" /\ Accepts(loc.entry, call.mode, TRUE))
           /\ Return(-1) /\ data' = data
  <2>1. Descriptors' = Descriptors
    BY <1>1, <1>4, SameDescriptors DEF Return, NoStore
  <2>2. call.path \in Paths /\ Len(call.path) \in Nat
    BY <1>1, <1>2, PathOfCall
  <2>3. ASSUME ~(Len(call.path) > 2)
        PROVE  ~Implemented!MayOpen(LookupOf[call.path], call.mode)
    <3>1. Resolve(call.path) = IF loc.entry.status = "used"
                                 THEN {[pos |-> loc.pos, entry |-> loc.entry]} ELSE {}
      BY <1>1, <2>2, <2>3 DEF ServiceInv, FoundNamed, Shallow
    <3>2. CASE loc.entry.status = "used"
      <4> DEFINE x == [pos |-> loc.pos, entry |-> loc.entry]
      <4>1. x \in Items
        BY <1>1, <3>2 DEF DriverInv, CallInv, FoundItem, FoundIn
      <4>2. Resolve(call.path) = {x} /\ ~Accepts(x.entry, call.mode, TRUE)
        BY <1>4, <3>1, <3>2
      <4> QED
        BY <2>2, <4>1, <4>2, EntryNotAccepted
    <3>3. CASE loc.entry.status # "used"
      BY <2>2, <3>1, <3>3, NothingToOpen
    <3> QED
      BY <3>2, <3>3
  <2>4. Implemented!Next
    BY <1>2, <1>4, <2>1, <2>3, RefuseStep
  <2> QED
    BY <2>4
<1> QED
  BY <1>3, <1>4 DEF open_file_in_subdir

LEMMA AppendEndStep ==
  ASSUME DriverInv, ServiceInv, append_end
  PROVE  [Implemented!Next]_(Implemented!fvars)
<1> DEFINE h == [dh EXCEPT !.offset = loc.left % OffsetMod]
<1>1. pc = "append" /\ get_next_cluster(dh.cluster) >= EOC
  BY DEF append_end
<1>2. CASE Continue("share", h, loc) /\ NoStore
  BY <1>1, <1>2, ContinueStutters
<1>3. CASE loc.goal = "root" /\ Store(loc.slot, h) /\ Return(0) /\ data' = data
  <2>1. PICK g : g = h
    OBVIOUS
  <2>2. /\ g \in EntryHandles /\ g.mode = dh.mode /\ g.pos_entry = dh.pos_entry
        /\ \E x \in RegularItems : OnFile(g, x)
    BY <1>1, <2>1, WalkEnds
  <2>3. PICK x \in RegularItems : g.pos_entry = x.pos
    BY <2>2 DEF OnFile
  <2>4. /\ call.op = "open" /\ call.mode \in Modes /\ dh.mode = call.mode
        /\ Shallow => LookupOf[call.path] = dh.pos_entry
        /\ dh.pos_entry \in ReadOnlyItems => call.mode = "r"
        /\ dh.pos_entry \in InRoot
    BY <1>1, <1>3 DEF ServiceInv, Target
  <2>5. dh.mode = "a"
    BY <1>1 DEF DriverInv, CallInv, WalkOnFile
  <2>6. \/ loc.slot \in Slots /\ handles[loc.slot].mode = "none"
        \/ loc.slot = INVALID_HANDLE /\ \A s \in Slots : handles[s].mode # "none"
    BY <1>1 DEF DriverInv, CallInv, SlotStillFree
  <2>7. LookupOf[call.path] = x.pos \/ Len(call.path) > 2
    <3>1. Len(call.path) \in Nat
      BY <1>1, <2>4, PathOfCall
    <3> QED
      BY <2>2, <2>3, <2>4, <3>1 DEF Shallow
  <2>8. Store(loc.slot, g)
    BY <1>3, <2>1
  <2>9. Implemented!Next
    BY <1>1, <1>3, <2>2, <2>3, <2>4, <2>5, <2>6, <2>7, <2>8, OpenStep
  <2> QED
    BY <2>9
<1> QED
  BY <1>2, <1>3 DEF append_end

LEMMA OpenShareStep ==
  ASSUME DriverInv, ServiceInv, open_share
  PROVE  Implemented!Next
<1>1. pc = "share" /\ data' = data
  BY DEF open_share
<1>2. /\ call.op = "open" /\ call.mode \in Modes /\ dh.mode = call.mode
      /\ Shallow => LookupOf[call.path] = dh.pos_entry
      /\ dh.pos_entry \in ReadOnlyItems => call.mode = "r"
      /\ dh.pos_entry \notin InRoot
      /\ dh.mode = "r" => dh.remaining_bytes = EntryOf[dh.pos_entry].size
  BY <1>1 DEF ServiceInv, Target
<1>3. \/ loc.slot \in Slots /\ handles[loc.slot].mode = "none"
      \/ loc.slot = INVALID_HANDLE /\ \A s \in Slots : handles[s].mode # "none"
  BY <1>1 DEF DriverInv, CallInv, SlotStillFree
<1>4. PICK x \in RegularItems : dh.pos_entry = x.pos
  BY <1>1 DEF DriverInv, CallInv, ShareOnFile, OnFile
<1>5. x.pos \in Regular /\ EntryOf[x.pos] = x.entry
  BY RegularFacts, PositionFacts DEF Regular
<1>6. LookupOf[call.path] = x.pos \/ Len(call.path) > 2
  <2>1. Len(call.path) \in Nat
    BY <1>1, <1>2, PathOfCall
  <2> QED
    BY <1>2, <1>4, <2>1 DEF Shallow
<1>7. CASE SharingConflict /\ Store(loc.slot, NoHandle) /\ Return(-1)
  <2>1. pc' # "read"
    BY <1>7 DEF Return
  <2>2. Descriptors' = Descriptors
    BY <1>1, <1>3, <1>7, <2>1, StoreNothing
  <2>3. PICK s \in Slots : /\ handles[s].mode # "none" /\ handles[s].pos_entry = x.pos
                           /\ call.mode # "r" \/ handles[s].mode # "r"
    BY <1>4, <1>7 DEF SharingConflict
  <2>4. Implemented!Conflict(x.pos, call.mode)
    BY <1>2, <1>4, <2>3, DescriptorFacts DEF Implemented!Conflict
  <2>5. ~Implemented!MayOpen(x.pos, call.mode)
    BY <2>4 DEF Implemented!MayOpen
  <2> QED
    BY <1>1, <1>2, <1>6, <1>7, <2>2, <2>5, RefuseStep
<1>8. CASE ~SharingConflict /\ Store(loc.slot, dh) /\ Return(loc.slot)
  <2>1. \A s \in Slots \ {loc.slot} :
          (handles[s].mode # "none" /\ handles[s].pos_entry = x.pos) =>
            call.mode = "r" /\ handles[s].mode = "r"
    BY <1>4, <1>8 DEF SharingConflict
  <2>2. dh \in EntryHandles
    BY <1>1 DEF DriverInv, CallInv, CallTypes
  <2> QED
    BY <1>1, <1>2, <1>3, <1>4, <1>5, <1>6, <1>8, <2>1, <2>2, OpenStep
<1> QED
  BY <1>7, <1>8 DEF open_share

----------------------------------------------------------------------------
(* fat16_size and fat16_ls.                                                *)

LEMMA SizeStep ==
  ASSUME DriverInv, pc # "idle", call.op = "size", NEW v, Return(v), data' = data,
         Descriptors' = Descriptors,
         Len(call.path) <= 2 =>
           \/ Resolve(call.path) = {} /\ v \in {-1, 0}
           \/ \E x \in Items : Resolve(call.path) = {x} /\ v = x.entry.size
  PROVE  Implemented!Next
<1>1. call.path \in Paths /\ Len(call.path) \in Nat
  BY PathOfCall
<1>2. Implemented!Serving("size") /\ ret' = v
  BY DEF Return, Implemented!Serving, NoCall, Implemented!NoCall
<1>3. ASSUME ~(Len(call.path) > 2)
      PROVE  IF LookupOf[call.path] # NoEntry THEN ret' = SizeTable[LookupOf[call.path]]
             ELSE ret' \in {-1, 0}
  <2>1. CASE Resolve(call.path) = {} /\ v \in {-1, 0}
    <3>1. LookupOf[call.path] = NoEntry
      BY <1>1, <2>1, LookupOfPath
    <3> QED
      BY <1>2, <2>1, <3>1
  <2>2. CASE \E x \in Items : Resolve(call.path) = {x} /\ v = x.entry.size
    <3>1. PICK x \in Items : Resolve(call.path) = {x} /\ v = x.entry.size
      BY <2>2
    <3>2. LookupOf[call.path] = x.pos
      BY <1>1, <3>1, LookupOfPath
    <3>3. x.pos # NoEntry /\ SizeTable[x.pos] = x.entry.size
      BY PositionFacts
    <3> QED
      BY <1>2, <3>1, <3>2, <3>3
  <2> QED
    BY <1>1, <1>3, <2>1, <2>2
<1>4. Implemented!Size
  BY <1>2, <1>3 DEF Implemented!Size, Implemented!Deep
<1> QED
  BY <1>4 DEF Implemented!Next

LEMMA SizeInRootStep ==
  ASSUME DriverInv, size_in_root
  PROVE  Implemented!Next
<1> DEFINE path == call.path
           index == find_root_directory_entry(path[1])
           v == IF ~to_short_filename(path) \/ index < 0 THEN -1 ELSE RootEntry(path[1]).size
<1>1. /\ pc = "start" /\ call.op = "size" /\ is_in_root(path) /\ Return(v) /\ data' = data
      /\ NoStore
  BY DEF size_in_root, Start
<1>2. Descriptors' = Descriptors
  BY <1>1, SameDescriptors DEF Return, NoStore
<1>3. Len(path) \in Nat
  BY <1>1, PathOfCall
<1>4. \/ Resolve(path) = {} /\ v \in {-1, 0}
      \/ \E x \in Items : Resolve(path) = {x} /\ v = x.entry.size
  <2>1. CASE ~to_short_filename(path)
    <3> DEFINE n == Len(path)
    <3>1. n \in Nat /\ n <= 1 /\ (n = 1 => path[1] \notin ValidNames)
      BY <1>1, <1>3, <2>1 DEF is_in_root, to_short_filename
    <3> HIDE DEF n
    <3>2. n = 0 \/ (n = 1 /\ 1 \in 1 .. n)
      BY <3>1
    <3>3. Resolve(path) = {}
      BY <1>3, <3>1, <3>2, ResolveNothing DEF n
    <3> QED
      BY <2>1, <3>3
  <2>2. CASE to_short_filename(path) /\ ~(index >= 0)
    <3>1. index < 0
      BY <2>2, RootIndex
    <3>2. Resolve(path) = {}
      BY <2>2, RootPath DEF to_short_filename
    <3> QED
      BY <3>1, <3>2
  <2>3. CASE to_short_filename(path) /\ index >= 0
    <3>1. ~(index < 0)
      BY <2>3, RootIndex
    <3> DEFINE x == [pos |-> move_to_root_directory_region(index), entry |-> RootEntry(path[1])]
    <3>2. Resolve(path) = {x} /\ x \in Items
      BY <2>3, RootPath DEF to_short_filename
    <3>3. v = x.entry.size
      BY <2>3, <3>1
    <3> QED
      BY <3>2, <3>3
  <2> QED
    BY <2>1, <2>2, <2>3
<1> HIDE DEF v
<1> QED
  BY <1>1, <1>2, <1>4, SizeStep

LEMMA SubdirSizeStep ==
  ASSUME DriverInv, ServiceInv, subdir_entry_size
  PROVE  Implemented!Next
<1> DEFINE v == IF loc.entry.status = "used" THEN loc.entry.size ELSE 0
<1>1. pc = "found" /\ loc.goal = "size" /\ Store(loc.slot, NoHandle) /\ Return(v) /\ data' = data
  BY DEF subdir_entry_size
<1>2. call.op = "size"
  BY <1>1 DEF ServiceInv, LookedUp, Purpose, DriverInv, CallInv, CallOfScan
<1>3. \/ loc.slot \in Slots /\ handles[loc.slot].mode = "none"
      \/ loc.slot = INVALID_HANDLE
  BY <1>1 DEF DriverInv, CallInv, SlotStillFree
<1>4. Descriptors' = Descriptors
  <2>1. pc' # "read"
    BY <1>1 DEF Return
  <2> QED
    BY <1>1, <1>3, <2>1, StoreNothing
<1>5. ASSUME Len(call.path) <= 2
      PROVE  \/ Resolve(call.path) = {} /\ v \in {-1, 0}
             \/ \E x \in Items : Resolve(call.path) = {x} /\ v = x.entry.size
  <2> DEFINE x == [pos |-> loc.pos, entry |-> loc.entry]
  <2>1. Resolve(call.path) = IF loc.entry.status = "used" THEN {x} ELSE {}
    BY <1>1, <1>5 DEF ServiceInv, FoundNamed, Shallow
  <2>2. loc.entry.status = "used" => x \in Items
    BY <1>1 DEF DriverInv, CallInv, FoundItem, FoundIn
  <2>3. CASE loc.entry.status = "used"
    BY <2>1, <2>2, <2>3
  <2>4. CASE loc.entry.status # "used"
    BY <2>1, <2>4
  <2> QED
    BY <2>3, <2>4
<1> HIDE DEF v
<1> QED
  BY <1>1, <1>2, <1>4, <1>5, SizeStep

\* What a path lists: the entries of its directory up to the end mark.
LEMMA ListingOfEntries ==
  ASSUME NEW path \in Paths, NEW entries \in Seq(DirEntries),
         \/ path = << >> /\ entries = Root
         \/ /\ path # << >>
            /\ \E x \in Items : /\ Resolve(path) = {x} /\ Listable(x)
                                /\ entries = SubdirEntries(x.entry.cluster)
  PROVE  /\ path \in DOMAIN ListingOf
         /\ Len(ListingOf[path]) = Len(Live(entries))
         /\ \A i \in 1 .. Len(Live(entries)) : ListingOf[path][i] = entries[i].name
<1> DEFINE listed == Live(entries)
           n == Len(listed)
           names == [i \in 1 .. n |-> listed[i].name]
<1>1. EntriesOf(path) = listed
  <2>1. CASE path = << >>
    BY <2>1 DEF EntriesOf
  <2>2. CASE path # << >>
    <3>1. PICK x \in Items : Resolve(path) = {x} /\ entries = SubdirEntries(x.entry.cluster)
      BY <2>2
    <3>2. (CHOOSE y \in Resolve(path) : TRUE) = x
      BY <3>1
    <3> QED
      BY <2>2, <3>1, <3>2 DEF EntriesOf
  <2> QED
    BY <2>1, <2>2
<1>2. path \in {p \in Paths : p = << >> \/ \E x \in Resolve(p) : Listable(x)}
  OBVIOUS
<1>3. path \in DOMAIN ListingOf /\ ListingOf[path] = names
  BY <1>1, <1>2 DEF ListingOf
<1>4. /\ n \in Nat
      /\ \A i \in 1 .. n : listed[i] = entries[i]
  BY LiveEntries
<1>5. Len(names) = n
  <2>1. names \in [1 .. n -> {listed[i].name : i \in 1 .. n}]
    OBVIOUS
  <2> HIDE DEF names, n
  <2> QED
    BY <1>4, <2>1, SequenceOfLength
<1>6. \A i \in 1 .. n : names[i] = listed[i].name
  OBVIOUS
<1> HIDE DEF names, listed
<1> QED
  BY <1>3, <1>4, <1>5, <1>6 DEF listed

LEMMA NoListing ==
  ASSUME NEW path, path # << >>, \A x \in Resolve(path) : ~Listable(x)
  PROVE  path \notin DOMAIN ListingOf
BY DEF ListingOf

LEMMA ListStep ==
  ASSUME call.op = "ls", call' = NoCall, Descriptors' = Descriptors,
         (call.path \in DOMAIN ListingOf /\ ~(Len(call.path) > 2)) =>
           IF call.index < Len(ListingOf[call.path])
             THEN ret' = 1 /\ data' = <<ListingOf[call.path][call.index + 1]>>
             ELSE call.index = Len(ListingOf[call.path]) => ret' \in {-1, 0} /\ data' = data
  PROVE  Implemented!Next
<1>1. Implemented!List
  BY DEF Implemented!List, Implemented!Serving, Implemented!Deep, NoCall, Implemented!NoCall
<1> QED
  BY <1>1 DEF Implemented!Next

\* A listing that fails says so where FileTable lets it.
LEMMA ListFailsStep ==
  ASSUME DriverInv, pc \notin {"idle", "read"}, call.op = "ls", call.path # << >>,
         Return(-1), NoStore,
         Len(call.path) <= 2 => \A x \in Resolve(call.path) : ~IsDir(x)
  PROVE  Implemented!Next
<1>1. Descriptors' = Descriptors /\ call' = NoCall
  BY SameDescriptors DEF Return, NoStore
<1>2. Len(call.path) \in Nat
  BY PathOfCall
<1>3. ~(call.path \in DOMAIN ListingOf /\ ~(Len(call.path) > 2))
  BY <1>2, NoListing DEF Listable
<1> QED
  BY <1>1, <1>3, ListStep

\* The entry at the index is listed, or the directory is over before it.
LEMMA EntryListed ==
  ASSUME NEW entries \in Seq(DirEntries), NEW n \in Nat,
         \/ n < Len(entries) /\ Listed(entries[n + 1])
         \/ n >= Len(entries) /\ (Return(-1) \/ Return(0)) /\ data' = data
  PROVE  /\ call' = NoCall /\ pc' = "idle"
         /\ IF n < Len(Live(entries)) THEN ret' = 1 /\ data' = <<entries[n + 1].name>>
            ELSE n = Len(Live(entries)) => ret' \in {-1, 0} /\ data' = data
<1> DEFINE m == Len(Live(entries))
           all == Len(entries)
<1>1. /\ all \in Nat /\ m \in 0 .. all
      /\ \A i \in 1 .. m : entries[i].status # "end"
      /\ m < all => entries[m + 1].status = "end"
  BY LiveEntries, LenProperties
<1> HIDE DEF m, all
<1>2. call' = NoCall /\ pc' = "idle"
  BY DEF Listed, Return
<1>3. CASE n < all /\ Listed(entries[n + 1])
  <2>1. CASE n < m
    <3>1. n + 1 \in 1 .. m
      BY <1>1, <2>1
    <3>2. ret' = 1 /\ data' = <<entries[n + 1].name>>
      BY <1>1, <1>3, <3>1 DEF Listed, Return
    <3> QED
      BY <1>2, <2>1, <3>2 DEF m
  <2>2. CASE n = m
    <3>1. ret' = 0 /\ data' = data
      BY <1>1, <1>3, <2>2 DEF Listed, Return
    <3>2. ~(n < m)
      BY <1>1, <2>2
    <3> QED
      BY <1>2, <3>1, <3>2 DEF m
  <2>3. CASE ~(n < m) /\ n # m
    BY <1>2, <2>3 DEF m
  <2> QED
    BY <2>1, <2>2, <2>3
<1>4. CASE n >= all /\ (Return(-1) \/ Return(0)) /\ data' = data
  <2>1. ~(n < m)
    BY <1>1, <1>4
  <2>2. ret' \in {-1, 0} /\ data' = data
    BY <1>4 DEF Return
  <2> QED
    BY <1>2, <2>1, <2>2 DEF m
<1> QED
  BY <1>3, <1>4 DEF all

\* A listing that reaches its end.
LEMMA DirectoryListedStep ==
  ASSUME DriverInv, pc \notin {"idle", "read"}, call.op = "ls", NoStore,
         NEW entries \in Seq(DirEntries),
         \/ call.path = << >> /\ entries = Root
         \/ /\ call.path # << >>
            /\ \E x \in Items : /\ Resolve(call.path) = {x} /\ Listable(x)
                                /\ entries = SubdirEntries(x.entry.cluster),
         call' = NoCall, pc' = "idle",
         IF call.index < Len(Live(entries)) THEN ret' = 1 /\ data' = <<entries[call.index + 1].name>>
         ELSE call.index = Len(Live(entries)) => ret' \in {-1, 0} /\ data' = data
  PROVE  Implemented!Next
<1> DEFINE n == call.index
           m == Len(Live(entries))
<1>1. call.path \in Paths /\ n \in Nat
  BY PathOfCall
<1>2. Descriptors' = Descriptors
  BY SameDescriptors DEF NoStore
<1>3. /\ Len(ListingOf[call.path]) = m
      /\ \A i \in 1 .. m : ListingOf[call.path][i] = entries[i].name
  BY <1>1, ListingOfEntries
<1>4. m \in Nat
  BY LiveEntries
<1>5. n < m => ListingOf[call.path][n + 1] = entries[n + 1].name
  <2> SUFFICES ASSUME n < m PROVE n + 1 \in 1 .. m
    BY <1>3
  <2> HIDE DEF n, m
  <2> QED
    BY <1>1, <1>4
<1> QED
  BY <1>2, <1>3, <1>5, ListStep

LEMMA ListInRootStep ==
  ASSUME DriverInv, ls_in_root
  PROVE  Implemented!Next
<1>1. pc = "start" /\ call.op = "ls" /\ call.path = << >> /\ NoStore
  BY DEF ls_in_root, Start
<1>2. call.index \in Nat
  BY <1>1, PathOfCall
<1>3. Root \in Seq(DirEntries) /\ Len(Root) \in Nat
  BY Fat16Assumption, VolumeTypes
<1>4. \/ call.index < Len(Root) /\ Listed(Root[call.index + 1])
      \/ call.index >= Len(Root) /\ (Return(-1) \/ Return(0)) /\ data' = data
  <2> DEFINE n == call.index
             m == Len(Root)
  <2>1. \/ n = m /\ Return(0) /\ data' = data
        \/ n > m /\ Return(-1) /\ data' = data
        \/ n < m /\ Listed(Root[n + 1])
    BY DEF ls_in_root
  <2>2. n \in Nat /\ m \in Nat
    BY <1>2, <1>3
  <2> HIDE DEF n, m
  <2>3. (n = m => n >= m) /\ (n > m => n >= m)
    BY <2>2
  <2>4. (n < m /\ Listed(Root[n + 1])) \/ (n >= m /\ (Return(-1) \/ Return(0)) /\ data' = data)
    BY <2>1, <2>3
  <2> QED
    BY <2>4 DEF n, m
<1>5. /\ call' = NoCall /\ pc' = "idle"
      /\ IF call.index < Len(Live(Root)) THEN ret' = 1 /\ data' = <<Root[call.index + 1].name>>
         ELSE call.index = Len(Live(Root)) => ret' \in {-1, 0} /\ data' = data
  BY ONLY <1>2, <1>3, <1>4, EntryListed
<1> QED
  BY <1>1, <1>3, <1>5, DirectoryListedStep

\* A volume label is no directory.
LEMMA RefusedDirectory ==
  ASSUME NEW x, ~Accepts(x.entry, "r", FALSE)
  PROVE  ~IsDir(x)
BY DEF Accepts, IsDir

LEMMA ListDirOfRootStep ==
  ASSUME DriverInv, ls_dir_of_root
  PROVE  [Implemented!Next]_(Implemented!fvars)
<1> DEFINE path == call.path
<1>1. pc = "start" /\ call.op = "ls" /\ Len(path) = 1 /\ NoStore
  BY DEF ls_dir_of_root, Start
<1>2. path # << >>
  BY <1>1, PathOfCall
<1>3. CASE \E h, l : Continue("ls", h, l)
  BY <1>1, <1>3, ContinueStutters
<1>4. CASE ~(to_short_filename(path) /\ DirInRoot(path[1])) /\ Return(-1)
  <2>1. \A x \in Resolve(path) : ~IsDir(x)
    <3>1. CASE ~to_short_filename(path)
      <4>1. 1 \in 1 .. Len(path) /\ path[1] \notin ValidNames
        BY <1>1, <3>1 DEF to_short_filename
      <4>2. Resolve(path) = {}
        BY <1>1, <4>1, ResolveNothing
      <4> QED
        BY <4>2
    <3>2. CASE to_short_filename(path) /\ ~(find_root_directory_entry(path[1]) >= 0)
      <4>1. Resolve(path) = {}
        BY <3>2, RootPath DEF to_short_filename
      <4> QED
        BY <4>1
    <3>3. CASE /\ to_short_filename(path) /\ find_root_directory_entry(path[1]) >= 0
               /\ ~Accepts(RootEntry(path[1]), "r", FALSE)
      <4> DEFINE x == [pos |-> move_to_root_directory_region(find_root_directory_entry(path[1])),
                       entry |-> RootEntry(path[1])]
      <4>1. Resolve(path) = {x}
        BY <3>3, RootPath DEF to_short_filename
      <4>2. ~IsDir(x)
        BY <3>3, RefusedDirectory
      <4> QED
        BY <4>1, <4>2
    <3> QED
      BY <1>4, <3>1, <3>2, <3>3 DEF DirInRoot
  <2>2. Implemented!Next
    BY <1>1, <1>2, <1>4, <2>1, ListFailsStep
  <2> QED
    BY <2>2
<1> QED
  BY <1>3, <1>4 DEF ls_dir_of_root

LEMMA ListDirOfSubdirStep ==
  ASSUME DriverInv, ServiceInv, ls_dir_of_subdir
  PROVE  [Implemented!Next]_(Implemented!fvars)
<1> DEFINE x == [pos |-> loc.pos, entry |-> loc.entry]
<1>1. pc = "found" /\ loc.goal = "dir" /\ NoStore
  BY DEF ls_dir_of_subdir
<1>2. call.op = "ls"
  BY <1>1 DEF ServiceInv, LookedUp, Purpose, DriverInv, CallInv, CallOfScan
<1>3. CASE \E h, l : Continue("ls", h, l)
  BY <1>1, <1>3, ContinueStutters
<1>4. CASE ~(loc.entry.status = "used" /\ Accepts(loc.entry, "r", FALSE)) /\ Return(-1)
  <2>1. call.path # << >>
    <3>1. Shallow => Len(call.path) = 2
      BY <1>1 DEF ServiceInv, LookedUp
    <3>2. Len(call.path) \in Nat /\ (call.path = << >> => Len(call.path) = 0)
      BY <1>1, <1>2, PathOfCall
    <3> QED
      BY <3>1, <3>2 DEF Shallow
  <2>2. ASSUME Len(call.path) <= 2, NEW y \in Resolve(call.path) PROVE ~IsDir(y)
    <3>1. loc.entry.status = "used" /\ y = x
      BY <1>1, <2>2 DEF ServiceInv, FoundNamed, Shallow
    <3>2. ~Accepts(y.entry, "r", FALSE)
      BY <1>4, <3>1
    <3> QED
      BY <3>2, RefusedDirectory
  <2>3. Implemented!Next
    BY <1>1, <1>2, <1>4, <2>1, <2>2, ListFailsStep
  <2> QED
    BY <2>3
<1> QED
  BY <1>3, <1>4 DEF ls_dir_of_subdir

LEMMA ListTakeStep ==
  ASSUME DriverInv, ServiceInv, ls_take
  PROVE  Implemented!Next
<1> DEFINE n == call.index
<1>1. pc = "ls" /\ NoStore
  BY DEF ls_take
<1>2. call.op = "ls" /\ call.path # << >>
  BY <1>1 DEF ServiceInv, ListingAt
<1>3. /\ Len(call.path) \in Nat /\ n \in Nat
  BY <1>1, <1>2, PathOfCall
<1>4. call' = NoCall /\ pc' = "idle"
  BY DEF ls_take, Listed, Return
<1>5. CASE Len(call.path) > 2
  <2>1. Descriptors' = Descriptors
    BY <1>1, <1>4, SameDescriptors DEF NoStore
  <2> QED
    BY <1>2, <1>4, <1>5, <2>1, ListStep
<1>6. CASE ~(Len(call.path) > 2)
  <2>1. PICK x \in Items : Resolve(call.path) = {x} /\ (Listable(x) => ListAt(x.entry.cluster))
    BY <1>1, <1>3, <1>6 DEF ServiceInv, ListingAt, Shallow
  <2>2. CASE ~Listable(x)
    <3>1. call.path \notin DOMAIN ListingOf
      BY <1>2, <2>1, <2>2, NoListing
    <3>2. Descriptors' = Descriptors
      BY <1>1, <1>4, SameDescriptors DEF NoStore
    <3> QED
      BY <1>2, <1>4, <3>1, <3>2, ListStep
  <2>3. CASE Listable(x)
    <3> DEFINE c == x.entry.cluster
               entries == SubdirEntries(c)
    <3>1. /\ entries \in Seq(DirEntries)
          /\ IF n < Len(Live(entries)) THEN ret' = 1 /\ data' = <<entries[n + 1].name>>
             ELSE n = Len(Live(entries)) => ret' \in {-1, 0} /\ data' = data
      <4>1. DirAt(x, c)
        BY <2>3, DirectoryAt DEF Listable
      <4>2. /\ entries \in Seq(DirEntries) /\ Linked(c)
            /\ Len(entries) = Len(Chain[c]) * ClusterBytes
        BY <4>1, DirAtFacts
      <4>3. dh \in EntryHandles /\ loc.left \in Nat
        BY <2>1, <2>3 DEF ListAt
      <4>4. PICK j \in 1 .. Len(Chain[c]) :
              /\ dh.cluster = Chain[c][j] /\ dh.offset \in 0 .. ClusterBytes
              /\ (j - 1) * ClusterBytes + dh.offset + loc.left = n
        BY <2>1, <2>3 DEF ListAt
      <4>5. ClusterBytes \in Nat \ {0}
        BY VolumeTypes
      <4>6. /\ Len(Chain[c]) \in Nat \ {0}
            /\ (Fat[Chain[c][j]] >= EOC) = (j = Len(Chain[c]))
        BY <4>2, ChainLinks
      <4>7. CASE NoMoreEntries(dh) /\ Return(-1) /\ data' = data
        <5>1. dh.offset = ClusterBytes /\ j = Len(Chain[c])
          BY <4>4, <4>6, <4>7 DEF NoMoreEntries, AtClusterEnd, get_next_cluster
        <5> DEFINE m == Len(Chain[c])
                   p == (m - 1) * ClusterBytes
        <5>2. m * ClusterBytes = p + ClusterBytes /\ p \in Int
          BY <4>5, <4>6
        <5>3. p + ClusterBytes + loc.left = n
          BY <4>4, <5>1
        <5> HIDE DEF p
        <5>4. n >= p + ClusterBytes
          BY <1>3, <4>3, <4>5, <5>2, <5>3
        <5>5. n >= Len(entries)
          BY <4>2, <5>2, <5>4
        <5> QED
          BY <1>3, <4>2, <4>7, <5>5, EntryListed
      <4>8. CASE ~NoMoreEntries(dh) /\ loc.left = 0 /\ Listed(ReadEntry(dh))
        <5>1. PICK k \in 1 .. Len(Chain[c]), o \in 0 .. ClusterBytes - 1 :
                /\ (k - 1) * ClusterBytes + o = (j - 1) * ClusterBytes + dh.offset
                /\ ReadEntry(dh) = SubdirEntries(c)[(k - 1) * ClusterBytes + o + 1]
          BY <4>1, <4>3, <4>4, <4>8, EntryReads
        <5> DEFINE p == (k - 1) * ClusterBytes
                   q == (j - 1) * ClusterBytes
        <5>2. p \in Int /\ q \in Int /\ p + o + 1 <= Len(Chain[c]) * ClusterBytes
          BY <4>5, <4>6, Cell
        <5>3. n = p + o
          <6>1. p + o = q + dh.offset /\ q + dh.offset + loc.left = n /\ loc.left = 0
            BY <4>4, <4>8, <5>1
          <6>2. dh.offset \in Int
            BY <4>3 DEF EntryHandles
          <6> HIDE DEF p, q, n
          <6> QED
            BY <5>2, <6>1, <6>2
        <5>4. ReadEntry(dh) = entries[n + 1]
          BY <5>1, <5>3
        <5>5. n < Len(entries)
          <6> DEFINE r == Len(Chain[c]) * ClusterBytes
          <6>1. r \in Int
            <7> DEFINE u == Len(Chain[c])
            <7>1. u \in Int /\ ClusterBytes \in Int
              BY <4>5, <4>6
            <7> HIDE DEF u
            <7>2. u * ClusterBytes \in Int
              BY <7>1
            <7> QED
              BY <7>2 DEF u
          <6>2. p + o + 1 <= r
            BY <5>2
          <6> HIDE DEF p, r, n
          <6>3. n < r
            BY <5>2, <5>3, <6>1, <6>2
          <6> QED
            BY <4>2, <6>3 DEF r
        <5>6. Listed(entries[n + 1])
          BY <4>8, <5>4
        <5> QED
          BY <1>3, <4>2, <5>5, <5>6, EntryListed
      <4> QED
        BY <4>7, <4>8 DEF ls_take
    <3> QED
      BY <1>1, <1>2, <1>4, <2>1, <2>3, <3>1, DirectoryListedStep
  <2> QED
    BY <2>2, <2>3
<1> QED
  BY <1>5, <1>6

LEMMA NavigateStep ==
  ASSUME DriverInv, navigate_to_subdir
  PROVE  [Implemented!Next]_(Implemented!fvars)
<1> DEFINE path == call.path
<1>1. pc = "start" /\ call.op \in {"open", "size", "ls"} /\ ~is_in_root(path) /\ NoStore
  BY DEF navigate_to_subdir
<1>2. path \in Seq(STRING) /\ Len(path) \in Nat /\ path \in Paths
      /\ (path = << >> <=> Len(path) = 0)
  BY <1>1, PathOfCall
<1>3. CASE \E h, l : Continue("find", h, l)
  BY <1>1, <1>3, ContinueStutters
<1>4. CASE ~Navigable(path) /\ Return(-1) /\ data' = data
  <2>1. Descriptors' = Descriptors
    BY <1>1, <1>4, SameDescriptors DEF Return, NoStore
  <2>2. path # << >>
    BY <1>1, <1>2 DEF is_in_root
  <2>3. ASSUME Len(path) <= 2 PROVE Resolve(path) = {}
    <3>1. Len(path) = 2
      <4> DEFINE n == Len(path)
      <4>1. n \in Nat /\ ~(n <= 1) /\ n <= 2
        BY <1>1, <1>2, <2>3 DEF is_in_root
      <4> HIDE DEF n
      <4>2. n = 2
        BY <4>1
      <4> QED
        BY <4>2 DEF n
    <3> QED
      BY <1>2, <1>4, <3>1, NotNavigable
  <2>4. Implemented!Next
    <3>1. CASE call.op = "open"
      <4>1. ~Implemented!MayOpen(LookupOf[path], call.mode) \/ Len(path) > 2
        BY <1>2, <2>3, NothingToOpen
      <4> QED
        BY <1>4, <2>1, <3>1, <4>1, RefuseStep
    <3>2. CASE call.op = "size"
      BY <1>1, <1>4, <2>1, <2>3, <3>2, SizeStep
    <3>3. CASE call.op = "ls"
      BY <1>1, <1>4, <2>2, <2>3, <3>3, ListFailsStep
    <3> QED
      BY <1>1, <3>1, <3>2, <3>3
  <2> QED
    BY <2>4
<1> QED
  BY <1>3, <1>4 DEF navigate_to_subdir, Find

----------------------------------------------------------------------------
(* fat16_close and fat16_read.                                             *)

\* The bytes of a file are the first ones of its clusters.
LEMMA ContentFacts ==
  ASSUME NEW x \in RegularItems
  PROVE  /\ Len(ContentOf[x.pos]) = x.entry.size
         /\ \A i \in 1 .. x.entry.size : ContentOf[x.pos][i] = Extent[x.entry.cluster][i]
<1> DEFINE s == Extent[x.entry.cluster]
           n == x.entry.size
           S == {s[i] : i \in 1 .. n}
<1>1. x \in Items /\ n \in Nat /\ x.pos \in Regular
  BY RegularFacts DEF Regular
<1>2. EntryOf[x.pos] = x.entry
  BY <1>1, PositionFacts
<1>3. ContentOf[x.pos] = SubSeq(s, 1, n)
  BY <1>1, <1>2 DEF ContentOf
<1>4. 1 \in Int /\ n \in Int /\ \A i \in 1 .. n : s[i] \in S
  BY <1>1
<1> HIDE DEF s, n, S
<1>5. /\ Len(SubSeq(s, 1, n)) = IF 1 <= n THEN n - 1 + 1 ELSE 0
      /\ \A i \in 1 .. n - 1 + 1 : SubSeq(s, 1, n)[i] = s[1 + i - 1]
  BY <1>4, SubSeqProperties
<1>6. Len(SubSeq(s, 1, n)) = n
  BY <1>1, <1>5
<1>7. \A i \in 1 .. n : SubSeq(s, 1, n)[i] = s[i]
  <2> TAKE i \in 1 .. n
  <2>1. i \in 1 .. n - 1 + 1 /\ 1 + i - 1 = i
    BY <1>1
  <2> QED
    BY <1>5, <2>1
<1> QED
  BY <1>3, <1>6, <1>7 DEF s, n

\* Reading or closing a descriptor that is not open.
LEMMA BadSlotStep ==
  ASSUME pc # "read", call.op \in {"read", "close"}, ~check_handle(call.slot), Return(-1), NoStore,
         data' = data
  PROVE  Implemented!Next
<1>1. ~Implemented!InUse(call.slot)
  BY DescriptorFacts DEF check_handle, Implemented!InUse
<1>2. Descriptors' = Descriptors /\ call' = NoCall /\ ret' = -1
  BY SameDescriptors DEF Return, NoStore
<1>3. Implemented!BadSlot
  BY <1>1, <1>2 DEF Implemented!BadSlot, Implemented!Serving, NoCall, Implemented!NoCall
<1> QED
  BY <1>3 DEF Implemented!Next

LEMMA CloseStep ==
  ASSUME fat16_close
  PROVE  Implemented!Next
<1>1. pc = "start" /\ call.op = "close" /\ data' = data
  BY DEF fat16_close, Start
<1>2. CASE ~check_handle(call.slot) /\ Return(-1) /\ NoStore
  BY <1>1, <1>2, BadSlotStep
<1>3. CASE check_handle(call.slot) /\ Return(0) /\ Store(call.slot, NoHandle)
  <2>1. call.slot \in Slots /\ Implemented!InUse(call.slot)
    BY <1>3, DescriptorFacts DEF check_handle
  <2>2. pc' = "idle" /\ call' = NoCall /\ ret' = 0
    BY <1>3 DEF Return
  <2>3. PICK s \in Slots : s = call.slot
    BY <2>1
  <2>4. Descriptors' = [Descriptors EXCEPT ![s] = Implemented!Closed]
    <3>1. handles'[s] = NoHandle
      BY <1>3, <2>3 DEF Store
    <3>2. FdOf(s)' = Implemented!Closed
      BY <3>1, NoHandleTypes DEF FdOf, Implemented!Closed
    <3> QED
      BY <1>1, <1>3, <2>2, <2>3, <3>2, StoreOne
  <2>5. Implemented!Close
    BY <1>1, <2>1, <2>2, <2>3, <2>4 DEF Implemented!Close, Implemented!Serving, NoCall, Implemented!NoCall
  <2> QED
    BY <2>5 DEF Implemented!Next
<1> QED
  BY <1>2, <1>3 DEF fat16_close

\* What the read loop has put into the buffer has not happened yet for a caller.
LEMMA ReadingDescriptor ==
  ASSUME pc = "read", NEW s \in Slots, NEW h, handles[s] = h, h.mode = "r", call.slot = s
  PROVE  FdOf(s) = [file |-> h.pos_entry, mode |-> "r",
                    pos |-> SizeTable[h.pos_entry] - h.remaining_bytes - Len(buf)]
BY DEF FdOf, Delivered

\* The other descriptors do not depend on the read.
LEMMA OtherDescriptors ==
  ASSUME NEW s \in Slots, call.slot = s, NEW t \in Slots, t # s, handles'[t] = handles[t],
         pc' = "read" => call'.slot = s, handles \in [Slots -> EntryHandles]
  PROVE  FdOf(t)' = FdOf(t)
BY DEF FdOf, Delivered

LEMMA ReadBeginsStep ==
  ASSUME DriverInv, ServiceInv, fat16_read
  PROVE  [Implemented!Next]_(Implemented!fvars)
<1>1. pc = "start" /\ call.op = "read" /\ NoStore
  BY DEF fat16_read, Start
<1>2. CASE ~check_handle(call.slot) /\ Return(-1) /\ data' = data
  <2>1. Implemented!Next
    BY <1>1, <1>2, BadSlotStep
  <2> QED
    BY <2>1
<1>3. ASSUME check_handle(call.slot) PROVE [Implemented!Next]_(Implemented!fvars)
  <2>1. PICK s \in Slots : s = call.slot
    BY <1>3 DEF check_handle
  <2>2. PICK h : h = handles[s]
    OBVIOUS
  <2>3. h.mode # "none"
    BY <1>3, <2>1, <2>2 DEF check_handle
  <2>4. PICK x \in RegularItems :
          /\ OnFile(h, x) /\ h \in EntryHandles
          /\ h.pos_entry = x.pos
          /\ SizeTable[x.pos] = x.entry.size /\ x.entry.size \in Nat
    BY <2>2, <2>3, HandleFile
  <2>5. h.remaining_bytes \in Nat
    BY <2>4 DEF EntryHandles
  <2>6. buf = << >> /\ Len(buf) = 0
    BY <1>1, EmptySeq DEF ServiceInv, NothingPending
  <2>7. call.count \in Nat
    BY <1>1, Fat16Assumption DEF DriverInv, CallInv, CallTypes
  <2>8. CASE h.remaining_bytes # 0 /\ pc' = "read" /\ UNCHANGED <<call, dh, buf, ret, data>>
    <3>1. h.mode = "r"
      BY <2>4, <2>8 DEF OnFile
    <3>2. FdOf(s)' = FdOf(s)
      <4>1. pc' = "read" /\ handles'[s] = h /\ call'.slot = s /\ Len(buf') = 0
        BY <1>1, <2>1, <2>2, <2>6, <2>8 DEF NoStore
      <4>2. Delivered(s)' = SizeTable[x.pos] - h.remaining_bytes - 0
        BY <2>4, <4>1 DEF Delivered
      <4>3. Delivered(s) = SizeTable[x.pos] - h.remaining_bytes - 0
        BY <1>1, <2>2, <2>4 DEF Delivered
      <4> QED
        BY <2>2, <4>1, <4>2, <4>3 DEF FdOf
    <3>3. ASSUME NEW t \in Slots, t # s PROVE FdOf(t)' = FdOf(t)
      BY <1>1, <2>1, <2>8, <3>3, OtherDescriptors DEF NoStore, DriverInv, TableInv
    <3>4. Descriptors' = Descriptors
      BY <3>2, <3>3 DEF Descriptors
    <3> QED
      BY <2>8, <3>4, Stutter
  <2>9. CASE (h.remaining_bytes = 0 \/ h.cluster = 0) /\ Return(0) /\ data' = << >>
    <3>1. h.remaining_bytes = 0
      <4>1. SUFFICES ASSUME h.remaining_bytes # 0 PROVE h.cluster # 0
        BY <2>9
      <4>2. h.mode = "r" /\ h.remaining_bytes > 0
        BY <2>4, <2>5, <4>1 DEF OnFile
      <4> QED
        BY <2>4, <4>2, ReaderFacts
    <3>2. pc' = "idle" /\ call' = NoCall /\ ret' = 0
      BY <2>9 DEF Return
    <3>3. Descriptors' = Descriptors
      BY <1>1, <3>2, SameDescriptors DEF NoStore
    <3> DEFINE d == Descriptors[s]
    <3>4. /\ Implemented!InUse(s) /\ d.mode = h.mode /\ d.file = x.pos /\ d = FdOf(s)
      BY <2>2, <2>3, <2>4, DescriptorFacts
    <3>5. d.pos = IF h.mode = "r" THEN x.entry.size ELSE 0
      <4>1. Delivered(s) = x.entry.size
        <5>1. Delivered(s) = SizeTable[x.pos] - h.remaining_bytes
          BY <1>1, <2>2, <2>3, <2>4, DeliveredIdle
        <5> QED
          BY <2>4, <3>1, <5>1
      <4> QED
        BY <2>2, <2>3, <3>4, <4>1 DEF FdOf
    <3>6. d.pos \in Nat
      BY <2>4, <3>5
    <3>7. Implemented!Available(s) = 0
      <4>1. Len(ContentOf[x.pos]) = x.entry.size
        BY ContentFacts
      <4> HIDE DEF d
      <4>2. Implemented!Available(s) = IF d.mode = "r" THEN Len(ContentOf[d.file]) - d.pos ELSE 0
        BY DEF Implemented!Available, d
      <4> QED
        BY <2>4, <3>4, <3>5, <4>1, <4>2
    <3>8. Implemented!Least(call.count, Implemented!Available(s)) = 0
      BY <2>7, <3>7 DEF Implemented!Least
    <3>9. SubSeq(ContentOf[d.file], d.pos + 1, d.pos + 0) = << >>
      <4> HIDE DEF d
      <4>1. d.pos + 1 \in Int /\ d.pos + 0 \in Int /\ d.pos + 0 < d.pos + 1
        BY <3>6
      <4> QED
        BY <4>1, SubSeqEmpty
    <3>10. [Descriptors EXCEPT ![s].pos = @ + 0] = Descriptors
      <4>1. d.pos + 0 = d.pos
        BY <3>6
      <4>2. [d EXCEPT !.pos = d.pos] = d
        BY <2>2, <2>3, <3>4 DEF FdOf
      <4>3. [Descriptors EXCEPT ![s] = d] = Descriptors
        BY DEF Descriptors
      <4> QED
        BY <4>1, <4>2, <4>3
    <3>11. Implemented!Serving("read")
      BY <1>1, <3>2 DEF Implemented!Serving, NoCall, Implemented!NoCall
    <3>12. Implemented!Read
      BY <2>1, <2>9, <3>2, <3>3, <3>4, <3>8, <3>9, <3>10, <3>11 DEF Implemented!Read
    <3> QED
      BY <3>12 DEF Implemented!Next
  <2> QED
    BY <1>3, <2>1, <2>2, <2>8, <2>9 DEF fat16_read
<1> QED
  BY <1>2, <1>3 DEF fat16_read

LEMMA ReadFromHandleStep ==
  ASSUME DriverInv, ServiceInv, read_from_handle
  PROVE  UNCHANGED Implemented!fvars
<1>1. pc = "read" /\ pc' = "read" /\ call' = call /\ ret' = ret /\ data' = data
  BY DEF read_from_handle
<1>2. PICK s, h : s = call.slot /\ h = handles[s]
  OBVIOUS
<1>3. PICK x \in RegularItems, chunk \in Nat, g \in EntryHandles :
        /\ s \in Slots /\ h \in EntryHandles /\ h.mode = "r" /\ OnFile(h, x)
        /\ handles' = [handles EXCEPT ![s] = g]
        /\ g.mode = h.mode /\ g.pos_entry = h.pos_entry
        /\ g.remaining_bytes = h.remaining_bytes - chunk
        /\ buf' = buf \o [i \in 1 .. chunk |-> disk_pointer + i - 1]
  BY <1>2, ReadChunk
<1>4. handles \in [Slots -> EntryHandles]
  BY DEF DriverInv, TableInv
<1>5. handles'[s] = g /\ call'.slot = s
  BY <1>1, <1>2, <1>3, <1>4
<1>6. Len(buf') = Len(buf) + chunk /\ Len(buf) \in Nat
  <2> DEFINE more == [i \in 1 .. chunk |-> disk_pointer + i - 1]
             T == {disk_pointer + i - 1 : i \in 1 .. chunk}
  <2>1. buf \in Seq(Int)
    BY <1>1 DEF ServiceInv, Reading
  <2>2. more \in [1 .. chunk -> T]
    OBVIOUS
  <2>3. buf' = buf \o more
    BY <1>3
  <2> HIDE DEF more, T
  <2>4. more \in Seq(T) /\ Len(more) = chunk
    BY <2>2, SequenceOfLength
  <2>5. buf \in Seq(Int \cup T) /\ more \in Seq(Int \cup T)
    BY <2>1, <2>4, SeqMonotonic
  <2>6. Len(buf \o more) = Len(buf) + Len(more)
    BY <2>5, ConcatProperties
  <2> QED
    BY <2>1, <2>3, <2>4, <2>6, LenProperties
<1> DEFINE size == SizeTable[h.pos_entry]
           rest == h.remaining_bytes
           b == Len(buf)
<1>7. size \in Nat /\ rest \in Nat
  <2>1. \E y \in RegularItems :
          handles[s].pos_entry = y.pos /\ SizeTable[y.pos] = y.entry.size /\ y.entry.size \in Nat
    BY <1>2, <1>3, HandleFile
  <2>2. size \in Nat
    BY <1>2, <2>1
  <2> QED
    BY <1>3, <2>2 DEF EntryHandles
<1>8. FdOf(s) = [file |-> h.pos_entry, mode |-> "r", pos |-> size - rest - b]
  BY <1>1, <1>2, <1>3, ReadingDescriptor
<1>9. FdOf(s)' = [file |-> h.pos_entry, mode |-> "r", pos |-> size - (rest - chunk) - (b + chunk)]
  <2>1. g.mode = "r" /\ g.mode # "none" /\ g.pos_entry = h.pos_entry
    BY <1>3
  <2>2. Delivered(s)' = size - (rest - chunk) - (b + chunk)
    BY <1>1, <1>3, <1>5, <1>6 DEF Delivered
  <2> QED
    BY <1>5, <2>1, <2>2 DEF FdOf
<1>10. size - (rest - chunk) - (b + chunk) = size - rest - b
  <2> HIDE DEF size, rest, b
  <2> QED
    BY <1>6, <1>7 DEF b
<1>11. ASSUME NEW t \in Slots, t # s PROVE FdOf(t)' = FdOf(t)
  <2>1. handles'[t] = handles[t]
    BY <1>3, <1>4, <1>11
  <2> QED
    BY <1>2, <1>3, <1>4, <1>5, <1>11, <2>1, OtherDescriptors
<1>12. Descriptors' = Descriptors
  <2>1. FdOf(s)' = FdOf(s)
    BY <1>8, <1>9, <1>10
  <2> QED
    BY <1>11, <2>1 DEF Descriptors
<1> QED
  BY <1>1, <1>12, Stutter

LEMMA ReadReturnStep ==
  ASSUME DriverInv, ServiceInv, read_return
  PROVE  Implemented!Next
<1>1. /\ pc = "read" /\ (loc.left = 0 \/ handles[call.slot].remaining_bytes = 0)
      /\ Return(Len(buf)) /\ data' = buf /\ handles' = handles
  BY DEF read_return, NoStore
<1>2. pc' = "idle" /\ call' = NoCall /\ ret' = Len(buf)
  BY <1>1 DEF Return
<1>3. PICK s, h : s = call.slot /\ h = handles[s]
  OBVIOUS
<1>4. s \in Slots /\ h.mode # "none" /\ loc.left \in Nat
  BY <1>1, <1>3 DEF DriverInv, CallInv, ReadOpen
<1>5. PICK x \in RegularItems :
        /\ OnFile(h, x) /\ h \in EntryHandles
        /\ h.pos_entry = x.pos
        /\ SizeTable[x.pos] = x.entry.size /\ EntryOf[x.pos] = x.entry /\ x.entry.size \in Nat
  BY <1>3, <1>4, HandleFile
<1> DEFINE size == x.entry.size
           rest == h.remaining_bytes
           b == Len(buf)
           p == size - rest - b
           content == ContentOf[x.pos]
<1>6. rest \in Nat
  BY <1>5 DEF EntryHandles
<1>7. /\ call.op = "read" /\ buf \in Seq(Int) /\ loc.left = call.count - b
      /\ h.mode = "r" /\ p \in Nat
      /\ \A i \in 1 .. b : buf[i] = Extent[x.entry.cluster][p + i]
  BY <1>1, <1>3, <1>5 DEF ServiceInv, Reading, ReadSoFar
<1>8. b \in Nat /\ buf \in [1 .. b -> Int]
  BY <1>7, LenProperties
<1>9. call.count \in Nat
  BY <1>1, <1>7, Fat16Assumption DEF DriverInv, CallInv, CallTypes
<1>10. Len(content) = size /\ \A i \in 1 .. size : content[i] = Extent[x.entry.cluster][i]
  BY ContentFacts
<1>11. Descriptors[s] = [file |-> x.pos, mode |-> "r", pos |-> p] /\ Implemented!InUse(s)
  BY <1>1, <1>3, <1>4, <1>5, <1>7, ReadingDescriptor, DescriptorFacts
<1>12. Implemented!Least(call.count, Implemented!Available(s)) = b
  <2>1. Implemented!Available(s) = size - p
    BY <1>10, <1>11 DEF Implemented!Available
  <2> DEFINE left == loc.left
             count == call.count
  <2>2. (left = 0 \/ rest = 0) /\ left \in Nat /\ left = count - b /\ count \in Nat
    BY <1>1, <1>3, <1>4, <1>7, <1>9
  <2>3. size \in Nat
    BY <1>5
  <2> HIDE DEF left, count, rest, size, b
  <2>4. size - p = rest + b
    BY <1>6, <1>8, <2>3
  <2>5. (IF count < rest + b THEN count ELSE rest + b) = b
    BY <1>6, <1>8, <2>2
  <2> QED
    BY <2>1, <2>4, <2>5 DEF Implemented!Least, count
<1>13. SubSeq(content, p + 1, p + b) = buf
  <2>1. size \in Nat /\ p + b <= size
    <3> HIDE DEF rest, size, b
    <3>1. size \in Nat
      BY <1>5 DEF size
    <3> QED
      BY <1>6, <1>8, <3>1
  <2> HIDE DEF p, content, b, size
  <2>2. ASSUME NEW i \in 1 .. b PROVE content[p + i] = buf[i] /\ buf[i] \in Int
    <3>1. p + i \in 1 .. size
      BY <1>7, <1>8, <2>1
    <3> QED
      BY <1>7, <1>8, <1>10, <3>1
  <2>3. p + 1 \in Int /\ p + b \in Int
    BY <1>7, <1>8
  <2>4. \A j \in p + 1 .. p + b : content[j] \in Int
    <3> TAKE j \in p + 1 .. p + b
    <3>1. j - p \in 1 .. b /\ p + (j - p) = j
      BY <1>7, <1>8
    <3> QED
      BY <2>2, <3>1
  <2> DEFINE m == p + 1
             n == p + b
             t == SubSeq(content, m, n)
  <2>5. /\ t \in Seq(Int)
        /\ Len(t) = IF m <= n THEN n - m + 1 ELSE 0
        /\ \A i \in 1 .. n - m + 1 : t[i] = content[m + i - 1]
    <3> HIDE DEF m, n
    <3>1. m \in Int /\ n \in Int /\ \A j \in m .. n : content[j] \in Int
      BY <2>3, <2>4 DEF m, n
    <3> QED
      BY <3>1, SubSeqProperties
  <2> HIDE DEF t
  <2>6. Len(t) = b
    BY <1>7, <1>8, <2>5
  <2>7. \A i \in 1 .. b : t[i] = buf[i]
    <3> TAKE i \in 1 .. b
    <3>1. i \in 1 .. n - m + 1 /\ m + i - 1 = p + i
      BY <1>7, <1>8
    <3> QED
      BY <2>2, <2>5, <3>1
  <2>8. t = buf
    BY <1>7, <2>5, <2>6, <2>7, SeqEqual DEF b
  <2> QED
    BY <2>8 DEF t
<1>14. Descriptors' = [Descriptors EXCEPT ![s].pos = p + b]
  <2>1. p + b = size - rest
    <3> HIDE DEF rest, size, b
    <3>1. size \in Nat
      BY <1>5 DEF size
    <3> QED
      BY <1>6, <1>8, <3>1
  <2>2. FdOf(s)' = [file |-> x.pos, mode |-> "r", pos |-> p + b]
    <3>1. handles'[s] = h
      BY <1>1, <1>3
    <3>2. Delivered(s)' = size - rest - 0
      BY <1>2, <1>5, <3>1 DEF Delivered
    <3>3. size - rest - 0 = size - rest
      BY <1>5, <1>6
    <3>4. Delivered(s)' = p + b
      BY <2>1, <3>2, <3>3
    <3> QED
      BY <1>4, <1>5, <1>7, <3>1, <3>4 DEF FdOf
  <2>3. ASSUME NEW t \in Slots, t # s PROVE FdOf(t)' = FdOf(t)
    BY <1>1, <1>2, <1>3, <1>4, <2>3, OtherDescriptors DEF DriverInv, TableInv
  <2> HIDE DEF p, b
  <2>4. [Descriptors[s] EXCEPT !.pos = p + b] = [file |-> x.pos, mode |-> "r", pos |-> p + b]
    BY <1>11
  <2>5. Descriptors' = [Descriptors EXCEPT ![s] = [file |-> x.pos, mode |-> "r", pos |-> p + b]]
    BY <1>4, <2>2, <2>3 DEF Descriptors
  <2> QED
    BY <2>4, <2>5
<1>15. Implemented!Serving("read")
  BY <1>2, <1>7 DEF Implemented!Serving, NoCall, Implemented!NoCall
<1> HIDE DEF p, b
<1>16. Implemented!Read
  BY <1>1, <1>2, <1>3, <1>11, <1>12, <1>13, <1>14, <1>15 DEF Implemented!Read, b
<1> QED
  BY <1>16 DEF Implemented!Next

LEMMA InitImplements == Init => Implemented!Init
<1> SUFFICES ASSUME Init PROVE Implemented!Init
  OBVIOUS
<1>1. /\ call = NoCall /\ ret = 0 /\ data = << >> /\ handles = [s \in Slots |-> NoHandle]
  BY DEF Init
<1>2. ASSUME NEW s \in Slots PROVE FdOf(s) = Implemented!Closed
  BY <1>1, NoHandleTypes DEF FdOf, Implemented!Closed
<1>3. Descriptors = [s \in Slots |-> Implemented!Closed]
  BY <1>2 DEF Descriptors
<1> QED
  BY <1>1, <1>3 DEF Implemented!Init, NoCall, Implemented!NoCall

LEMMA StepImplements ==
  DriverInv /\ ServiceInv /\ [Next]_vars => [Implemented!Next]_(Implemented!fvars)
<1> SUFFICES ASSUME DriverInv, ServiceInv, [Next]_vars
             PROVE  [Implemented!Next]_(Implemented!fvars)
  OBVIOUS
<1>1. ASSUME NEW c \in Requests, Call(c) PROVE Implemented!Next
  <2>1. /\ pc = "idle" /\ pc' = "start" /\ call' = c /\ ret' = 0 /\ data' = << >>
        /\ handles' = handles
    BY <1>1 DEF Call
  <2>2. call = NoCall
    BY <2>1 DEF ServiceInv, NothingPending
  <2>3. Descriptors' = Descriptors
    BY <2>1, SameDescriptors
  <2>4. Implemented!Invoke(c)
    BY <2>1, <2>2, <2>3 DEF Implemented!Invoke, NoCall, Implemented!NoCall
  <2> QED
    BY <2>4 DEF Implemented!Next
<1>2. CASE navigate_to_subdir
  BY <1>2, NavigateStep
<1>3. CASE open_rejected
  BY <1>3, OpenRejectedStep
<1>4. CASE open_file_in_root
  BY <1>4, OpenFileInRootStep
<1>5. CASE open_file_in_subdir
  BY <1>5, OpenFileInSubdirStep
<1>6. CASE append_end
  BY <1>6, AppendEndStep
<1>7. CASE open_share
  BY <1>7, OpenShareStep
<1>8. CASE append_walk \/ find_next \/ find_hit \/ find_miss \/ descend \/ ls_skip
  <2>1. /\ pc # "read" /\ NoStore
        /\ \E label \in {"append", "find", "found", "ls"} : \E h, l : Continue(label, h, l)
    BY <1>8 DEF append_walk, find_next, find_hit, find_miss, descend, ls_skip, Find
  <2> QED
    BY <2>1, ContinueStutters
<1>9. CASE size_in_root
  BY <1>9, SizeInRootStep
<1>10. CASE subdir_entry_size
  BY <1>10, SubdirSizeStep
<1>11. CASE ls_in_root
  BY <1>11, ListInRootStep
<1>12. CASE ls_dir_of_root
  BY <1>12, ListDirOfRootStep
<1>13. CASE ls_dir_of_subdir
  BY <1>13, ListDirOfSubdirStep
<1>14. CASE ls_take
  BY <1>14, ListTakeStep
<1>15. CASE fat16_close
  BY <1>15, CloseStep
<1>16. CASE fat16_read
  BY <1>16, ReadBeginsStep
<1>17. CASE read_from_handle
  BY <1>17, ReadFromHandleStep
<1>18. CASE read_return
  BY <1>18, ReadReturnStep
<1>19. CASE UNCHANGED vars
  <2>1. /\ handles' = handles /\ pc' = pc /\ call' = call /\ buf' = buf /\ ret' = ret
        /\ data' = data
    BY <1>19 DEF vars
  <2>2. Descriptors' = Descriptors
    BY <2>1 DEF Descriptors, FdOf, Delivered
  <2> QED
    BY <2>1, <2>2, Stutter
<1> QED
  BY <1>1, <1>2, <1>3, <1>4, <1>5, <1>6, <1>7, <1>8, <1>9, <1>10, <1>11, <1>12, <1>13, <1>14,
     <1>15, <1>16, <1>17, <1>18, <1>19 DEF Next, Serve

(***************************************************************************)
(* The driver's calls do what FileTable promises, on every well-formed     *)
(* volume and for any number of handles and callers: fat16_open opens the  *)
(* file the path names or says -1 for a reason, the reads of a handle      *)
(* deliver the bytes of its file in order, fat16_size and fat16_ls say     *)
(* what is in the directory, and no call disturbs a handle it was not      *)
(* given.  A directory scan, the walk of mode "a", an entry skipped and a  *)
(* chunk read are steps a caller does not see.                             *)
(***************************************************************************)
THEOREM DriverImplementsFileTable == Spec => FileTableSpec
BY InitImplements, StepImplements, SpecServiceInv, PTL
   DEF Spec, FileTableSpec, Implemented!Spec
=============================================================================
