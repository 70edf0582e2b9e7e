----------------------------- MODULE FileTable -----------------------------
(***************************************************************************)
(* What the FAT16 driver's calls (kernel/src/fs/fat16/fat16.c) promise,    *)
(* without clusters or directory scans: a table of descriptors, each an    *)
(* open file with a position, reads that deliver the file's bytes in       *)
(* order, sizes and directory listings.                                    *)
(*                                                                         *)
(* Five promises are weaker than a reader would expect, because the code   *)
(* gives no more: files of the root directory are opened without the       *)
(* sharing check, the answer to opening one is the descriptor only when    *)
(* that is 0 (fat16.c:278), a path of three components may be refused,     *)
(* its second component is not looked up, so that it may lead to another   *)
(* file than the one it names (fat16_priv.c:121-129), and a listing stops  *)
(* at its end only for a caller that asks for one entry after the other    *)
(* (fat16_subdir.c skips entries without looking at them).                 *)
(***************************************************************************)
EXTENDS Integers, Sequences

CONSTANTS
  Slots,         \* descriptors
  Files,         \* files, named by the position of their directory entry
  RootFiles,     \* the files whose entry is in the root directory
  ReadOnly,      \* the files that may only be opened for reading
  Content,       \* file -> sequence of its bytes
  Paths,         \* paths callers use
  Lookup,        \* path -> the entry it names, NoEntry if it names none
  SizeOf,        \* entry -> its size field
  Listing,       \* path of a directory -> the names in it, in order
  NoEntry,
  Requests       \* the calls callers make

VARIABLES
  call,          \* the call being served, or NoCall
  fds,           \* slot -> [file, mode, pos], or Closed
  reply,         \* the value the last call returned
  data           \* what the last read or listing delivered

fvars == <<call, fds, reply, data>>

NoCall == [op |-> "none"]

Closed == [file |-> NoEntry, mode |-> "none", pos |-> 0]

Init ==
  /\ call = NoCall
  /\ fds = [s \in Slots |-> Closed]
  /\ reply = 0
  /\ data = << >>

Invoke(c) ==
  /\ call = NoCall
  /\ call' = c
  /\ reply' = 0 /\ data' = << >>
  /\ fds' = fds

Serving(op) == call.op = op /\ call' = NoCall

InUse(s) == s \in Slots /\ fds[s] # Closed

Deep == Len(call.path) > 2

\* A file may be open many times for reading, or once for anything else.
Conflict(f, mode) ==
  /\ f \notin RootFiles
  /\ \E s \in Slots : /\ fds[s].file = f
                      /\ mode # "r" \/ fds[s].mode # "r"

MayOpen(f, mode) ==
  /\ mode \in {"r", "w", "a"}
  /\ f \in Files
  /\ f \in ReadOnly => mode = "r"
  /\ ~Conflict(f, mode)

Open(s, f) ==
  /\ Serving("open")
  /\ f = Lookup[call.path] \/ Deep
  /\ MayOpen(f, call.mode)
  /\ ~InUse(s)
  /\ fds' = [fds EXCEPT ![s] = [file |-> f, mode |-> call.mode, pos |-> 0]]
  /\ f \notin RootFiles \/ s = 0 => reply' = s
  /\ data' = data

\* With every descriptor in use the answer means nothing, but no descriptor changes.
OpenWhenFull ==
  /\ Serving("open")
  /\ \A s \in Slots : InUse(s)
  /\ UNCHANGED <<fds, data>>

Refuse ==
  /\ Serving("open")
  /\ ~MayOpen(Lookup[call.path], call.mode) \/ Deep
  /\ reply' = -1
  /\ UNCHANGED <<fds, data>>

Least(a, b) == IF a < b THEN a ELSE b

Available(s) ==
  IF fds[s].mode = "r" THEN Len(Content[fds[s].file]) - fds[s].pos ELSE 0

Read ==
  LET s == call.slot
      n == Least(call.count, Available(s))
  IN  /\ Serving("read")
      /\ InUse(s)
      /\ data' = SubSeq(Content[fds[s].file], fds[s].pos + 1, fds[s].pos + n)
      /\ reply' = n
      /\ fds' = [fds EXCEPT ![s].pos = @ + n]

Close ==
  /\ Serving("close")
  /\ InUse(call.slot)
  /\ fds' = [fds EXCEPT ![call.slot] = Closed]
  /\ reply' = 0
  /\ data' = data

\* Reading or closing a descriptor that is not open.
BadSlot ==
  /\ Serving("read") \/ Serving("close")
  /\ ~InUse(call.slot)
  /\ reply' = -1
  /\ UNCHANGED <<fds, data>>

Size ==
  LET f == Lookup[call.path]
  IN  /\ Serving("size")
      /\ ~Deep => IF f # NoEntry THEN reply' = SizeOf[f] ELSE reply' \in {-1, 0}
      /\ UNCHANGED <<fds, data>>

\* The name at an index of a directory; at its end, no name; behind it, anything.
List ==
  /\ Serving("ls")
  /\ (call.path \in DOMAIN Listing /\ ~Deep) =>
       IF call.index < Len(Listing[call.path])
         THEN reply' = 1 /\ data' = <<Listing[call.path][call.index + 1]>>
         ELSE call.index = Len(Listing[call.path]) => reply' \in {-1, 0} /\ data' = data
  /\ fds' = fds

Next ==
  \/ \E c \in Requests : Invoke(c)
  \/ \E s \in Slots, f \in Files : Open(s, f)
  \/ OpenWhenFull
  \/ Refuse
  \/ Read
  \/ Close
  \/ BadSlot
  \/ Size
  \/ List

Spec == Init /\ [][Next]_fvars
=============================================================================
