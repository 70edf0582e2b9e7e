-------------------------------- MODULE Heap --------------------------------
(***************************************************************************)
(* The kernel heap of kernel/src/memory/mem_manager.c: one doubly linked   *)
(* list of chunks, each a MemoryChunk header followed by its payload.      *)
(* malloc takes the first free chunk that is strictly larger than the      *)
(* request and splits it when another header and one byte fit behind the   *)
(* request; free merges the chunk with a free predecessor, then with a     *)
(* free successor.  malloc's loop over the list is one step per chunk.     *)
(*                                                                         *)
(* hdr holds the headers of the chunks on the list, keyed by address; a    *)
(* header that merging takes off the list is dead memory and is dropped.   *)
(* owned is a history variable: the blocks handed out and not yet freed.   *)
(***************************************************************************)
EXTENDS Integers

CONSTANTS
  HeapStart,     \* heap_init's start: 0x200000 in kernel_main
  HeapSize,      \* heap_init's size:  0x200000 in kernel_main
  HeaderSize,    \* sizeof(MemoryChunk)
  Requests       \* the sizes callers ask malloc for

ASSUME HeapAssumption ==
  /\ HeapStart \in Nat \ {0}
  /\ HeapSize \in Nat
  /\ HeaderSize \in Nat \ {0}
  /\ Requests \subseteq Nat

VARIABLES
  up,            \* heap_init has run
  first,         \* head of the chunk list, 0 before heap_init
  hdr,           \* address -> MemoryChunk, for the chunks on the list
  want,          \* size argument of the malloc in progress, or Idle
  cursor,        \* malloc's loop variable `chunk`
  owned,         \* pointer -> size asked for, of the blocks in use
  reply          \* the pointer malloc returned last

vars == <<up, first, hdr, want, cursor, owned, reply>>

Idle == -1

HeapEnd == HeapStart + HeapSize

\* struct MemoryChunk; `bool` is int in this kernel, so allocated is 0 or 1.
MemoryChunk == [next : Nat, prev : Nat, allocated : {0, 1}, size : Nat]

EndOf(h, c) == c + HeaderSize + h[c].size

Payload(c) == c + HeaderSize

\* Assignments to one field of a header.
WithPrev(k, p) ==
  [next |-> k.next, prev |-> p, allocated |-> k.allocated, size |-> k.size]

SetAllocated(h, c, a) ==
  [d \in DOMAIN h |->
     IF d = c THEN [next |-> h[c].next, prev |-> h[c].prev, allocated |-> a,
                    size |-> h[c].size]
     ELSE h[d]]

NoChunks == [c \in {} |-> [next |-> 0, prev |-> 0, allocated |-> 0, size |-> 0]]

Init ==
  /\ up = FALSE
  /\ first = 0
  /\ hdr = NoChunks
  /\ want = Idle
  /\ cursor = 0
  /\ owned = [p \in {} |-> 0]
  /\ reply = 0

heap_init ==
  /\ ~up
  /\ want = Idle
  /\ up' = TRUE
  /\ IF HeapSize < HeaderSize
       THEN first' = 0 /\ hdr' = hdr
       ELSE /\ first' = HeapStart
            /\ hdr' = [c \in {HeapStart} |->
                         [next |-> 0, prev |-> 0, allocated |-> 0,
                          size |-> HeapSize - HeaderSize]]
  /\ UNCHANGED <<want, cursor, owned, reply>>

----------------------------------------------------------------------------
\* Mutant: malloc does not ask whether the chunk is in use.
FitsAllocated(h, c, n) == h[c].size > n

\* malloc's test of one chunk.
Fits(h, c, n) == h[c].size > n /\ h[c].allocated = 0

\* Mutants: the remainder starts n bytes behind the header instead of behind
\* the payload; the old successor is not linked back to it.
SplitInPayload(h, c, n) ==
  LET t == c + n
  IN  [d \in DOMAIN h \cup {t} |->
         IF d = t THEN [next |-> h[c].next, prev |-> c, allocated |-> 0,
                        size |-> h[c].size - n - HeaderSize]
         ELSE IF d = c THEN [next |-> t, prev |-> h[c].prev, allocated |-> 1,
                             size |-> n]
         ELSE h[d]]

SplitNoBackLink(h, c, n) ==
  LET t == c + HeaderSize + n
  IN  [d \in DOMAIN h \cup {t} |->
         IF d = t THEN [next |-> h[c].next, prev |-> c, allocated |-> 0,
                        size |-> h[c].size - n - HeaderSize]
         ELSE IF d = c THEN [next |-> t, prev |-> h[c].prev, allocated |-> 1,
                             size |-> n]
         ELSE h[d]]

\* The remainder behind the request gets a header of its own when that
\* leaves it at least one byte.
MustSplit(h, c, n) == h[c].size >= n + HeaderSize + 1

\* The chunk list after malloc took chunk c for n bytes, with and without
\* cutting the remainder off as a new chunk t.
Split(h, c, n) ==
  LET t == c + HeaderSize + n
  IN  [d \in DOMAIN h \cup {t} |->
         IF d = t THEN [next |-> h[c].next, prev |-> c, allocated |-> 0,
                        size |-> h[c].size - n - HeaderSize]
         ELSE IF d = c THEN [next |-> t, prev |-> h[c].prev, allocated |-> 1,
                             size |-> n]
         ELSE IF d = h[c].next THEN WithPrev(h[d], t)
         ELSE h[d]]

TakeWhole(h, c) == SetAllocated(h, c, 1)

Take(h, c, n) == IF MustSplit(h, c, n) THEN Split(h, c, n) ELSE TakeWhole(h, c)

\* Mutant: the scan starts behind the head of the list.
malloc_skips_head(n) ==
  /\ want = Idle
  /\ want' = n
  /\ cursor' = IF first = 0 THEN 0 ELSE hdr[first].next
  /\ UNCHANGED <<up, first, hdr, owned, reply>>

malloc(n) ==
  /\ want = Idle
  /\ want' = n
  /\ cursor' = first
  /\ UNCHANGED <<up, first, hdr, owned, reply>>

\* Mutant: the scan takes the list for a ring.
malloc_next_ring ==
  /\ want # Idle
  /\ cursor # 0
  /\ ~Fits(hdr, cursor, want)
  /\ cursor' = IF hdr[cursor].next = 0 THEN first ELSE hdr[cursor].next
  /\ UNCHANGED <<up, first, hdr, want, owned, reply>>

malloc_next ==
  /\ want # Idle
  /\ cursor # 0
  /\ ~Fits(hdr, cursor, want)
  /\ cursor' = hdr[cursor].next
  /\ UNCHANGED <<up, first, hdr, want, owned, reply>>

malloc_take ==
  /\ want # Idle
  /\ cursor # 0
  /\ Fits(hdr, cursor, want)
  /\ hdr' = Take(hdr, cursor, want)
  /\ reply' = Payload(cursor)
  /\ owned' = [p \in DOMAIN owned \cup {Payload(cursor)} |->
                 IF p = Payload(cursor) THEN want ELSE owned[p]]
  /\ want' = Idle
  /\ cursor' = 0
  /\ UNCHANGED <<up, first>>

malloc_fail ==
  /\ want # Idle
  /\ cursor = 0
  /\ reply' = 0
  /\ want' = Idle
  /\ UNCHANGED <<up, first, hdr, cursor, owned>>

----------------------------------------------------------------------------
\* Chunk a swallows its successor b, the effect of either `if` of free.
Merge(h, a, b) ==
  [c \in DOMAIN h \ {b} |->
     IF c = a THEN [next |-> h[b].next, prev |-> h[a].prev,
                    allocated |-> h[a].allocated,
                    size |-> h[a].size + h[b].size + HeaderSize]
     ELSE IF c = h[b].next THEN WithPrev(h[c], a)
     ELSE h[c]]

MarkFree(h, c) == SetAllocated(h, c, 0)

\* Mutant: free never looks back.
PrevNeverFree(h, c) == FALSE

PrevFree(h, c) == h[c].prev # 0 /\ h[h[c].prev].allocated = 0

NextFree(h, c) == h[c].next # 0 /\ h[h[c].next].allocated = 0

MergePrev(h, c) == IF PrevFree(h, c) THEN Merge(h, h[c].prev, c) ELSE h

\* The chunk free continues with after its first `if`.
Survivor(h, c) == IF PrevFree(h, c) THEN h[c].prev ELSE c

MergeNext(h, c) == IF NextFree(h, c) THEN Merge(h, c, h[c].next) ELSE h

FreeChunk(h, c) ==
  LET m == MarkFree(h, c)
  IN  MergeNext(MergePrev(m, c), Survivor(m, c))

\* Callers free pointers malloc gave them, once.
free(p) ==
  /\ want = Idle
  /\ p \in DOMAIN owned
  /\ hdr' = FreeChunk(hdr, p - HeaderSize)
  /\ owned' = [q \in DOMAIN owned \ {p} |-> owned[q]]
  /\ UNCHANGED <<up, first, want, cursor, reply>>

Next ==
  \/ heap_init
  \/ \E n \in Requests : malloc(n)
  \/ malloc_next
  \/ malloc_take
  \/ malloc_fail
  \/ \E p \in DOMAIN owned : free(p)

Spec == Init /\ [][Next]_vars

\* malloc is a plain loop of the only thread: once called it keeps running.
FairSpec == Spec /\ WF_vars(malloc_next \/ malloc_take \/ malloc_fail)

----------------------------------------------------------------------------
TypeOK ==
  /\ up \in BOOLEAN
  /\ first \in Nat
  /\ DOMAIN hdr \subseteq Nat \ {0}
  /\ hdr \in [DOMAIN hdr -> MemoryChunk]
  /\ want \in Requests \cup {Idle}
  /\ cursor \in Nat
  /\ DOMAIN owned \subseteq Nat
  /\ owned \in [DOMAIN owned -> Nat]
  /\ reply \in Nat

(***************************************************************************)
(* The chunk list tiles the arena: every next pointer leads to the header  *)
(* right behind the payload and back again, the last chunk ends where the  *)
(* arena ends, and no chunk starts inside another one.                     *)
(***************************************************************************)
InArena(h) == \A c \in DOMAIN h : HeapStart <= c /\ EndOf(h, c) <= HeapEnd

NextLinks(h) ==
  \A c \in DOMAIN h :
    IF h[c].next = 0
      THEN EndOf(h, c) = HeapEnd
      ELSE /\ h[c].next \in DOMAIN h
           /\ h[c].next = EndOf(h, c)
           /\ h[h[c].next].prev = c

PrevLinks(h) ==
  \A c \in DOMAIN h :
    IF h[c].prev = 0
      THEN c = HeapStart
      ELSE /\ h[c].prev \in DOMAIN h
           /\ h[h[c].prev].next = c

Ordered(h) == \A c, d \in DOMAIN h : c < d => EndOf(h, c) <= d

StartIsChunk(h) == DOMAIN h # {} => HeapStart \in DOMAIN h

Tiled(h) ==
  /\ InArena(h)
  /\ NextLinks(h)
  /\ PrevLinks(h)
  /\ Ordered(h)
  /\ StartIsChunk(h)

HeadIsFirst ==
  /\ first = IF DOMAIN hdr = {} THEN 0 ELSE HeapStart
  /\ (DOMAIN hdr # {}) <=> (up /\ HeapSize >= HeaderSize)

(***************************************************************************)
(* free leaves no two free chunks side by side (mem_manager.c:181-197):    *)
(* its two merges are enough to keep the heap from fragmenting into pieces *)
(* a later malloc could not join.                                          *)
(***************************************************************************)
NoAdjacentFree ==
  \A c \in DOMAIN hdr : hdr[c].allocated = 0 => ~NextFree(hdr, c)

(***************************************************************************)
(* The allocated chunks are the payloads of the blocks in use, each large  *)
(* enough for what its owner asked for.                                    *)
(***************************************************************************)
OwnedIsAllocated ==
  /\ \A p \in DOMAIN owned : /\ p - HeaderSize \in DOMAIN hdr
                             /\ hdr[p - HeaderSize].allocated = 1
                             /\ owned[p] <= hdr[p - HeaderSize].size
  /\ \A c \in DOMAIN hdr : hdr[c].allocated = 1 => Payload(c) \in DOMAIN owned

(***************************************************************************)
(* malloc's scan has passed no chunk it could have taken, so the chunk it  *)
(* takes is the lowest that fits and a refusal means that none fits.       *)
(***************************************************************************)
FirstFit ==
  want # Idle =>
    \A c \in DOMAIN hdr : (cursor = 0 \/ c < cursor) => ~Fits(hdr, c, want)

CursorOnList == cursor # 0 => want # Idle /\ cursor \in DOMAIN hdr

(***************************************************************************)
(* What every step of the heap preserves: the list malloc and free leave   *)
(* behind (mem_manager.c:145-199) tiles the arena, holds no two free       *)
(* neighbours, and its allocated chunks are exactly the blocks in use.     *)
(***************************************************************************)
HeapInv ==
  /\ TypeOK
  /\ Tiled(hdr)
  /\ HeadIsFirst
  /\ NoAdjacentFree
  /\ OwnedIsAllocated
  /\ CursorOnList
  /\ FirstFit

(***************************************************************************)
(* No two blocks malloc handed out share a byte, and no header of the list *)
(* lies in a block: writing to one's own block damages neither a neighbour *)
(* nor the chunk list.                                                     *)
(***************************************************************************)
NoOverlap ==
  \A p \in DOMAIN owned :
    /\ \A q \in DOMAIN owned \ {p} :
         p + owned[p] <= q \/ q + owned[q] <= p
    /\ \A c \in DOMAIN hdr :
         c + HeaderSize <= p \/ p + owned[p] <= c

(***************************************************************************)
(* When every block has been freed the heap is the single chunk heap_init  *)
(* made: no sequence of malloc and free loses memory.                      *)
(***************************************************************************)
NoLostMemory ==
  (up /\ HeapSize >= HeaderSize /\ DOMAIN owned = {}) =>
    /\ DOMAIN hdr = {HeapStart}
    /\ hdr[HeapStart].size = HeapSize - HeaderSize
    /\ hdr[HeapStart].allocated = 0

\* A malloc that was called returns.
MallocReturns == (want # Idle) ~> (want = Idle)

\* The heap implements the abstract allocator.
Abstract == INSTANCE Allocator WITH
  Lo <- HeapStart, Hi <- HeapEnd,
  Capacity <- HeapSize - HeaderSize,
  pending <- want

AllocatorSpec == Abstract!Spec
=============================================================================
