----------------------------- MODULE HeapProofs -----------------------------
(***************************************************************************)
(* The heap is correct for every arena, header size and set of requests:   *)
(* HeapInv is inductive, and NoOverlap, NoLostMemory and the abstract      *)
(* allocator follow from it.  The lemmas are about the list operations     *)
(* alone (Split, TakeWhole, MarkFree, Merge); the invariance proof then    *)
(* has one step per action.                                                *)
(***************************************************************************)
EXTENDS Heap, TLAPS

IsList(h) == DOMAIN h \subseteq Nat \ {0} /\ h \in [DOMAIN h -> MemoryChunk]

\* Cutting the remainder off a chunk (mem_manager.c:156-169) keeps the list
\* a tiling of the arena.
LEMMA SplitTiled ==
  ASSUME NEW h, IsList(h), Tiled(h),
         NEW c \in DOMAIN h, NEW n \in Nat, MustSplit(h, c, n)
  PROVE  IsList(Split(h, c, n)) /\ Tiled(Split(h, c, n))
<1> DEFINE t == c + HeaderSize + n
           g == Split(h, c, n)
<1> USE HeapAssumption
<1>1. /\ t \in Nat \ {0}
      /\ t \notin DOMAIN h
      /\ c < t /\ t + HeaderSize < EndOf(h, c)
      /\ h[c].next # t /\ h[c].next # c
  BY DEF IsList, Tiled, Ordered, NextLinks, EndOf, MemoryChunk, MustSplit
<1>2. /\ DOMAIN g = DOMAIN h \cup {t}
      /\ g[t] = [next |-> h[c].next, prev |-> c, allocated |-> 0,
                 size |-> h[c].size - n - HeaderSize]
      /\ g[c] = [next |-> t, prev |-> h[c].prev, allocated |-> 1, size |-> n]
  BY <1>1 DEF Split, WithPrev
<1>3. \A d \in DOMAIN h \ {c} :
        /\ g[d].next = h[d].next /\ g[d].size = h[d].size
        /\ g[d].allocated = h[d].allocated
        /\ g[d].prev = IF d = h[c].next THEN t ELSE h[d].prev
        /\ g[d] \in MemoryChunk
  BY <1>1 DEF Split, WithPrev, IsList, MemoryChunk
<1>4. IsList(g)
  <2>1. g[t] \in MemoryChunk /\ g[c] \in MemoryChunk
    BY <1>1, <1>2 DEF IsList, MemoryChunk, MustSplit
  <2> QED BY <1>1, <1>2, <1>3, <2>1 DEF IsList, Split, WithPrev
<1>5. /\ EndOf(g, c) = t
      /\ EndOf(g, t) = EndOf(h, c)
      /\ \A d \in DOMAIN h \ {c} : EndOf(g, d) = EndOf(h, d)
  BY <1>1, <1>2, <1>3 DEF EndOf, IsList, MemoryChunk
<1> HIDE DEF g
<1>6. InArena(g)
  BY <1>1, <1>2, <1>5 DEF Tiled, InArena, IsList, EndOf, MemoryChunk, HeapEnd
<1>7. Ordered(g)
  <2>1. \A d \in DOMAIN h : d < t => d <= c
    BY <1>1 DEF Tiled, Ordered, IsList, EndOf, MemoryChunk
  <2>2. \A d \in DOMAIN h : d > t => EndOf(h, c) <= d
    BY <1>1 DEF Tiled, Ordered, IsList, EndOf, MemoryChunk
  <2>3. \A d \in DOMAIN h : d < c => EndOf(h, d) <= c
    BY DEF Tiled, Ordered
  <2>4. \A d \in DOMAIN h : d \in Nat /\ EndOf(h, d) \in Nat
    BY DEF IsList, EndOf, MemoryChunk
  <2>5. \A d, e \in DOMAIN h : d < e => EndOf(h, d) <= e
    BY DEF Tiled, Ordered
  <2> SUFFICES ASSUME NEW d \in DOMAIN g, NEW e \in DOMAIN g, d < e
               PROVE  EndOf(g, d) <= e
    BY DEF Ordered
  <2> QED BY <1>1, <1>2, <1>5, <2>1, <2>2, <2>3, <2>4, <2>5
<1>8. NextLinks(g)
  <2> SUFFICES ASSUME NEW d \in DOMAIN g
               PROVE  IF g[d].next = 0
                        THEN EndOf(g, d) = HeapEnd
                        ELSE /\ g[d].next \in DOMAIN g
                             /\ g[d].next = EndOf(g, d)
                             /\ g[g[d].next].prev = d
    BY DEF NextLinks
  <2>1. CASE d = c BY <1>1, <1>2, <1>5, <2>1
  <2>2. CASE d = t
    BY <1>1, <1>2, <1>3, <1>5, <2>2 DEF Tiled, NextLinks
  <2>3. CASE d \in DOMAIN h \ {c}
    <3>1. h[d].next # 0 => h[d].next # h[c].next
      BY <2>3 DEF Tiled, NextLinks
    <3> QED BY <1>1, <1>2, <1>3, <1>5, <2>3, <3>1 DEF Tiled, NextLinks
  <2> QED BY <1>2, <2>1, <2>2, <2>3
<1>9. PrevLinks(g)
  <2> SUFFICES ASSUME NEW d \in DOMAIN g
               PROVE  IF g[d].prev = 0
                        THEN d = HeapStart
                        ELSE /\ g[d].prev \in DOMAIN g
                             /\ g[g[d].prev].next = d
    BY DEF PrevLinks
  <2>1. CASE d = c
    <3>1. h[c].prev # c
      BY <1>1 DEF Tiled, PrevLinks
    <3> QED BY <1>1, <1>2, <1>3, <2>1, <3>1 DEF Tiled, PrevLinks
  <2>2. CASE d = t BY <1>1, <1>2, <2>2 DEF IsList
  <2>3. CASE d \in DOMAIN h \ {c}
    <3>1. h[d].prev = c => d = h[c].next
      BY <1>1, <2>3 DEF Tiled, PrevLinks, IsList
    <3> QED BY <1>1, <1>2, <1>3, <2>3, <3>1 DEF Tiled, PrevLinks
  <2> QED BY <1>2, <2>1, <2>2, <2>3
<1>10. StartIsChunk(g)
  BY <1>2 DEF Tiled, StartIsChunk
<1> QED BY <1>4, <1>6, <1>7, <1>8, <1>9, <1>10 DEF Tiled, g

\* free's merging of a chunk with its successor (mem_manager.c:181-197)
\* keeps the list a tiling of the arena.
LEMMA MergeTiled ==
  ASSUME NEW h, IsList(h), Tiled(h),
         NEW a \in DOMAIN h, h[a].next # 0
  PROVE  IsList(Merge(h, a, h[a].next)) /\ Tiled(Merge(h, a, h[a].next))
<1> DEFINE b == h[a].next
           g == Merge(h, a, b)
<1> USE HeapAssumption
<1>1. /\ b \in DOMAIN h /\ b = EndOf(h, a) /\ h[b].prev = a
      /\ a < b /\ b < EndOf(h, b)
      /\ h[b].next # a /\ h[b].next # b
  BY DEF IsList, Tiled, NextLinks, EndOf, MemoryChunk
<1>2. /\ DOMAIN g = DOMAIN h \ {b}
      /\ g[a] = [next |-> h[b].next, prev |-> h[a].prev,
                 allocated |-> h[a].allocated,
                 size |-> h[a].size + h[b].size + HeaderSize]
  BY <1>1 DEF Merge, WithPrev, WithPrev
<1>3. \A d \in DOMAIN h \ {a, b} :
        /\ g[d].next = h[d].next /\ g[d].size = h[d].size
        /\ g[d].allocated = h[d].allocated
        /\ g[d].prev = IF d = h[b].next THEN a ELSE h[d].prev
        /\ g[d] \in MemoryChunk
  BY <1>1 DEF Merge, WithPrev, IsList, MemoryChunk
<1>4. IsList(g)
  <2>1. g[a] \in MemoryChunk
    BY <1>1, <1>2 DEF IsList, MemoryChunk
  <2> QED BY <1>1, <1>2, <1>3, <2>1 DEF IsList, Merge, WithPrev
<1>5. /\ EndOf(g, a) = EndOf(h, b)
      /\ \A d \in DOMAIN h \ {a, b} : EndOf(g, d) = EndOf(h, d)
  BY <1>1, <1>2, <1>3 DEF EndOf, IsList, MemoryChunk
<1> HIDE DEF g
<1>6. InArena(g)
  BY <1>1, <1>2, <1>5 DEF Tiled, InArena
<1>7. Ordered(g)
  <2>1. \A d \in DOMAIN h : d \in Nat /\ EndOf(h, d) \in Nat
    BY DEF IsList, EndOf, MemoryChunk
  <2>2. \A d, e \in DOMAIN h : d < e => EndOf(h, d) <= e
    BY DEF Tiled, Ordered
  <2>3. \A e \in DOMAIN h \ {a, b} : a < e => b < e
    BY <1>1, <2>1, <2>2
  <2> SUFFICES ASSUME NEW d \in DOMAIN g, NEW e \in DOMAIN g, d < e
               PROVE  EndOf(g, d) <= e
    BY DEF Ordered
  <2> QED BY <1>1, <1>2, <1>5, <2>1, <2>2, <2>3
<1>8. NextLinks(g)
  <2> SUFFICES ASSUME NEW d \in DOMAIN g
               PROVE  IF g[d].next = 0
                        THEN EndOf(g, d) = HeapEnd
                        ELSE /\ g[d].next \in DOMAIN g
                             /\ g[d].next = EndOf(g, d)
                             /\ g[g[d].next].prev = d
    BY DEF NextLinks
  <2>1. CASE d = a
    BY <1>1, <1>2, <1>3, <1>5, <2>1 DEF Tiled, NextLinks
  <2>2. CASE d \in DOMAIN h \ {a, b}
    <3>1. h[d].next # 0 => h[d].next # h[b].next /\ h[d].next # b
      BY <1>1, <2>2 DEF Tiled, NextLinks
    <3> QED BY <1>1, <1>2, <1>3, <1>5, <2>2, <3>1 DEF Tiled, NextLinks
  <2> QED BY <1>2, <2>1, <2>2
<1>9. PrevLinks(g)
  <2> SUFFICES ASSUME NEW d \in DOMAIN g
               PROVE  IF g[d].prev = 0
                        THEN d = HeapStart
                        ELSE /\ g[d].prev \in DOMAIN g
                             /\ g[g[d].prev].next = d
    BY DEF PrevLinks
  <2>1. CASE d = a
    <3>1. h[a].prev # a /\ h[a].prev # b
      BY <1>1 DEF Tiled, PrevLinks
    <3> QED BY <1>1, <1>2, <1>3, <2>1, <3>1 DEF Tiled, PrevLinks
  <2>2. CASE d \in DOMAIN h \ {a, b}
    <3>1. d # h[b].next => h[d].prev # b /\ h[d].prev # a
      BY <1>1, <2>2 DEF Tiled, PrevLinks, IsList
    <3>2. a \in Nat \ {0}
      BY DEF IsList
    <3> QED BY <1>1, <1>2, <1>3, <2>2, <3>1, <3>2 DEF Tiled, PrevLinks
  <2> QED BY <1>2, <2>1, <2>2
<1>10. StartIsChunk(g)
  <2>1. HeapStart \in DOMAIN h /\ HeapStart <= a
    BY DEF Tiled, StartIsChunk, InArena
  <2> QED BY <1>1, <1>2, <2>1 DEF StartIsChunk, IsList
<1> QED BY <1>4, <1>6, <1>7, <1>8, <1>9, <1>10 DEF Tiled, g

\* Setting the allocated flag of one chunk touches no link.
LEMMA SetAllocatedTiled ==
  ASSUME NEW h, IsList(h), Tiled(h), NEW c \in DOMAIN h, NEW a \in {0, 1}
  PROVE  /\ IsList(SetAllocated(h, c, a)) /\ Tiled(SetAllocated(h, c, a))
         /\ DOMAIN SetAllocated(h, c, a) = DOMAIN h
         /\ SetAllocated(h, c, a)[c].allocated = a
         /\ \A d \in DOMAIN h : /\ SetAllocated(h, c, a)[d].next = h[d].next
                                /\ SetAllocated(h, c, a)[d].prev = h[d].prev
                                /\ SetAllocated(h, c, a)[d].size = h[d].size
         /\ \A d \in DOMAIN h \ {c} :
              SetAllocated(h, c, a)[d].allocated = h[d].allocated
<1> DEFINE g == SetAllocated(h, c, a)
<1>1. /\ DOMAIN g = DOMAIN h
      /\ g[c].allocated = a
      /\ \A d \in DOMAIN h : /\ g[d].next = h[d].next
                             /\ g[d].prev = h[d].prev
                             /\ g[d].size = h[d].size
      /\ \A d \in DOMAIN h \ {c} : g[d].allocated = h[d].allocated
  BY DEF SetAllocated
<1>2. \A d \in DOMAIN h : g[d] \in MemoryChunk
  BY DEF SetAllocated, IsList, MemoryChunk
<1>3. IsList(g)
  BY <1>1, <1>2 DEF IsList, SetAllocated
<1> HIDE DEF g
<1>4. \A d \in DOMAIN h : EndOf(g, d) = EndOf(h, d)
  BY <1>1 DEF EndOf
<1>5. InArena(g) /\ Ordered(g) /\ StartIsChunk(g)
  BY <1>1, <1>4 DEF Tiled, InArena, Ordered, StartIsChunk
<1>6. NextLinks(g)
  BY <1>1, <1>4 DEF Tiled, NextLinks
<1>7. PrevLinks(g)
  BY <1>1 DEF Tiled, PrevLinks
<1> QED BY <1>1, <1>3, <1>5, <1>6, <1>7 DEF Tiled, g

\* Which chunks Split and Merge leave, and what their flags are.
SplitEffect(h, g, c, n, t) ==
  /\ t \notin DOMAIN h
  /\ DOMAIN g = DOMAIN h \cup {t}
  /\ g[c].allocated = 1 /\ g[c].size = n /\ g[c].next = t
  /\ g[t].allocated = 0 /\ g[t].next = h[c].next
  /\ \A d \in DOMAIN h \ {c} : /\ g[d].allocated = h[d].allocated
                               /\ g[d].next = h[d].next
                               /\ g[d].size = h[d].size

LEMMA SplitFlags ==
  ASSUME NEW h, IsList(h), Tiled(h),
         NEW c \in DOMAIN h, NEW n \in Nat, MustSplit(h, c, n)
  PROVE  SplitEffect(h, Split(h, c, n), c, n, c + HeaderSize + n)
<1>1. /\ c + HeaderSize + n \notin DOMAIN h
      /\ c + HeaderSize + n # c
  BY HeapAssumption
     DEF IsList, Tiled, Ordered, EndOf, MemoryChunk, MustSplit
<1> QED BY <1>1 DEF Split, WithPrev, SplitEffect

MergeEffect(h, g, a, b) ==
  /\ b \in DOMAIN h /\ b # a /\ h[b].prev = a
  /\ DOMAIN g = DOMAIN h \ {b}
  /\ g[a].allocated = h[a].allocated /\ g[a].next = h[b].next
  /\ \A d \in DOMAIN h \ {a, b} : /\ g[d].allocated = h[d].allocated
                                  /\ g[d].next = h[d].next
                                  /\ g[d].size = h[d].size

LEMMA MergeFlags ==
  ASSUME NEW h, IsList(h), Tiled(h), NEW a \in DOMAIN h, h[a].next # 0
  PROVE  MergeEffect(h, Merge(h, a, h[a].next), a, h[a].next)
<1>1. h[a].next \in DOMAIN h /\ h[a].next # a /\ h[h[a].next].prev = a
  BY HeapAssumption DEF IsList, Tiled, NextLinks, EndOf, MemoryChunk
<1> QED BY <1>1 DEF Merge, WithPrev, MergeEffect

(***************************************************************************)
(* free as a whole (mem_manager.c:175-199).  Only chunks next to the freed *)
(* one can have become free neighbours, and the two merges remove both.    *)
(***************************************************************************)
SideBySide(h, c) == h[c].allocated = 0 /\ NextFree(h, c)

FreeEffect(h, g, c) ==
  /\ IsList(g) /\ Tiled(g)
  /\ DOMAIN g \subseteq DOMAIN h /\ DOMAIN g # {}
  /\ \A d \in DOMAIN g : ~SideBySide(g, d)
  /\ \A d \in DOMAIN h : (h[d].allocated = 1 /\ d # c) =>
       d \in DOMAIN g /\ g[d].allocated = 1 /\ g[d].size = h[d].size
  /\ \A d \in DOMAIN g : g[d].allocated = 1 => d # c /\ h[d].allocated = 1

LEMMA FreeChunkCorrect ==
  ASSUME NEW h, IsList(h), Tiled(h), NEW c \in DOMAIN h, h[c].allocated = 1,
         \A d \in DOMAIN h : ~SideBySide(h, d)
  PROVE  FreeEffect(h, FreeChunk(h, c), c)
<1> DEFINE m == MarkFree(h, c)
           k == MergePrev(m, c)
           s == Survivor(m, c)
           g == MergeNext(k, s)
<1>1. /\ IsList(m) /\ Tiled(m) /\ DOMAIN m = DOMAIN h
      /\ m[c].allocated = 0
      /\ \A d \in DOMAIN h : /\ m[d].next = h[d].next
                             /\ m[d].prev = h[d].prev
                             /\ m[d].size = h[d].size
      /\ \A d \in DOMAIN h \ {c} : m[d].allocated = h[d].allocated
  BY SetAllocatedTiled DEF MarkFree
<1> HIDE DEF m
\* Free neighbours of the marked list: c with its successor, or c's predecessor with c.
<1>2. \A d \in DOMAIN m : SideBySide(m, d) => d = c \/ m[d].next = c
  BY <1>1 DEF SideBySide, NextFree, Tiled, NextLinks
<1>3. /\ IsList(k) /\ Tiled(k) /\ DOMAIN k \subseteq DOMAIN m
      /\ s \in DOMAIN k /\ k[s].allocated = 0
      /\ \A d \in DOMAIN k : SideBySide(k, d) => d = s
      /\ \A d \in DOMAIN m : m[d].allocated = 1 =>
           /\ d \in DOMAIN k /\ k[d].allocated = 1
           /\ k[d].size = m[d].size
      /\ \A d \in DOMAIN k : k[d].allocated = 1 => m[d].allocated = 1
  <2>1. CASE ~PrevFree(m, c)
    <3>1. k = m /\ s = c
      BY <2>1 DEF MergePrev, Survivor
    <3>2. \A d \in DOMAIN m : (SideBySide(m, d) /\ m[d].next = c) => PrevFree(m, c)
      BY <1>1 DEF SideBySide, NextFree, PrevFree, Tiled, NextLinks, IsList
    <3> QED BY <1>1, <1>2, <2>1, <3>1, <3>2
  <2>2. CASE PrevFree(m, c)
    <3> DEFINE a == m[c].prev
    <3>1. a \in DOMAIN m /\ m[a].next = c /\ c # 0 /\ m[a].allocated = 0
      BY <1>1, <2>2 DEF PrevFree, Tiled, PrevLinks, IsList
    <3>2. k = Merge(m, a, m[a].next) /\ s = a
      BY <2>2, <3>1 DEF MergePrev, Survivor
    <3> HIDE DEF k, s
    <3>3. IsList(k) /\ Tiled(k)
      BY <1>1, <3>1, <3>2, MergeTiled
    <3>4. /\ c # a /\ m[c].prev = a
          /\ DOMAIN k = DOMAIN m \ {c}
          /\ k[a].allocated = 0 /\ k[a].next = m[c].next
          /\ \A d \in DOMAIN m \ {a, c} :
               /\ k[d].allocated = m[d].allocated
               /\ k[d].next = m[d].next
               /\ k[d].size = m[d].size
      <4>1. MergeEffect(m, k, a, c)
        BY <1>1, <3>1, <3>2, MergeFlags
      <4> QED BY <3>1, <4>1 DEF MergeEffect
    <3>5. ASSUME NEW d \in DOMAIN k, SideBySide(k, d), d # a
          PROVE  FALSE
      <4> DEFINE e == k[d].next
      <4>1. d \in DOMAIN m /\ d # c /\ e = m[d].next /\ m[d].allocated = 0 /\ e # 0
        BY <3>4, <3>5 DEF SideBySide, NextFree
      <4>2. e \in DOMAIN k /\ k[e].allocated = 0
        BY <3>3, <3>5, <4>1 DEF SideBySide, NextFree, Tiled, NextLinks
      <4>3. m[e].allocated = 0
        BY <3>1, <3>4, <4>2
      <4>4. SideBySide(m, d)
        BY <4>1, <4>3 DEF SideBySide, NextFree
      <4>5. e = c
        BY <1>2, <4>1, <4>4
      <4> QED BY <3>4, <4>2, <4>5
    <3> QED BY <1>1, <3>1, <3>2, <3>3, <3>4, <3>5
  <2> QED BY <2>1, <2>2
<1> HIDE DEF k, s
<1>4. /\ IsList(g) /\ Tiled(g) /\ DOMAIN g \subseteq DOMAIN k
      /\ DOMAIN g # {}
      /\ \A d \in DOMAIN g : ~SideBySide(g, d)
      /\ \A d \in DOMAIN k : k[d].allocated = 1 =>
           /\ d \in DOMAIN g /\ g[d].allocated = 1
           /\ g[d].size = k[d].size
      /\ \A d \in DOMAIN g : g[d].allocated = 1 => k[d].allocated = 1
  <2>1. CASE ~NextFree(k, s)
    <3>1. g = k
      BY <2>1 DEF MergeNext
    <3> QED BY <1>3, <2>1, <3>1 DEF SideBySide
  <2>2. CASE NextFree(k, s)
    <3> DEFINE b == k[s].next
    <3>1. b # 0 /\ g = Merge(k, s, b) /\ k[b].allocated = 0
      BY <2>2 DEF MergeNext, NextFree
    <3> HIDE DEF g
    <3>2. IsList(g) /\ Tiled(g)
      BY <1>3, <3>1, MergeTiled
    <3>3. /\ b \in DOMAIN k /\ b # s /\ k[b].prev = s
          /\ DOMAIN g = DOMAIN k \ {b}
          /\ g[s].allocated = 0 /\ g[s].next = k[b].next
          /\ \A d \in DOMAIN k \ {s, b} :
               /\ g[d].allocated = k[d].allocated
               /\ g[d].next = k[d].next
               /\ g[d].size = k[d].size
      <4>1. MergeEffect(k, g, s, b)
        BY <1>3, <3>1, MergeFlags
      <4> QED BY <1>3, <4>1 DEF MergeEffect
    <3>4. ASSUME NEW d \in DOMAIN g, SideBySide(g, d)
          PROVE  FALSE
      <4> DEFINE e == g[d].next
      <4>1. e # 0 /\ e \in DOMAIN g /\ g[e].allocated = 0 /\ g[d].allocated = 0
        BY <3>2, <3>4 DEF SideBySide, NextFree, Tiled, NextLinks
      <4>2. k[e].allocated = 0
        BY <1>3, <3>3, <4>1
      <4>3. CASE d = s
        <5>1. SideBySide(k, b)
          BY <3>1, <3>3, <4>1, <4>2, <4>3 DEF SideBySide, NextFree
        <5> QED BY <1>3, <3>3, <5>1
      <4>4. CASE d # s
        <5>1. SideBySide(k, d)
          BY <3>3, <4>1, <4>2, <4>4 DEF SideBySide, NextFree
        <5> QED BY <1>3, <3>3, <4>4, <5>1
      <4> QED BY <4>3, <4>4
    <3> QED BY <1>3, <3>1, <3>2, <3>3, <3>4
  <2> QED BY <2>1, <2>2
<1>5. g = FreeChunk(h, c)
  BY DEF FreeChunk, g, k, s, m
<1> HIDE DEF g
<1> QED BY <1>1, <1>3, <1>4, <1>5 DEF FreeEffect

----------------------------------------------------------------------------
\* malloc taking a chunk (mem_manager.c:154-172), for either branch.
TakeEffect(h, g, c, n) ==
  /\ IsList(g) /\ Tiled(g)
  /\ DOMAIN h \subseteq DOMAIN g
  /\ g[c].allocated = 1 /\ g[c].size >= n
  /\ \A d \in DOMAIN g : ~SideBySide(g, d)
  /\ \A d \in DOMAIN h \ {c} : /\ g[d].allocated = h[d].allocated
                               /\ g[d].size = h[d].size
  /\ \A d \in DOMAIN g : g[d].allocated = 1 => d \in DOMAIN h

LEMMA TakeCorrect ==
  ASSUME NEW h, IsList(h), Tiled(h), NEW c \in DOMAIN h, NEW n \in Nat,
         Fits(h, c, n), \A d \in DOMAIN h : ~SideBySide(h, d)
  PROVE  TakeEffect(h, Take(h, c, n), c, n)
<1> DEFINE g == Take(h, c, n)
           t == c + HeaderSize + n
<1>1. CASE MustSplit(h, c, n)
  <2>1. g = Split(h, c, n)
    BY <1>1 DEF Take
  <2>2. IsList(g) /\ Tiled(g)
    BY <1>1, <2>1, SplitTiled
  <2>3. SplitEffect(h, g, c, n, t)
    BY <1>1, <2>1, SplitFlags
  <2> HIDE DEF g, t
  <2>4. ASSUME NEW d \in DOMAIN g, SideBySide(g, d)
        PROVE  FALSE
    <3> DEFINE e == g[d].next
    <3>1. e # 0 /\ e \in DOMAIN g /\ g[e].allocated = 0 /\ g[d].allocated = 0
      BY <2>2, <2>4 DEF SideBySide, NextFree, Tiled, NextLinks
    <3>2. d # c /\ e # c
      BY <2>3, <3>1 DEF SplitEffect
    <3>3. CASE d = t
      <4>1. e = h[c].next /\ e \in DOMAIN h
        BY <2>3, <3>1, <3>3 DEF SplitEffect, Tiled, NextLinks
      <4>2. SideBySide(h, c)
        BY <2>3, <3>1, <3>2, <4>1 DEF SplitEffect, SideBySide, NextFree, Fits
      <4> QED BY <4>2
    <3>4. CASE d \in DOMAIN h
      <4>1. e = h[d].next /\ e \in DOMAIN h /\ h[d].allocated = 0
        BY <2>3, <3>1, <3>2, <3>4 DEF SplitEffect, Tiled, NextLinks
      <4>2. SideBySide(h, d)
        BY <2>3, <3>1, <3>2, <4>1 DEF SplitEffect, SideBySide, NextFree
      <4> QED BY <3>4, <4>2
    <3> QED BY <2>3, <3>3, <3>4 DEF SplitEffect
  <2>5. g[c].size >= n /\ \A d \in DOMAIN g : g[d].allocated = 1 => d \in DOMAIN h
    BY <2>3 DEF SplitEffect
  <2> QED BY <2>2, <2>3, <2>4, <2>5 DEF TakeEffect, SplitEffect, g
<1>2. CASE ~MustSplit(h, c, n)
  <2>1. g = SetAllocated(h, c, 1)
    BY <1>2 DEF Take, TakeWhole
  <2>2. /\ IsList(g) /\ Tiled(g) /\ DOMAIN g = DOMAIN h
        /\ g[c].allocated = 1
        /\ \A d \in DOMAIN h : g[d].next = h[d].next /\ g[d].size = h[d].size
        /\ \A d \in DOMAIN h \ {c} : g[d].allocated = h[d].allocated
    BY <2>1, SetAllocatedTiled
  <2> HIDE DEF g
  <2>3. \A d \in DOMAIN g : SideBySide(g, d) => SideBySide(h, d)
    BY <2>2 DEF SideBySide, NextFree, Tiled, NextLinks
  <2>4. g[c].size >= n
    BY <2>2 DEF Fits, IsList, MemoryChunk
  <2> QED BY <2>2, <2>3, <2>4 DEF TakeEffect, g
<1> QED BY <1>1, <1>2

----------------------------------------------------------------------------
(***************************************************************************)
(* HeapInv holds in every reachable state: whatever sequence of malloc and *)
(* free the kernel runs, the chunk list stays a tiling of the arena.       *)
(***************************************************************************)
THEOREM HeapInvariant == Spec => []HeapInv
<1> USE HeapAssumption
<1>1. Init => HeapInv
  <2> SUFFICES ASSUME Init PROVE HeapInv
    OBVIOUS
  <2>1. DOMAIN hdr = {} /\ DOMAIN owned = {}
    BY DEF Init, NoChunks
  <2>2. hdr \in [{} -> MemoryChunk] /\ owned \in [{} -> Nat]
    BY DEF Init, NoChunks
  <2>3. TypeOK
    BY <2>1, <2>2 DEF Init, TypeOK
  <2>4. Tiled(hdr)
    BY <2>1 DEF Tiled, InArena, NextLinks, PrevLinks, Ordered, StartIsChunk
  <2>5. HeadIsFirst /\ NoAdjacentFree /\ OwnedIsAllocated
    BY <2>1 DEF Init, HeadIsFirst, NoAdjacentFree, OwnedIsAllocated
  <2> QED BY <2>1, <2>3, <2>4, <2>5 DEF Init, HeapInv, CursorOnList, FirstFit
<1>2. HeapInv /\ [Next]_vars => HeapInv'
  <2> SUFFICES ASSUME HeapInv, [Next]_vars PROVE HeapInv'
    OBVIOUS
  <2>1. IsList(hdr) /\ Tiled(hdr) /\ \A d \in DOMAIN hdr : ~SideBySide(hdr, d)
    BY DEF HeapInv, TypeOK, IsList, NoAdjacentFree, SideBySide
  <2>2. CASE heap_init
    <3>1. DOMAIN hdr = {} /\ DOMAIN owned = {} /\ want = Idle /\ cursor = 0
      BY <2>2 DEF HeapInv, TypeOK, HeadIsFirst, OwnedIsAllocated, CursorOnList,
                  heap_init
    <3>2. CASE HeapSize < HeaderSize
      BY <2>2, <3>1, <3>2
      DEF HeapInv, TypeOK, heap_init, Tiled, InArena, NextLinks, PrevLinks, Ordered,
          StartIsChunk, HeadIsFirst, NoAdjacentFree, OwnedIsAllocated,
          CursorOnList, FirstFit
    <3>3. CASE HeapSize >= HeaderSize
      <4>1. /\ DOMAIN hdr' = {HeapStart}
            /\ hdr'[HeapStart] = [next |-> 0, prev |-> 0, allocated |-> 0,
                                  size |-> HeapSize - HeaderSize]
            /\ first' = HeapStart /\ up' = TRUE
            /\ UNCHANGED <<want, cursor, owned, reply>>
        BY <2>2, <3>3 DEF heap_init
      <4>2. hdr' \in [DOMAIN hdr' -> MemoryChunk]
        BY <2>2, <3>3 DEF heap_init, MemoryChunk
      <4>3. TypeOK'
        BY <4>1, <4>2 DEF HeapInv, TypeOK
      <4>4. Tiled(hdr')
        BY <4>1, <3>3 DEF Tiled, InArena, NextLinks, PrevLinks, Ordered,
                          StartIsChunk, EndOf, HeapEnd
      <4>5. HeadIsFirst' /\ NoAdjacentFree' /\ OwnedIsAllocated'
        BY <3>1, <3>3, <4>1 DEF HeadIsFirst, NoAdjacentFree, NextFree,
                                OwnedIsAllocated
      <4>6. CursorOnList' /\ FirstFit'
        BY <3>1, <4>1 DEF CursorOnList, FirstFit
      <4> QED BY <4>3, <4>4, <4>5, <4>6 DEF HeapInv
    <3> QED BY <3>2, <3>3
  <2>3. ASSUME NEW n \in Requests, malloc(n)
        PROVE  HeapInv'
    <3>1. TypeOK' /\ Tiled(hdr') /\ HeadIsFirst' /\ NoAdjacentFree' /\ OwnedIsAllocated'
      BY <2>3 DEF malloc, HeapInv, TypeOK, HeadIsFirst, NoAdjacentFree, NextFree,
                  OwnedIsAllocated
    <3>2. CursorOnList'
      <4>1. n # Idle
        BY DEF Idle
      <4>2. first = 0 \/ first \in DOMAIN hdr
        BY DEF HeapInv, HeadIsFirst, Tiled, StartIsChunk
      <4> QED BY <2>3, <4>1, <4>2 DEF malloc, CursorOnList
    <3>3. FirstFit'
      BY <2>3 DEF malloc, HeapInv, TypeOK, HeadIsFirst, FirstFit, Tiled, InArena
    <3> QED BY <3>1, <3>2, <3>3 DEF HeapInv
  <2>4. CASE malloc_next
    <3>1. cursor \in DOMAIN hdr /\ want' = want /\ hdr' = hdr
      BY <2>4 DEF malloc_next, HeapInv, CursorOnList
    <3>2. TypeOK' /\ Tiled(hdr') /\ HeadIsFirst' /\ NoAdjacentFree' /\ OwnedIsAllocated'
      BY <2>4, <3>1 DEF malloc_next, HeapInv, TypeOK, MemoryChunk, HeadIsFirst,
                  NoAdjacentFree, NextFree, OwnedIsAllocated
    <3>3. CursorOnList'
      BY <2>4, <3>1 DEF malloc_next, HeapInv, CursorOnList, Tiled, NextLinks
    <3>4. FirstFit'
      <4> SUFFICES ASSUME NEW d \in DOMAIN hdr, cursor' = 0 \/ d < cursor', d # cursor
                   PROVE  d < cursor
        BY <2>4, <3>1 DEF malloc_next, HeapInv, FirstFit, Fits
      <4>1. cursor' = IF hdr[cursor].next = 0 THEN 0 ELSE EndOf(hdr, cursor)
        BY <2>4, <2>1, <3>1 DEF malloc_next, Tiled, NextLinks
      <4>2. hdr[cursor].next = 0 => EndOf(hdr, cursor) = HeapEnd
        BY <2>1, <3>1 DEF Tiled, NextLinks
      <4>3. cursor < d => EndOf(hdr, cursor) <= d
        BY <2>1, <3>1 DEF Tiled, Ordered
      <4>4. d < EndOf(hdr, d) /\ EndOf(hdr, d) <= HeapEnd
        BY <2>1 DEF Tiled, InArena, EndOf, IsList, MemoryChunk
      <4>5. /\ d \in Nat /\ cursor \in Nat \ {0} /\ EndOf(hdr, d) \in Nat
            /\ EndOf(hdr, cursor) \in Nat \ {0} /\ HeapEnd \in Nat
        BY <2>1, <3>1 DEF IsList, EndOf, MemoryChunk, HeapEnd
      <4> QED BY <4>1, <4>2, <4>3, <4>4, <4>5
    <3> QED BY <3>2, <3>3, <3>4 DEF HeapInv
  <2>5. CASE malloc_take
    <3>1. /\ cursor \in DOMAIN hdr /\ want \in Nat /\ Fits(hdr, cursor, want)
          /\ hdr' = Take(hdr, cursor, want)
      BY <2>5 DEF malloc_take, HeapInv, TypeOK, CursorOnList
    <3>2. TakeEffect(hdr, hdr', cursor, want)
      BY <2>1, <3>1, TakeCorrect
    <3>3. Payload(cursor) \in Nat /\ Payload(cursor) - HeaderSize = cursor
      BY <2>1, <3>1 DEF IsList, Payload
    <3>4. TypeOK'
      <4>1. DOMAIN hdr' \subseteq Nat \ {0} /\ hdr' \in [DOMAIN hdr' -> MemoryChunk]
        BY <3>2 DEF TakeEffect, IsList
      <4>2. DOMAIN owned' \subseteq Nat /\ owned' \in [DOMAIN owned' -> Nat]
        BY <2>5, <3>1, <3>3 DEF malloc_take, HeapInv, TypeOK
      <4> QED BY <2>5, <3>3, <4>1, <4>2 DEF malloc_take, HeapInv, TypeOK
    <3>5. Tiled(hdr') /\ NoAdjacentFree'
      BY <3>2 DEF TakeEffect, NoAdjacentFree, SideBySide
    <3>6. HeadIsFirst'
      BY <2>5, <3>1, <3>2 DEF malloc_take, HeapInv, HeadIsFirst, TakeEffect
    <3>7. OwnedIsAllocated'
      <4>1. \A p \in DOMAIN owned : p # Payload(cursor) /\ p - HeaderSize # cursor
        BY <2>1, <3>1 DEF HeapInv, OwnedIsAllocated, Fits, TypeOK, Payload, IsList
      <4>2. /\ DOMAIN owned' = DOMAIN owned \cup {Payload(cursor)}
            /\ owned'[Payload(cursor)] = want
            /\ \A p \in DOMAIN owned : owned'[p] = owned[p]
        BY <2>5, <4>1 DEF malloc_take
      <4>3. \A p \in DOMAIN owned' : /\ p - HeaderSize \in DOMAIN hdr'
                                     /\ hdr'[p - HeaderSize].allocated = 1
                                     /\ owned'[p] <= hdr'[p - HeaderSize].size
        <5> SUFFICES ASSUME NEW p \in DOMAIN owned'
                     PROVE  /\ p - HeaderSize \in DOMAIN hdr'
                            /\ hdr'[p - HeaderSize].allocated = 1
                            /\ owned'[p] <= hdr'[p - HeaderSize].size
          OBVIOUS
        <5>1. CASE p = Payload(cursor)
          <6>1. hdr'[cursor].size \in Nat /\ hdr'[cursor].size >= want
            BY <3>1, <3>2 DEF TakeEffect, IsList, MemoryChunk
          <6> QED BY <3>1, <3>2, <3>3, <4>2, <5>1, <6>1 DEF TakeEffect
        <5>2. CASE p \in DOMAIN owned
          BY <3>2, <4>1, <4>2, <5>2 DEF TakeEffect, HeapInv, OwnedIsAllocated
        <5> QED BY <4>2, <5>1, <5>2
      <4>4. \A d \in DOMAIN hdr' : hdr'[d].allocated = 1 => Payload(d) \in DOMAIN owned'
        BY <3>2, <4>2 DEF TakeEffect, HeapInv, OwnedIsAllocated
      <4> QED BY <4>3, <4>4 DEF OwnedIsAllocated
    <3>8. CursorOnList' /\ FirstFit'
      BY <2>5 DEF malloc_take, CursorOnList, FirstFit
    <3> QED BY <3>4, <3>5, <3>6, <3>7, <3>8 DEF HeapInv
  <2>6. CASE malloc_fail
    BY <2>6 DEF malloc_fail, HeapInv, TypeOK, HeadIsFirst, NoAdjacentFree, NextFree,
                OwnedIsAllocated, CursorOnList, FirstFit
  <2>7. ASSUME NEW p \in DOMAIN owned, free(p)
        PROVE  HeapInv'
    <3> DEFINE c == p - HeaderSize
    <3>1. c \in DOMAIN hdr /\ hdr[c].allocated = 1 /\ hdr' = FreeChunk(hdr, c)
      BY <2>7 DEF free, HeapInv, OwnedIsAllocated
    <3>2. FreeEffect(hdr, hdr', c)
      <4> HIDE DEF c
      <4> QED BY <2>1, <3>1, FreeChunkCorrect
    <3>3. TypeOK'
      <4>1. DOMAIN hdr' \subseteq Nat \ {0} /\ hdr' \in [DOMAIN hdr' -> MemoryChunk]
        BY <3>2 DEF FreeEffect, IsList
      <4>2. DOMAIN owned' \subseteq Nat /\ owned' \in [DOMAIN owned' -> Nat]
        BY <2>7 DEF free, HeapInv, TypeOK
      <4> QED BY <2>7, <4>1, <4>2 DEF free, HeapInv, TypeOK
    <3>4. Tiled(hdr') /\ NoAdjacentFree'
      BY <3>2 DEF FreeEffect, NoAdjacentFree, SideBySide
    <3>5. HeadIsFirst'
      BY <2>7, <3>1, <3>2 DEF free, HeapInv, HeadIsFirst, FreeEffect
    <3>6. OwnedIsAllocated'
      <4>1. \A q \in DOMAIN owned' :
              q \in DOMAIN owned /\ q # p /\ owned'[q] = owned[q]
        BY <2>7 DEF free
      <4>2. \A q \in DOMAIN owned' : q - HeaderSize # c
        BY <2>7, <4>1 DEF HeapInv, TypeOK
      <4>3. \A q \in DOMAIN owned' : /\ q - HeaderSize \in DOMAIN hdr'
                                     /\ hdr'[q - HeaderSize].allocated = 1
                                     /\ owned'[q] <= hdr'[q - HeaderSize].size
        BY <3>2, <4>1, <4>2 DEF FreeEffect, HeapInv, OwnedIsAllocated
      <4>4. \A d \in DOMAIN hdr' : hdr'[d].allocated = 1 => Payload(d) # p
        BY <2>1, <2>7, <3>2 DEF FreeEffect, Payload, HeapInv, TypeOK, IsList
      <4>5. \A d \in DOMAIN hdr' : hdr'[d].allocated = 1 => Payload(d) \in DOMAIN owned'
        BY <2>7, <3>2, <4>4 DEF FreeEffect, HeapInv, OwnedIsAllocated, free
      <4> QED BY <4>3, <4>5 DEF OwnedIsAllocated
    <3>7. CursorOnList' /\ FirstFit'
      BY <2>7 DEF free, HeapInv, CursorOnList, FirstFit
    <3> QED BY <3>3, <3>4, <3>5, <3>6, <3>7 DEF HeapInv
  <2>8. CASE UNCHANGED vars
    BY <2>8 DEF vars, HeapInv, TypeOK, HeadIsFirst, NoAdjacentFree, NextFree,
                OwnedIsAllocated, CursorOnList, FirstFit
  <2> QED BY <2>2, <2>3, <2>4, <2>5, <2>6, <2>7, <2>8 DEF Next
<1> QED BY <1>1, <1>2, PTL DEF Spec

----------------------------------------------------------------------------
\* Blocks in use lie apart from one another and from every header.
LEMMA InvNoOverlap == HeapInv => NoOverlap
<1> USE HeapAssumption
<1> SUFFICES ASSUME HeapInv, NEW p \in DOMAIN owned
             PROVE  /\ \A q \in DOMAIN owned \ {p} :
                         p + owned[p] <= q \/ q + owned[q] <= p
                    /\ \A c \in DOMAIN hdr :
                         c + HeaderSize <= p \/ p + owned[p] <= c
  BY DEF NoOverlap
<1>1. \A q \in DOMAIN owned :
        /\ q \in Nat /\ owned[q] \in Nat
        /\ q - HeaderSize \in DOMAIN hdr
        /\ q + owned[q] <= EndOf(hdr, q - HeaderSize)
  BY DEF HeapInv, TypeOK, OwnedIsAllocated, EndOf, MemoryChunk
<1>2. \A c \in DOMAIN hdr : c \in Nat /\ EndOf(hdr, c) \in Nat
                            /\ c + HeaderSize <= EndOf(hdr, c)
  BY DEF HeapInv, TypeOK, EndOf, MemoryChunk
<1>3. \A c, d \in DOMAIN hdr : c < d => EndOf(hdr, c) <= d
  BY DEF HeapInv, Tiled, Ordered
<1>4. ASSUME NEW q \in DOMAIN owned \ {p}
      PROVE  p + owned[p] <= q \/ q + owned[q] <= p
  <2>1. p - HeaderSize < q - HeaderSize \/ q - HeaderSize < p - HeaderSize
    BY <1>1, <1>4
  <2> QED BY <1>1, <1>2, <1>3, <2>1
<1>5. ASSUME NEW c \in DOMAIN hdr
      PROVE  c + HeaderSize <= p \/ p + owned[p] <= c
  <2>1. c <= p - HeaderSize \/ p - HeaderSize < c
    BY <1>1, <1>2
  <2> QED BY <1>1, <1>2, <1>3, <2>1
<1> QED BY <1>4, <1>5

\* With no block in use the list is the single chunk heap_init made.
LEMMA InvNoLostMemory == HeapInv => NoLostMemory
<1> USE HeapAssumption
<1> SUFFICES ASSUME HeapInv, up, HeapSize >= HeaderSize, DOMAIN owned = {}
             PROVE  /\ DOMAIN hdr = {HeapStart}
                    /\ hdr[HeapStart].size = HeapSize - HeaderSize
                    /\ hdr[HeapStart].allocated = 0
  BY DEF NoLostMemory
<1>1. \A c \in DOMAIN hdr : hdr[c].allocated = 0
  BY DEF HeapInv, TypeOK, MemoryChunk, OwnedIsAllocated
<1>2. HeapStart \in DOMAIN hdr
  BY DEF HeapInv, HeadIsFirst, Tiled, StartIsChunk
<1>3. hdr[HeapStart].next = 0
  BY <1>1, <1>2 DEF HeapInv, NoAdjacentFree, NextFree, Tiled, NextLinks
<1>4. EndOf(hdr, HeapStart) = HeapEnd
  BY <1>2, <1>3 DEF HeapInv, Tiled, NextLinks
<1>5. ASSUME NEW d \in DOMAIN hdr, d # HeapStart
      PROVE  FALSE
  <2>1. d \in Nat /\ HeapStart < d
    BY <1>5 DEF HeapInv, TypeOK, Tiled, InArena
  <2>2. HeapEnd <= d
    BY <1>2, <1>4, <2>1 DEF HeapInv, Tiled, Ordered
  <2>3. d < EndOf(hdr, d) /\ EndOf(hdr, d) <= HeapEnd /\ EndOf(hdr, d) \in Nat
    BY DEF HeapInv, TypeOK, Tiled, InArena, EndOf, MemoryChunk
  <2> QED BY <2>1, <2>2, <2>3 DEF HeapEnd
<1>6. hdr[HeapStart].size = HeapSize - HeaderSize
  BY <1>2, <1>4 DEF HeapInv, TypeOK, EndOf, MemoryChunk, HeapEnd
<1> QED BY <1>1, <1>2, <1>5, <1>6

\* malloc never hands out memory that is in use, nor memory that holds a
\* header of the chunk list.
THEOREM HeapNoOverlap == Spec => []NoOverlap
BY HeapInvariant, InvNoOverlap, PTL

\* No sequence of malloc and free loses memory to fragmentation.
THEOREM HeapNoLostMemory == Spec => []NoLostMemory
BY HeapInvariant, InvNoLostMemory, PTL

\* malloc takes the lowest chunk that fits and refuses only when none does.
THEOREM HeapFirstFit == Spec => []FirstFit
<1>1. HeapInv => FirstFit
  BY DEF HeapInv
<1> QED BY <1>1, HeapInvariant, PTL

(***************************************************************************)
(* The heap implements Allocator: granted blocks are in the arena and      *)
(* apart, and with nothing outstanding a request is refused only when it   *)
(* is as large as the whole arena's payload.                               *)
(***************************************************************************)
THEOREM HeapImplementsAllocator == Spec => AllocatorSpec
<1> USE HeapAssumption
<1>1. Init => Abstract!Init
  BY DEF Init, Abstract!Init, Abstract!NoBlocks, Idle, Abstract!Idle
<1>2. HeapInv /\ HeapInv' /\ [Next]_vars => [Abstract!Next]_(Abstract!avars)
  <2> SUFFICES ASSUME HeapInv, HeapInv', [Next]_vars
               PROVE  [Abstract!Next]_(Abstract!avars)
    OBVIOUS
  <2> USE DEF Idle, Abstract!Idle
  <2>1. CASE heap_init
    <3>1. Abstract!Setup
      BY <2>1 DEF heap_init, Abstract!Setup
    <3> QED BY <3>1 DEF Abstract!Next
  <2>2. ASSUME NEW n \in Requests, malloc(n)
        PROVE  [Abstract!Next]_(Abstract!avars)
    <3>1. Abstract!Ask(n)
      BY <2>2 DEF malloc, Abstract!Ask
    <3> QED BY <3>1 DEF Abstract!Next
  <2>3. CASE malloc_next
    BY <2>3 DEF malloc_next, Abstract!avars
  <2>4. CASE malloc_take
    <3> DEFINE p == Payload(cursor)
    <3>1. /\ cursor \in DOMAIN hdr /\ cursor \in Nat /\ want \in Nat
          /\ hdr[cursor].size \in Nat /\ hdr[cursor].size > want
          /\ hdr[cursor].allocated = 0
      BY <2>4 DEF malloc_take, HeapInv, TypeOK, CursorOnList, Fits, MemoryChunk
    <3>2. up
      BY <3>1 DEF HeapInv, HeadIsFirst
    <3>3. HeapStart <= p /\ p + want <= HeapEnd /\ p \in HeapStart .. HeapEnd
      BY <3>1 DEF HeapInv, Tiled, InArena, EndOf, Payload, HeapEnd
    <3>4. p \notin DOMAIN owned
      BY <3>1 DEF HeapInv, OwnedIsAllocated, Payload
    <3>5. DOMAIN owned' = DOMAIN owned \cup {p} /\ owned'[p] = want
          /\ \A q \in DOMAIN owned : owned'[q] = owned[q]
      BY <2>4, <3>4 DEF malloc_take
    <3>6. NoOverlap'
      <4>1. HeapInv' => NoOverlap'
        BY InvNoOverlap, PTL
      <4> QED BY <4>1
    <3>7. \A q \in DOMAIN owned : Abstract!Apart(p, want, q, owned[q])
      BY <3>4, <3>5, <3>6 DEF NoOverlap, Abstract!Apart
    <3>8. Abstract!Grant(p)
      BY <2>4, <3>2, <3>3, <3>7 DEF malloc_take, Abstract!Grant
    <3> QED BY <3>3, <3>8 DEF Abstract!Next
  <2>5. CASE malloc_fail
    <3>1. want \in Nat /\ want # Idle /\ cursor = 0
      BY <2>5 DEF malloc_fail, HeapInv, TypeOK
    <3>2. ~up \/ DOMAIN owned # {} \/ want >= HeapSize - HeaderSize
      <4> SUFFICES ASSUME up, DOMAIN owned = {}
                   PROVE  want >= HeapSize - HeaderSize
        OBVIOUS
      <4>1. CASE HeapSize < HeaderSize
        BY <3>1, <4>1
      <4>2. CASE HeapSize >= HeaderSize
        <5>1. NoLostMemory
          BY InvNoLostMemory
        <5>2. /\ HeapStart \in DOMAIN hdr
              /\ hdr[HeapStart].size = HeapSize - HeaderSize
              /\ hdr[HeapStart].allocated = 0
          BY <4>2, <5>1 DEF NoLostMemory
        <5>3. ~Fits(hdr, HeapStart, want)
          BY <3>1, <5>2 DEF HeapInv, FirstFit
        <5> QED BY <3>1, <5>2, <5>3 DEF Fits
      <4> QED BY <4>1, <4>2
    <3>3. Abstract!Refuse
      BY <2>5, <3>1, <3>2 DEF malloc_fail, Abstract!Refuse
    <3> QED BY <3>3 DEF Abstract!Next
  <2>6. ASSUME NEW p \in DOMAIN owned, free(p)
        PROVE  [Abstract!Next]_(Abstract!avars)
    <3>1. Abstract!Release(p)
      BY <2>6 DEF free, Abstract!Release
    <3> QED BY <3>1 DEF Abstract!Next
  <2>7. CASE UNCHANGED vars
    BY <2>7 DEF vars, Abstract!avars
  <2> QED BY <2>1, <2>2, <2>3, <2>4, <2>5, <2>6, <2>7 DEF Next
<1> QED BY <1>1, <1>2, HeapInvariant, PTL DEF Spec, AllocatorSpec, Abstract!Spec
=============================================================================
