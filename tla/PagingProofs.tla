---------------------------- MODULE PagingProofs ----------------------------
(***************************************************************************)
(* KernelIdentity and MappedAsAsked of Paging, for tables of any size.     *)
(*                                                                         *)
(* Both rest on what page 0 holds (OwnDirectory): entry i leads to page i, *)
(* present and writable.  Read as the directory it makes physical page d   *)
(* the table of the d-th 4 MiB, read as the first table it is the identity *)
(* of the first 4 MiB; all map_page adds to it are attributes.  A table of *)
(* user pages is in memory the kernel does not use, so that only map_page  *)
(* writes to it; there the words left over must have bit 31 clear          *)
(* (TablesClean), which SET_FRAME would keep.                              *)
(***************************************************************************)
EXTENDS Paging, TLAPS

OwnDirectory ==
  on => \A i \in Index : /\ mem[<<0, 0>>][i].frame = <<0, i>>
                         /\ {"PRESENT", "RW"} \subseteq mem[<<0, 0>>][i].flags

KernelCached == \A v \in Low : tlb[v] \in {None, v}

AskedOn == ~on => \A v \in Low \cup UserPages : tlb[v] = None /\ asked[v] = {}

KernelAsked == \A v \in Low : asked[v] \subseteq mem[<<0, 0>>][v[2]].flags

KernelInv ==
  TypeOK /\ OwnDirectory /\ KernelCached /\ AskedOn /\ KernelAsked

CleanLeftover == \A e \in Leftover : e.frame[1] < Half

TablesClean ==
  \A v \in UserPages, i \in Index : mem[<<0, v[1]>>][i].frame[1] < Half

UserMapped ==
  \A v \in UserPages : asked[v] # {} =>
    /\ mem[<<0, v[1]>>][v[2]].frame = v
    /\ asked[v] \subseteq mem[<<0, v[1]>>][v[2]].flags
    /\ tlb[v] \in {None, v}

UserInv == TablesClean /\ UserMapped

----------------------------------------------------------------------------
LEMMA Basics ==
  /\ N \in Nat /\ 0 \in Index /\ <<0, 0>> \in Low
  /\ Low \subseteq Page /\ UserPages \subseteq Page
  /\ KernelMemory \subseteq Low
  /\ \A v \in Low : v = <<0, v[2]>> /\ v[1] = 0 /\ v[2] \in Index
  /\ \A i \in Index : <<0, i>> \in Low
  /\ \A v \in UserPages : /\ v[1] \in Index /\ v[2] \in Index /\ v[1] # 0
                          /\ v[1] < Half /\ v = <<v[1], v[2]>>
                          /\ <<0, v[1]>> \in Low /\ <<0, v[1]>> # <<0, 0>>
                          /\ <<0, v[1]>> \notin KernelMemory
  /\ Low \cap UserPages = {}
<1>1. N \in Nat /\ 0 \in Index /\ <<0, 0>> \in Low
  BY PagingAssumption DEF N, Index, Low
<1>2. Low \subseteq Page /\ UserPages \subseteq Page
  BY PagingAssumption DEF N, Index, Low, Page
<1>3. KernelMemory \subseteq Low
  BY PagingAssumption
<1>4. \A v \in Low : v = <<0, v[2]>> /\ v[1] = 0 /\ v[2] \in Index
  BY DEF Low
<1>5. \A i \in Index : <<0, i>> \in Low
  BY DEF Low
<1>6. \A v \in UserPages : /\ v[1] \in Index /\ v[2] \in Index /\ v[1] # 0
                           /\ v[1] < Half /\ v = <<v[1], v[2]>>
                           /\ <<0, v[1]>> \in Low /\ <<0, v[1]>> # <<0, 0>>
                           /\ <<0, v[1]>> \notin KernelMemory
  <2> TAKE v \in UserPages
  <2>1. v \in (1 .. Half - 1) \X Index
    BY PagingAssumption
  <2>2. v[1] \in 1 .. Half - 1 /\ v[2] \in Index /\ v = <<v[1], v[2]>>
    BY <2>1
  <2>3. v[1] \in Index /\ v[1] # 0 /\ v[1] < Half
    BY <2>2, PagingAssumption DEF N, Index
  <2>4. <<0, v[1]>> \in Low /\ <<0, v[1]>> # <<0, 0>>
    BY <2>3, <1>5
  <2> QED
    BY <2>2, <2>3, <2>4, PagingAssumption
<1>7. Low \cap UserPages = {}
  BY <1>4, <1>6
<1> QED
  BY <1>1, <1>2, <1>3, <1>4, <1>5, <1>6, <1>7

LEMMA InitInv == Init => KernelInv
<1> SUFFICES ASSUME Init PROVE KernelInv
  OBVIOUS
<1>1. mem \in [Low -> [Index -> Entries]]
  BY PagingAssumption DEF Init
<1>2. tlb \in [Low \cup UserPages -> Page \cup {None}]
  BY DEF Init
<1>3. asked \in [Low \cup UserPages -> SUBSET Attributes]
  BY DEF Init
<1>4. TypeOK /\ OwnDirectory
  BY <1>1, <1>2, <1>3 DEF Init, TypeOK, OwnDirectory
<1>5. KernelCached /\ AskedOn /\ KernelAsked
  BY DEF Init, KernelCached, AskedOn, KernelAsked
<1> QED
  BY <1>4, <1>5 DEF KernelInv

LEMMA PutType ==
  ASSUME NEW m \in [Low -> [Index -> Entries]], NEW p \in Low,
         NEW i \in Index, NEW e \in Entries
  PROVE  /\ Put(m, p, i, e) \in [Low -> [Index -> Entries]]
         /\ \A q \in Low, j \in Index :
              Put(m, p, i, e)[q][j] = IF q = p /\ j = i THEN e ELSE m[q][j]
BY DEF Put

\* The entry map_page writes.
LEMMA MappedEntry ==
  ASSUME NEW e \in Entries, NEW v \in Low \cup UserPages,
         NEW low \in SUBSET Attributes, NEW flags \in SUBSET Attributes
  PROVE  /\ Mapped(e, v, low, flags) \in Entries
         /\ Mapped(e, v, low, flags).flags = e.flags \cup flags \cup {"PRESENT"} \cup low
         /\ e.frame[1] < Half => Mapped(e, v, low, flags).frame = v
<1>1. v \in Page /\ v = <<v[1], v[2]>> /\ v[1] < Half /\ v[1] + Half \in Index
  BY Basics, PagingAssumption DEF Page, Index, N
<1>2. e.frame \in Page /\ e.frame[1] \in Index /\ e.flags \subseteq Attributes
  BY DEF Entries, Page
<1>3. Mapped(e, v, low, flags) =
        [frame |-> <<IF e.frame[1] >= Half /\ v[1] < Half THEN v[1] + Half ELSE v[1],
                     v[2]>>,
         flags |-> (e.flags \cup (flags \cup {"PRESENT"})) \cup low]
  BY DEF Mapped, SET_FRAME, SET_ATTRIBUTE
<1>4. <<IF e.frame[1] >= Half /\ v[1] < Half THEN v[1] + Half ELSE v[1], v[2]>> \in Page
  BY <1>1 DEF Page
<1>5. e.flags \cup (flags \cup {"PRESENT"}) \cup low \subseteq Attributes
  BY <1>2 DEF Attributes
<1>6. Mapped(e, v, low, flags) \in Entries
  BY <1>3, <1>4, <1>5 DEF Entries
<1>7. e.frame[1] < Half => Mapped(e, v, low, flags).frame = v
  BY <1>1, <1>2, <1>3, PagingAssumption DEF Index, N
<1> QED
  BY <1>3, <1>6, <1>7

\* map_page finds the directory entry present, and page d is the table.
LEMMA MapPage ==
  ASSUME KernelInv, NEW v \in Low \cup UserPages, NEW low \in SUBSET Attributes,
         NEW flags \in SUBSET Attributes, map_page(v, low, flags)
  PROVE  LET e == mem[<<0, v[1]>>][v[2]]
         IN  /\ on /\ on' /\ e \in Entries /\ <<0, v[1]>> \in Low /\ v[2] \in Index
             /\ mem' = Put(mem, <<0, v[1]>>, v[2], Mapped(e, v, low, flags))
             /\ tlb' = [tlb EXCEPT ![v] = None]
             /\ asked' = [asked EXCEPT ![v] = @ \cup flags]
<1>1. on /\ on'
  BY DEF map_page
<1>2. v[1] \in Index /\ v[2] \in Index
  BY Basics
<1>3. /\ mem[<<0, 0>>][v[1]].frame = <<0, v[1]>>
      /\ "PRESENT" \in mem[<<0, 0>>][v[1]].flags
  BY <1>1, <1>2 DEF KernelInv, OwnDirectory
<1>4. WithTable(mem, PD_INDEX(v)) = mem
  BY <1>3 DEF WithTable, PD_INDEX, directory, alloc_blocks
<1>5. mem' = Put(mem, <<0, v[1]>>, v[2], Mapped(mem[<<0, v[1]>>][v[2]], v, low, flags))
  BY <1>3, <1>4 DEF map_page, PD_INDEX, PT_INDEX, directory, alloc_blocks
<1>6. <<0, v[1]>> \in Low
  BY <1>2, Basics
<1>7. mem[<<0, v[1]>>][v[2]] \in Entries
  BY <1>2, <1>6 DEF KernelInv, TypeOK
<1>8. /\ tlb' = [tlb EXCEPT ![v] = None]
      /\ asked' = [asked EXCEPT ![v] = @ \cup flags]
  BY DEF map_page, flush_tlb_entry
<1> QED
  BY <1>1, <1>2, <1>5, <1>6, <1>7, <1>8

\* Page 0 after paging_enable.
LEMMA EnableDirectory ==
  ASSUME TypeOK, paging_enable
  PROVE  /\ mem' \in [Low -> [Index -> Entries]]
         /\ \A q \in Low \ {<<0, 0>>} : mem'[q] = mem[q]
         /\ \A i \in Index : /\ mem'[<<0, 0>>][i].frame = <<0, i>>
                            /\ mem'[<<0, 0>>][i].flags = {"PRESENT", "RW"}
<1> DEFINE first == [frame |-> <<0, 0>>, flags |-> {"PRESENT", "RW"}]
<1>1. Identity \in [Index -> Entries] /\ 0 \in Index /\ <<0, 0>> \in Low
  BY Basics DEF Identity, Entries, Page, Attributes
<1>2. Identity[0] = first
  BY <1>1 DEF Identity
<1>3. PointTo(first, <<0, 0>>) = first
  <2>1. {"PRESENT", "RW"} \cup {"PRESENT", "RW"} \cup {} = {"PRESENT", "RW"}
    OBVIOUS
  <2>2. SET_ATTRIBUTE(first, {"PRESENT", "RW"}) =
          [frame |-> <<0, 0>>, flags |-> {"PRESENT", "RW"} \cup {"PRESENT", "RW"}]
    BY DEF SET_ATTRIBUTE
  <2>3. PointTo(first, <<0, 0>>) =
          [frame |-> <<0, 0>>, flags |-> {"PRESENT", "RW"} \cup {"PRESENT", "RW"} \cup {}]
    BY <2>2, PagingAssumption DEF PointTo, SET_FRAME
  <2> QED
    BY <2>1, <2>3
<1>4. mem \in [Low -> [Index -> Entries]]
  BY DEF TypeOK
<1> DEFINE m == SetTable(SetTable(mem, <<0, 0>>, [i \in Index |-> Blank({"RW"})]),
                         <<0, 0>>, Identity)
<1>5. m = [mem EXCEPT ![<<0, 0>>] = Identity]
  BY <1>1, <1>4 DEF SetTable
<1>6. mem' = Put(m, <<0, 0>>, 0, PointTo(m[<<0, 0>>][0], <<0, 0>>))
  BY DEF paging_enable, directory, alloc_blocks
<1> HIDE DEF m, first
<1>7. m \in [Low -> [Index -> Entries]] /\ m[<<0, 0>>] = Identity
  BY <1>1, <1>4, <1>5
<1>8. mem' = Put(m, <<0, 0>>, 0, first)
  BY <1>2, <1>3, <1>6, <1>7
<1>9. Put(m, <<0, 0>>, 0, first) = m
  BY <1>1, <1>2, <1>7 DEF Put
<1>10. mem' = m
  BY <1>8, <1>9
<1>11. \A q \in Low \ {<<0, 0>>} : m[q] = mem[q]
  BY <1>4, <1>5
<1>12. \A i \in Index : /\ Identity[i].frame = <<0, i>>
                        /\ Identity[i].flags = {"PRESENT", "RW"}
  BY DEF Identity
<1> QED
  BY <1>7, <1>10, <1>11, <1>12

LEMMA NextKernelInv ==
  ASSUME KernelInv, [Next]_vars
  PROVE  KernelInv'
<1> USE DEF KernelInv
<1>0. CASE UNCHANGED vars
  BY <1>0 DEF vars, TypeOK, OwnDirectory, KernelCached, AskedOn, KernelAsked
<1>1. CASE paging_enable
  <2>1. UNCHANGED <<tlb, asked>> /\ ~on /\ on'
    BY <1>1 DEF paging_enable
  <2>2. TypeOK' /\ OwnDirectory'
    BY <1>1, <2>1, EnableDirectory DEF TypeOK, OwnDirectory
  <2>3. KernelCached' /\ AskedOn'
    BY <2>1 DEF KernelCached, AskedOn
  <2>4. KernelAsked'
    BY <2>1 DEF AskedOn, KernelAsked
  <2> QED
    BY <2>2, <2>3, <2>4
<1>2. ASSUME NEW v \in Low \cup UserPages, NEW low \in SUBSET Attributes,
             NEW flags \in SUBSET Attributes, map_page(v, low, flags)
      PROVE  KernelInv'
  <2> DEFINE e == mem[<<0, v[1]>>][v[2]]
             new == Mapped(e, v, low, flags)
  <2>1. /\ on /\ on' /\ e \in Entries /\ <<0, v[1]>> \in Low /\ v[2] \in Index
        /\ mem' = Put(mem, <<0, v[1]>>, v[2], new)
        /\ tlb' = [tlb EXCEPT ![v] = None]
        /\ asked' = [asked EXCEPT ![v] = @ \cup flags]
    BY <1>2, MapPage
  <2>2. /\ new \in Entries
        /\ new.flags = e.flags \cup flags \cup {"PRESENT"} \cup low
        /\ e.frame[1] < Half => new.frame = v
    <3> HIDE DEF e, KernelInv
    <3> QED
      BY <2>1, MappedEntry
  <2> HIDE DEF new
  <2>3. /\ mem' \in [Low -> [Index -> Entries]]
        /\ \A q \in Low, j \in Index :
             mem'[q][j] = IF q = <<0, v[1]>> /\ j = v[2] THEN new ELSE mem[q][j]
    <3>1. mem \in [Low -> [Index -> Entries]]
      BY DEF TypeOK
    <3> HIDE DEF KernelInv
    <3>2. /\ Put(mem, <<0, v[1]>>, v[2], new) \in [Low -> [Index -> Entries]]
          /\ \A q \in Low, j \in Index :
               Put(mem, <<0, v[1]>>, v[2], new)[q][j]
                 = IF q = <<0, v[1]>> /\ j = v[2] THEN new ELSE mem[q][j]
      BY <2>1, <2>2, <3>1 DEF Put
    <3> QED
      BY <2>1, <3>2
  <2>4. TypeOK'
    BY <2>1, <2>3 DEF TypeOK
  <2>5. OwnDirectory' /\ KernelAsked'
    <3>1. CASE v \in UserPages
      <4>1. \A j \in Index : mem'[<<0, 0>>][j] = mem[<<0, 0>>][j]
        BY <3>1, <2>3, Basics
      <4>2. \A w \in Low : asked'[w] = asked[w]
        BY <3>1, <2>1, Basics DEF TypeOK
      <4> QED
        BY <4>1, <4>2, <2>1, Basics DEF OwnDirectory, KernelAsked
    <3>2. CASE v \in Low
      <4>1. v = <<0, v[2]>> /\ v[1] = 0
        BY <3>2, Basics
      <4>2. e.frame = v /\ {"PRESENT", "RW"} \subseteq e.flags
        BY <4>1, <2>1 DEF OwnDirectory
      <4>3. new.frame = v
        BY <4>1, <4>2, <2>2, PagingAssumption
      <4>4. OwnDirectory'
        BY <4>1, <4>2, <4>3, <2>1, <2>2, <2>3, Basics DEF OwnDirectory
      <4>5. asked[v] \subseteq e.flags
        BY <3>2, <4>1 DEF KernelAsked
      <4>6. \A w \in Low : w # v => w[2] # v[2]
        BY <4>1, Basics
      <4>7. KernelAsked'
        <5> SUFFICES ASSUME NEW w \in Low
                     PROVE  asked'[w] \subseteq mem'[<<0, 0>>][w[2]].flags
          BY DEF KernelAsked
        <5>1. CASE w = v
          BY <5>1, <4>1, <4>5, <2>1, <2>2, <2>3, Basics DEF TypeOK
        <5>2. CASE w # v
          <6>1. w[2] # v[2] /\ w[2] \in Index /\ <<0, 0>> \in Low
            BY <5>2, <4>6, Basics
          <6>2. mem'[<<0, 0>>][w[2]] = mem[<<0, 0>>][w[2]]
            BY <6>1, <2>3
          <6>3. asked'[w] = asked[w]
            BY <5>2, <2>1 DEF TypeOK
          <6> QED
            BY <6>2, <6>3 DEF KernelAsked
        <5> QED
          BY <5>1, <5>2
      <4> QED
        BY <4>4, <4>7
    <3> QED
      BY <3>1, <3>2
  <2>6. KernelCached' /\ AskedOn'
    BY <2>1 DEF KernelCached, AskedOn, TypeOK
  <2> QED
    BY <2>4, <2>5, <2>6
<1>3. ASSUME NEW v \in Low \cup UserPages, access(v)
      PROVE  KernelInv'
  <2>1. /\ on /\ UNCHANGED <<on, mem, asked>>
        /\ tlb' = [tlb EXCEPT ![v] = Walk(v).frame]
    BY <1>3 DEF access
  <2>2. v[1] \in Index /\ v[2] \in Index /\ <<0, v[1]>> \in Low
    BY Basics
  <2>3. Walk(v) = mem[<<0, v[1]>>][v[2]]
    BY <2>1, <2>2 DEF Walk, PD_INDEX, PT_INDEX, directory, alloc_blocks, OwnDirectory
  <2>4. Walk(v).frame \in Page
    BY <2>2, <2>3 DEF TypeOK, Entries
  <2>5. v \in Low => Walk(v).frame = v
    BY <2>1, <2>2, <2>3, Basics DEF OwnDirectory
  <2>6. TypeOK' /\ OwnDirectory' /\ AskedOn' /\ KernelAsked'
    BY <2>1, <2>4 DEF TypeOK, OwnDirectory, AskedOn, KernelAsked
  <2>7. KernelCached'
    BY <2>1, <2>5 DEF KernelCached, TypeOK
  <2> QED
    BY <2>6, <2>7
<1>4. ASSUME NEW p \in KernelMemory, NEW i \in Index, NEW e \in Leftover,
             kernel_store(p, i, e)
      PROVE  KernelInv'
  <2>1. mem' = Put(mem, p, i, e) /\ UNCHANGED <<on, tlb, asked>>
    BY <1>4 DEF kernel_store
  <2>2. p \in Low /\ p # <<0, 0>> /\ e \in Entries
    BY PagingAssumption
  <2>3. /\ mem' \in [Low -> [Index -> Entries]]
        /\ \A j \in Index : mem'[<<0, 0>>][j] = mem[<<0, 0>>][j]
    <3>1. mem \in [Low -> [Index -> Entries]]
      BY DEF TypeOK
    <3> HIDE DEF KernelInv
    <3>2. /\ Put(mem, p, i, e) \in [Low -> [Index -> Entries]]
          /\ \A q \in Low, j \in Index :
               Put(mem, p, i, e)[q][j] = IF q = p /\ j = i THEN e ELSE mem[q][j]
      BY <2>2, <3>1 DEF Put
    <3> QED
      BY <2>1, <2>2, <3>2, Basics
  <2> QED
    BY <2>1, <2>3, Basics DEF TypeOK, OwnDirectory, KernelCached, AskedOn, KernelAsked
<1>5. ASSUME NEW v \in StackPages, NEW low \in SUBSET {"USER"}, map_stack(v, low)
      PROVE  KernelInv'
  BY <1>2, <1>5, PagingAssumption DEF map_stack, Attributes
<1>6. ASSUME NEW v \in UserPages, map_user(v)
      PROVE  KernelInv'
  BY <1>2, <1>6 DEF map_user, Attributes
<1> QED
  BY <1>0, <1>1, <1>3, <1>4, <1>5, <1>6 DEF Next

(***************************************************************************)
(* For tables of any size, whatever untouched memory holds: the first      *)
(* 4 MiB stay mapped onto themselves (paging.c:72-137).                    *)
(***************************************************************************)
THEOREM PagingKernelIdentity == Spec => []KernelIdentity
<1>1. KernelInv => KernelIdentity
  <2> SUFFICES ASSUME KernelInv, on, NEW v \in Low
               PROVE  /\ Walk(v).frame = v
                      /\ {"PRESENT", "RW"} \subseteq Walk(v).flags
                      /\ tlb[v] \in {None, v}
    BY DEF KernelIdentity
  <2>1. v = <<0, v[2]>> /\ v[1] = 0 /\ v[2] \in Index /\ 0 \in Index
    BY Basics
  <2>2. Walk(v) = mem[<<0, 0>>][v[2]]
    BY <2>1 DEF Walk, PD_INDEX, PT_INDEX, directory, alloc_blocks, KernelInv, OwnDirectory
  <2> QED
    BY <2>1, <2>2 DEF KernelInv, OwnDirectory, KernelCached
<1> QED
  BY <1>1, InitInv, NextKernelInv, PTL DEF Spec

----------------------------------------------------------------------------
LEMMA InitUserInv ==
  ASSUME CleanLeftover, Init
  PROVE  UserInv
<1>1. TablesClean
  <2> SUFFICES ASSUME NEW v \in UserPages, NEW i \in Index
               PROVE  mem[<<0, v[1]>>][i].frame[1] < Half
    BY DEF TablesClean
  <2>1. <<0, v[1]>> \in Low
    BY Basics
  <2>2. mem[<<0, v[1]>>][i] \in Leftover
    BY <2>1 DEF Init
  <2> QED
    BY <2>2 DEF CleanLeftover
<1>2. UserMapped
  BY DEF UserMapped, Init
<1> QED
  BY <1>1, <1>2 DEF UserInv

\* The tables and bookkeeping of the user pages are as they were.
LEMMA UserUntouched ==
  ASSUME UserInv, TypeOK,
         \A v \in UserPages, i \in Index : mem'[<<0, v[1]>>][i] = mem[<<0, v[1]>>][i],
         \A v \in UserPages : asked'[v] = asked[v],
         \A v \in UserPages : asked[v] # {} => tlb'[v] \in {None, v}
  PROVE  UserInv'
<1>1. TablesClean'
  BY DEF UserInv, TablesClean
<1>2. UserMapped'
  <2> SUFFICES ASSUME NEW w \in UserPages, asked'[w] # {}
               PROVE  /\ mem'[<<0, w[1]>>][w[2]].frame = w
                      /\ asked'[w] \subseteq mem'[<<0, w[1]>>][w[2]].flags
                      /\ tlb'[w] \in {None, w}
    BY DEF UserMapped
  <2>1. w[2] \in Index
    BY Basics
  <2>2. mem'[<<0, w[1]>>][w[2]] = mem[<<0, w[1]>>][w[2]] /\ asked'[w] = asked[w]
    BY <2>1
  <2> QED
    BY <2>2 DEF UserInv, UserMapped
<1> QED
  BY <1>1, <1>2 DEF UserInv

LEMMA NextUserInv ==
  ASSUME CleanLeftover, KernelInv, UserInv, [Next]_vars
  PROVE  UserInv'
<1>0. CASE UNCHANGED vars
  BY <1>0 DEF vars, UserInv, TablesClean, UserMapped
<1>a. TypeOK
  BY DEF KernelInv
<1>1. CASE paging_enable
  <2>1. UNCHANGED <<tlb, asked>> /\ \A q \in Low \ {<<0, 0>>} : mem'[q] = mem[q]
    BY <1>1, <1>a, EnableDirectory DEF paging_enable
  <2>2. \A v \in UserPages, i \in Index : mem'[<<0, v[1]>>][i] = mem[<<0, v[1]>>][i]
    BY <2>1, Basics
  <2> QED
    BY <2>1, <2>2, <1>a, UserUntouched DEF UserInv, UserMapped
<1>2. ASSUME NEW v \in Low \cup UserPages, NEW low \in SUBSET Attributes,
             NEW flags \in SUBSET Attributes, map_page(v, low, flags)
      PROVE  UserInv'
  <2> DEFINE e == mem[<<0, v[1]>>][v[2]]
             new == Mapped(e, v, low, flags)
  <2>1. /\ e \in Entries /\ <<0, v[1]>> \in Low /\ v[2] \in Index
        /\ mem' = Put(mem, <<0, v[1]>>, v[2], new)
        /\ tlb' = [tlb EXCEPT ![v] = None]
        /\ asked' = [asked EXCEPT ![v] = @ \cup flags]
    BY <1>2, MapPage
  <2>2. /\ new \in Entries
        /\ new.flags = e.flags \cup flags \cup {"PRESENT"} \cup low
        /\ e.frame[1] < Half => new.frame = v
    <3> HIDE DEF e
    <3> QED
      BY <2>1, MappedEntry
  <2> HIDE DEF new
  <2>3. \A q \in Low, j \in Index :
          mem'[q][j] = IF q = <<0, v[1]>> /\ j = v[2] THEN new ELSE mem[q][j]
    <3>1. mem \in [Low -> [Index -> Entries]]
      BY <1>a DEF TypeOK
    <3> QED
      BY <2>1, <2>2, <3>1 DEF Put
  <2>4. CASE v \in Low
    <3>1. v[1] = 0 /\ v \notin UserPages
      BY <2>4, Basics
    <3>2. \A w \in UserPages, i \in Index : mem'[<<0, w[1]>>][i] = mem[<<0, w[1]>>][i]
      BY <3>1, <2>3, Basics
    <3>3. \A w \in UserPages : asked'[w] = asked[w] /\ tlb'[w] = tlb[w]
      BY <3>1, <2>1, <1>a DEF TypeOK
    <3> QED
      BY <3>2, <3>3, <1>a, UserUntouched DEF UserInv, UserMapped
  <2>5. CASE v \in UserPages
    <3>1. e.frame[1] < Half /\ new.frame = v
      BY <2>1, <2>2, <2>5 DEF UserInv, TablesClean
    <3>2. TablesClean'
      <4> SUFFICES ASSUME NEW w \in UserPages, NEW i \in Index
                   PROVE  mem'[<<0, w[1]>>][i].frame[1] < Half
        BY DEF TablesClean
      <4>1. mem[<<0, w[1]>>][i].frame[1] < Half
        BY DEF UserInv, TablesClean
      <4>2. <<0, w[1]>> \in Low /\ v[1] < Half
        BY <2>5, Basics
      <4> QED
        BY <2>3, <3>1, <4>1, <4>2
    <3>3. UserMapped'
      <4> SUFFICES ASSUME NEW w \in UserPages, asked'[w] # {}
                   PROVE  /\ mem'[<<0, w[1]>>][w[2]].frame = w
                          /\ asked'[w] \subseteq mem'[<<0, w[1]>>][w[2]].flags
                          /\ tlb'[w] \in {None, w}
        BY DEF UserMapped
      <4>1. CASE w = v
        <5>1. mem'[<<0, w[1]>>][w[2]] = new
          BY <4>1, <2>1, <2>3
        <5>2. asked'[w] = asked[v] \cup flags /\ tlb'[w] = None
          BY <4>1, <2>1, <2>5, <1>a DEF TypeOK
        <5>3. asked[v] \subseteq e.flags
          BY <2>5 DEF UserInv, UserMapped
        <5> QED
          BY <4>1, <5>1, <5>2, <5>3, <2>2, <3>1
      <4>2. CASE w # v
        <5>1. <<0, w[1]>> # <<0, v[1]>> \/ w[2] # v[2]
          BY <4>2, <2>5, Basics
        <5>2. mem'[<<0, w[1]>>][w[2]] = mem[<<0, w[1]>>][w[2]]
          BY <5>1, <2>3, Basics
        <5>3. asked'[w] = asked[w] /\ tlb'[w] = tlb[w]
          BY <4>2, <2>1, <1>a DEF TypeOK
        <5> QED
          BY <5>2, <5>3 DEF UserInv, UserMapped
      <4> QED
        BY <4>1, <4>2
    <3> QED
      BY <3>2, <3>3 DEF UserInv
  <2> QED
    BY <2>4, <2>5
<1>3. ASSUME NEW v \in Low \cup UserPages, access(v)
      PROVE  UserInv'
  <2>1. /\ on /\ UNCHANGED <<on, mem, asked>>
        /\ tlb' = [tlb EXCEPT ![v] = Walk(v).frame]
    BY <1>3 DEF access
  <2>2. v[1] \in Index /\ v[2] \in Index
    BY Basics
  <2>3. Walk(v) = mem[<<0, v[1]>>][v[2]]
    BY <2>1, <2>2 DEF Walk, PD_INDEX, PT_INDEX, directory, alloc_blocks, KernelInv, OwnDirectory
  <2>4. (v \in UserPages /\ asked[v] # {}) => Walk(v).frame = v
    BY <2>3 DEF UserInv, UserMapped
  <2>5. \A w \in UserPages : asked[w] # {} => tlb'[w] \in {None, w}
    BY <2>1, <2>4, <1>a DEF UserInv, UserMapped, TypeOK
  <2> QED
    BY <2>1, <2>5, <1>a, UserUntouched
<1>4. ASSUME NEW p \in KernelMemory, NEW i \in Index, NEW e \in Leftover,
             kernel_store(p, i, e)
      PROVE  UserInv'
  <2>1. mem' = Put(mem, p, i, e) /\ UNCHANGED <<on, tlb, asked>>
    BY <1>4 DEF kernel_store
  <2>2. p \in Low /\ mem \in [Low -> [Index -> Entries]]
    BY <1>a, Basics DEF TypeOK
  <2>3. \A q \in Low : q # p => mem'[q] = mem[q]
    BY <2>1, <2>2 DEF Put
  <2>4. \A w \in UserPages, j \in Index : mem'[<<0, w[1]>>][j] = mem[<<0, w[1]>>][j]
    BY <2>3, Basics
  <2> QED
    BY <2>1, <2>4, <1>a, UserUntouched DEF UserInv, UserMapped
<1>5. ASSUME NEW v \in StackPages, NEW low \in SUBSET {"USER"}, map_stack(v, low)
      PROVE  UserInv'
  BY <1>2, <1>5, PagingAssumption DEF map_stack, Attributes
<1>6. ASSUME NEW v \in UserPages, map_user(v)
      PROVE  UserInv'
  BY <1>2, <1>6 DEF map_user, Attributes
<1> QED
  BY <1>0, <1>1, <1>3, <1>4, <1>5, <1>6 DEF Next

(***************************************************************************)
(* For tables of any size: if the words of untouched memory have bit 31    *)
(* clear, every page map_page was called for (paging.c:72-97) translates   *)
(* as asked, in the tables and in the TLB.                                 *)
(***************************************************************************)
THEOREM PagingMappedAsAsked ==
  ASSUME CleanLeftover
  PROVE  Spec => []MappedAsAsked
<1>1. KernelInv /\ UserInv => MappedAsAsked
  <2> SUFFICES ASSUME KernelInv, UserInv, NEW v \in DOMAIN asked, asked[v] # {}
               PROVE  /\ Walk(v).frame = v
                      /\ asked[v] \subseteq Walk(v).flags
                      /\ tlb[v] \in {None, v}
    BY DEF MappedAsAsked
  <2>1. v \in Low \cup UserPages
    BY DEF KernelInv, TypeOK
  <2>2. on /\ v[1] \in Index /\ v[2] \in Index
    BY <2>1, Basics DEF KernelInv, AskedOn
  <2>3. Walk(v) = mem[<<0, v[1]>>][v[2]]
    BY <2>2 DEF Walk, PD_INDEX, PT_INDEX, directory, alloc_blocks, KernelInv, OwnDirectory
  <2>4. CASE v \in Low
    <3>1. v = <<0, v[2]>> /\ v[1] = 0
      BY <2>4, Basics
    <3> QED
      BY <2>2, <2>3, <2>4, <3>1 DEF KernelInv, OwnDirectory, KernelCached, KernelAsked
  <2>5. CASE v \in UserPages
    BY <2>3, <2>5 DEF UserInv, UserMapped
  <2> QED
    BY <2>1, <2>4, <2>5
<1>2. Init => KernelInv /\ UserInv
  BY InitInv, InitUserInv
<1>3. KernelInv /\ UserInv /\ [Next]_vars => (KernelInv /\ UserInv)'
  BY NextKernelInv, NextUserInv
<1> QED
  BY <1>1, <1>2, <1>3, PTL DEF Spec
=============================================================================
