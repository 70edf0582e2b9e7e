----------------------------- MODULE PciProofs ------------------------------
(***************************************************************************)
(* For every heap, alignment, number of ports and machine: the tables that *)
(* port_rebase gives to the HBA do not overlap, and are changed only while *)
(* the HBA does not use them; the disks are found wherever the controller  *)
(* is; and sata_read reports the truth.                                    *)
(***************************************************************************)
EXTENDS Pci, SequenceTheorems, WellFoundedInduction, TLAPS

Tables == [at : Int, size : Nat]

Registers ==
  [type : {"null", "sata"}, st : BOOLEAN, cr : BOOLEAN, fre : BOOLEAN, fr : BOOLEAN,
   busy : BOOLEAN, ci : SUBSET Int, tfes : BOOLEAN, halted : BOOLEAN]

Prdts == Seq([dba : Int, sectors : Int])

Calls ==
  [count : Nat, slot : Int, prdt : Prdts, sectors : Int, spin : Nat,
   result : BOOLEAN, number : Nat]

Types ==
  /\ heap_top \in Nat /\ heap_top >= HeapStart
  /\ tables \in [Ports -> Seq(Tables)]
  /\ hba \in [Ports -> Registers]
  /\ call \in Calls
  /\ port \in Ports \cup {NoPort}
  /\ pc \in {"spin", "wait"} => port # NoPort
  /\ pc \in {"stop_cmd", "port_rebase", "start_cmd"} => i \in Ports

\* A table is aligned and inside the part of the heap that is in use.
Placed(t) == t.at % Alignment = 0 /\ t.at >= HeapStart /\ t.at + t.size <= heap_top

Apart(t, u) == t.at + t.size <= u.at \/ u.at + u.size <= t.at

Indices(p) == 1 .. Len(tables[p])

AllPlaced == \A p \in Ports : \A k \in Indices(p) : Placed(tables[p][k])

AllApart ==
  \A p, q \in Ports : \A k \in Indices(p), l \in Indices(q) :
    <<p, k>> # <<q, l>> => Apart(tables[p][k], tables[q][l])

\* The invariant of the tables.
TablesInv == Types /\ (~exhausted => AllPlaced /\ AllApart)

\* The invariant of the engines: what stop_cmd switched off stays off until start_cmd.
EnginesInv ==
  /\ pc \in {"stop_cmd", "port_rebase"} => ~hba[i].st /\ ~hba[i].fre
  /\ pc = "port_rebase" => ~hba[i].cr /\ ~hba[i].fr

----------------------------------------------------------------------------
(* What sata_read reports.                                                 *)

\* A port that has not failed has no command but the one being waited for.
Quiet ==
  \A p \in Ports : ~hba[p].halted =>
    hba[p].ci \subseteq IF pc = "wait" /\ p = port THEN {call.slot} ELSE {}

\* An error stops the port.
ErrorHalts == \A p \in Ports : hba[p].tfes => hba[p].halted

\* The command is the one for the sectors asked for.
Commanded ==
  (pc \in {"spin", "wait"} \/ call.result) =>
    /\ call.count \in Counts
    /\ call.prdt = Prdt(call.count) /\ call.sectors = LastCount(call.count)

\* A command that is no longer issued, or was reported, has been carried out.
CarriedOut ==
  /\ (pc = "wait" /\ call.slot \notin hba[port].ci) => buffer = Transfer(call.prdt, call.sectors)
  /\ call.result => pc = "done" /\ buffer = Transfer(call.prdt, call.sectors)

ReadsInv == Quiet /\ ErrorHalts /\ Commanded /\ CarriedOut

----------------------------------------------------------------------------
(* The search for the disks.                                               *)

Passed(x) == x[1] < device \/ (x[1] = device /\ x[2] < function)

Served(p) == hba[p].type = "sata" => hba[p].st /\ hba[p].fre /\ Len(tables[p]) = Slots + 2

\* The scan stands at a function that exists or might.
ScanInv ==
  /\ config \in Configs
  /\ device \in 0 .. Devices /\ function \in 0 .. Functions - 1
  /\ function < function_count(device)
  /\ pc \in {"done", "spin", "wait"} => device = Devices

TheController(x) == x \in DOMAIN config /\ Visible(x) /\ Controller(config[x])

\* The AHCI functions the scan has passed have been handed over; the registers can have
\* been reached only through the controller.
HandedInv ==
  /\ handed = {x \in DOMAIN config : Visible(x) /\ Passed(x)}
  /\ reached \in BOOLEAN
  /\ reached => \E x : TheController(x) /\ Passed(x)

\* Before the registers are reached no port has tables; then all disks are served.
BetweenVisits ==
  pc \in {"pci", "done", "spin", "wait"} =>
    IF reached THEN \A p \in Ports : Served(p) ELSE \A p \in Ports : Len(tables[p]) = 0

\* In probe_port the ports below i are served, and those above are untouched.
Probing ==
  pc \in {"probe", "stop_cmd", "port_rebase", "start_cmd"} =>
    /\ i \in Nat
    /\ reached
    /\ \A p \in Ports : (p < i => Served(p)) /\ (p > i => Len(tables[p]) = 0)
    /\ i \in Ports => CASE pc = "port_rebase" -> Len(tables[i]) < Slots + 2
                        [] pc = "start_cmd" -> Len(tables[i]) = Slots + 2
                        [] OTHER -> Len(tables[i]) = 0

SearchInv == ScanInv /\ HandedInv /\ BetweenVisits /\ Probing

----------------------------------------------------------------------------
\* malloc_aligned returns an aligned address behind the first PointerSize - 1 bytes of
\* the block, with n bytes of the block behind it.
LEMMA AlignedInsideBlock ==
  ASSUME NEW p \in Nat, NEW n \in Nat
  PROVE  /\ malloc_aligned(p) \in Int
         /\ malloc_aligned(p) % Alignment = 0
         /\ malloc_aligned(p) >= p + PointerSize
         /\ malloc_aligned(p) + n <= p + BlockSize(n)
<1> DEFINE a == Alignment
           q == p + a - 1 + PointerSize
<1>1. a \in Nat \ {0} /\ PointerSize \in Nat \ {0}
  BY AhciAssumption
<1>2. q \in Nat
  BY <1>1
<1>3. q % a \in 0 .. a - 1
  BY <1>1, <1>2
<1>4. (q - (q % a)) % a = 0
  <2> HIDE DEF q, a
  <2>1. q = a * (q \div a) + (q % a)
    BY <1>1, <1>2
  <2>2. q \div a \in Int
    BY <1>1, <1>2
  <2>3. q - (q % a) = a * (q \div a)
    BY <1>1, <1>2, <1>3, <2>1, <2>2
  <2>4. \A m \in Int : (a * m) % a = 0
    BY <1>1
  <2> QED
    BY <2>2, <2>3, <2>4
<1> QED
  BY <1>1, <1>2, <1>3, <1>4 DEF malloc_aligned, BlockSize

----------------------------------------------------------------------------
LEMMA InitTablesInv ==
  Init => TablesInv /\ EnginesInv
<1> SUFFICES ASSUME Init PROVE TablesInv /\ EnginesInv
  OBVIOUS
<1>1. tables = [p \in Ports |-> << >>]
  BY DEF Init, InitAhci
<1>2. tables \in [Ports -> Seq(Tables)] /\ \A p \in Ports : Len(tables[p]) = 0
  BY <1>1
<1>3. hba \in [Ports -> Registers]
  BY DEF Init, InitAhci, Registers
<1>4. AllPlaced /\ AllApart
  BY <1>2 DEF AllPlaced, AllApart, Indices
<1>5. call \in Calls
  BY DEF Init, InitAhci, NoCall, Calls, Prdts
<1> QED
  BY <1>2, <1>3, <1>4, <1>5, AhciAssumption
     DEF Init, InitAhci, TablesInv, EnginesInv, Types

\* Steps that leave the tables and the heap alone.
LEMMA SameTables ==
  ASSUME TablesInv, UNCHANGED <<heap_top, tables>>,
         exhausted => exhausted',
         hba' \in [Ports -> Registers],
         call' \in Calls,
         port' \in Ports \cup {NoPort},
         pc' \in {"spin", "wait"} => port' # NoPort,
         pc' \in {"stop_cmd", "port_rebase", "start_cmd"} => i' \in Ports
  PROVE  TablesInv'
<1>1. ~exhausted' => ~exhausted
  OBVIOUS
<1>2. AllPlaced => AllPlaced'
  BY DEF AllPlaced, Placed, Indices
<1>3. AllApart => AllApart'
  BY DEF AllApart, Apart, Indices
<1> QED
  BY <1>1, <1>2, <1>3 DEF TablesInv, Types

\* A table is added to port i behind everything that is in use.
LEMMA RebaseTables ==
  ASSUME TablesInv, port_rebase
  PROVE  TablesInv'
<1> DEFINE k == Len(tables[i]) + 1
           n == SizeOfTable(k)
           p == malloc(BlockSize(n))
           t == [at |-> malloc_aligned(p), size |-> n]
<1>1. i \in Ports /\ tables[i] \in Seq(Tables) /\ heap_top \in Nat /\ heap_top >= HeapStart
  BY DEF port_rebase, TablesInv, Types
<1>2. n \in Nat /\ BlockSize(n) \in Nat
  BY <1>1, AhciAssumption DEF SizeOfTable, BlockSize
<1>3. p \in Nat /\ (p # 0 => p = heap_top + HeaderSize)
  BY <1>1, <1>2, AhciAssumption DEF malloc
<1>4. /\ t.at \in Int /\ t.size = n /\ t.at % Alignment = 0
      /\ t.at >= p + PointerSize /\ t.at + n <= p + BlockSize(n)
  BY <1>2, <1>3, AlignedInsideBlock
<1>5. /\ tables' = [tables EXCEPT ![i] = Append(tables[i], t)]
      /\ heap_top' = IF p = 0 THEN heap_top ELSE p + BlockSize(n)
      /\ exhausted' = (exhausted \/ p = 0)
      /\ i' = i /\ hba' = hba /\ port' = port /\ call' = call
      /\ pc' \in {"start_cmd", "port_rebase"}
  BY DEF port_rebase, readvars
<1> HIDE DEF k, n, p
<1>6. t \in Tables
  BY <1>2, <1>4 DEF Tables
<1> HIDE DEF t
<1>7. tables' \in [Ports -> Seq(Tables)]
  BY <1>1, <1>5, <1>6 DEF TablesInv, Types
<1>8. /\ tables'[i] = Append(tables[i], t)
      /\ \A q \in Ports : q # i => tables'[q] = tables[q]
  BY <1>1, <1>5 DEF TablesInv, Types
<1>9. Types'
  BY <1>1, <1>2, <1>3, <1>5, <1>7, AhciAssumption DEF TablesInv, Types
<1>10. ASSUME ~exhausted' PROVE AllPlaced' /\ AllApart'
  <2>1. p # 0 /\ AllPlaced /\ AllApart
    BY <1>5, <1>10 DEF TablesInv
  <2>2. heap_top' \in Nat /\ heap_top <= heap_top' /\ t.at >= heap_top /\ t.at + n <= heap_top'
    <3> DEFINE b == BlockSize(n)
    <3>1. HeaderSize \in Nat /\ PointerSize \in Nat /\ b \in Nat
      BY <1>2, AhciAssumption
    <3>2. p = heap_top + HeaderSize /\ heap_top' = p + b
      BY <1>3, <1>5, <2>1
    <3>3. t.at \in Int /\ t.at >= p + PointerSize /\ t.at + n <= p + b
      BY <1>4
    <3> HIDE DEF b
    <3> QED
      BY <1>1, <1>2, <3>1, <3>2, <3>3
  \* An entry of the new tables is an entry of the old ones, or t at the end of port i's.
  <2>3. \A q \in Ports : \A l \in Indices(q)' :
          \/ q = i /\ l = Len(tables[i]) + 1 /\ tables'[q][l] = t
          \/ l \in Indices(q) /\ tables'[q][l] = tables[q][l]
    <3> TAKE q \in Ports
    <3> TAKE l \in Indices(q)'
    <3>1. CASE q = i
      BY <1>1, <1>6, <1>8, <3>1 DEF Indices
    <3>2. CASE q # i
      BY <1>8, <3>2 DEF Indices
    <3> QED
      BY <3>1, <3>2
  <2>4. \A q \in Ports : \A l \in Indices(q) : tables[q][l] \in Tables
    BY DEF TablesInv, Types, Indices
  <2>5. AllPlaced'
    <3> SUFFICES ASSUME NEW q \in Ports, NEW l \in Indices(q)'
                 PROVE  Placed(tables[q][l])'
      BY DEF AllPlaced
    <3>1. CASE tables'[q][l] = t
      BY <1>1, <1>4, <2>2, <3>1, AhciAssumption DEF Placed
    <3>2. CASE l \in Indices(q) /\ tables'[q][l] = tables[q][l]
      <4>1. Placed(tables[q][l]) /\ tables[q][l] \in Tables
        BY <2>1, <2>4, <3>2 DEF AllPlaced
      <4> QED
        BY <1>1, <2>2, <3>2, <4>1 DEF Placed, Tables
    <3> QED
      BY <2>3, <3>1, <3>2
  <2>6. \A q \in Ports : \A l \in Indices(q) :
          Apart(tables[q][l], t) /\ Apart(t, tables[q][l])
    <3> TAKE q \in Ports
    <3> TAKE l \in Indices(q)
    <3>1. Placed(tables[q][l]) /\ tables[q][l] \in Tables
      BY <2>1, <2>4 DEF AllPlaced
    <3> QED
      BY <1>1, <1>4, <2>2, <3>1 DEF Placed, Apart, Tables
  <2>7. AllApart'
    <3> SUFFICES ASSUME NEW q \in Ports, NEW r \in Ports,
                        NEW l \in Indices(q)', NEW m \in Indices(r)', <<q, l>> # <<r, m>>
                 PROVE  Apart(tables[q][l], tables[r][m])'
      BY DEF AllApart
    <3>1. \/ tables'[q][l] = t /\ m \in Indices(r) /\ tables'[r][m] = tables[r][m]
          \/ tables'[r][m] = t /\ l \in Indices(q) /\ tables'[q][l] = tables[q][l]
          \/ /\ l \in Indices(q) /\ tables'[q][l] = tables[q][l]
             /\ m \in Indices(r) /\ tables'[r][m] = tables[r][m]
      BY <2>3
    <3>2. Apart(tables'[q][l], tables'[r][m])
      BY <2>1, <2>6, <3>1 DEF AllApart
    <3> QED
      BY <3>2 DEF Apart
  <2> QED
    BY <2>5, <2>7
<1> QED
  BY <1>9, <1>10 DEF TablesInv

----------------------------------------------------------------------------
(* The HBA: it changes neither ST nor FRE, and an engine that runs again   *)
(* has been told to.                                                       *)
HbaFollows(old, new) ==
  /\ new.type = old.type /\ new.st = old.st /\ new.fre = old.fre
  /\ new.cr = old.cr \/ new.cr = old.st
  /\ new.fr = old.fr \/ new.fr = old.fre

\* What a step of the HBA may make of the registers of a port.
LEMMA HbaRegisters ==
  ASSUME NEW r \in Registers, NEW slot
  PROVE  /\ [r EXCEPT !.cr = r.st] \in Registers /\ HbaFollows(r, [r EXCEPT !.cr = r.st])
         /\ [r EXCEPT !.fr = r.fre] \in Registers /\ HbaFollows(r, [r EXCEPT !.fr = r.fre])
         /\ [r EXCEPT !.busy = ~r.busy] \in Registers /\ HbaFollows(r, [r EXCEPT !.busy = ~r.busy])
         /\ [r EXCEPT !.ci = r.ci \ {slot}] \in Registers
         /\ HbaFollows(r, [r EXCEPT !.ci = r.ci \ {slot}])
         /\ [r EXCEPT !.tfes = TRUE, !.halted = TRUE] \in Registers
         /\ HbaFollows(r, [r EXCEPT !.tfes = TRUE, !.halted = TRUE])
         /\ HbaFollows(r, r)
<1>1. [r EXCEPT !.cr = r.st] \in Registers /\ HbaFollows(r, [r EXCEPT !.cr = r.st])
  BY DEF Registers, HbaFollows
<1>2. [r EXCEPT !.fr = r.fre] \in Registers /\ HbaFollows(r, [r EXCEPT !.fr = r.fre])
  BY DEF Registers, HbaFollows
<1>3. [r EXCEPT !.busy = ~r.busy] \in Registers /\ HbaFollows(r, [r EXCEPT !.busy = ~r.busy])
  BY DEF Registers, HbaFollows
<1>4. /\ [r EXCEPT !.ci = r.ci \ {slot}] \in Registers
      /\ HbaFollows(r, [r EXCEPT !.ci = r.ci \ {slot}])
  BY DEF Registers, HbaFollows
<1>5. /\ [r EXCEPT !.tfes = TRUE, !.halted = TRUE] \in Registers
      /\ HbaFollows(r, [r EXCEPT !.tfes = TRUE, !.halted = TRUE])
  BY DEF Registers, HbaFollows
<1> QED
  BY <1>1, <1>2, <1>3, <1>4, <1>5 DEF HbaFollows

LEMMA HbaStepRegisters ==
  ASSUME TablesInv, HbaStep
  PROVE  /\ hba' \in [Ports -> Registers]
         /\ \A q \in Ports : HbaFollows(hba[q], hba'[q])
         /\ UNCHANGED <<pc, i, port, heap_top, tables, exhausted, call>>
<1>1. hba \in [Ports -> Registers]
  BY DEF TablesInv, Types
<1>2. PICK p \in Ports : hba_follows(p) \/ disk_busy(p) \/ command_done(p) \/ command_failed(p)
  BY DEF HbaStep
<1>3. UNCHANGED <<pc, i, port, heap_top, tables, exhausted, call>>
  BY <1>2 DEF hba_follows, disk_busy, command_done, command_failed, portvars, readvars
<1>4. \E r \in Registers : HbaFollows(hba[p], r) /\ hba' = [hba EXCEPT ![p] = r]
  <2> DEFINE o == hba[p]
  <2>1. o \in Registers
    BY <1>1
  <2>2. CASE hba_follows(p)
    <3>1. \/ hba' = [hba EXCEPT ![p] = [o EXCEPT !.cr = o.st]]
          \/ hba' = [hba EXCEPT ![p] = [o EXCEPT !.fr = o.fre]]
      BY <2>2 DEF hba_follows
    <3> HIDE DEF o
    <3> QED
      BY <2>1, <3>1, HbaRegisters DEF o
  <2>3. CASE disk_busy(p)
    <3>1. hba' = [hba EXCEPT ![p] = [o EXCEPT !.busy = ~o.busy]]
      BY <2>3 DEF disk_busy
    <3> QED
      BY <2>1, <3>1, HbaRegisters
  <2>4. CASE command_done(p)
    <3>1. hba' = [hba EXCEPT ![p] = [o EXCEPT !.ci = o.ci \ {call.slot}]]
      BY <2>4 DEF command_done
    <3> QED
      BY <2>1, <3>1, HbaRegisters
  <2>5. CASE command_failed(p)
    <3>1. hba' = [hba EXCEPT ![p] = [o EXCEPT !.tfes = TRUE, !.halted = TRUE]]
      BY <1>1, <2>1, <2>5 DEF command_failed
    <3> QED
      BY <2>1, <3>1, HbaRegisters
  <2> QED
    BY <1>2, <2>2, <2>3, <2>4, <2>5
<1>5. PICK r \in Registers : HbaFollows(hba[p], r) /\ hba' = [hba EXCEPT ![p] = r]
  BY <1>4
<1>6. hba' \in [Ports -> Registers]
  BY <1>1, <1>5
<1>7. ASSUME NEW q \in Ports PROVE HbaFollows(hba[q], hba'[q])
  <2>1. hba[q] \in Registers /\ (hba'[q] = r \/ q # p)
    BY <1>1, <1>5
  <2>2. CASE q = p
    BY <1>5, <2>1, <2>2
  <2>3. CASE q # p
    <3>1. hba'[q] = hba[q]
      BY <1>1, <1>5, <2>3
    <3> QED
      BY <2>1, <3>1, HbaRegisters
  <2> QED
    BY <2>2, <2>3
<1> QED
  BY <1>3, <1>6, <1>7

LEMMA HbaStepInv ==
  ASSUME TablesInv, EnginesInv, HbaStep
  PROVE  TablesInv' /\ EnginesInv'
<1>1. TablesInv'
  BY HbaStepRegisters, SameTables DEF TablesInv, Types
<1>2. EnginesInv'
  BY HbaStepRegisters DEF EnginesInv, TablesInv, Types, HbaFollows
<1> QED
  BY <1>1, <1>2

----------------------------------------------------------------------------
(* probe_port.                                                             *)
LEMMA ProbeInv ==
  ASSUME TablesInv, EnginesInv, probe_port
  PROVE  TablesInv' /\ EnginesInv'
<1>1. hba \in [Ports -> Registers] /\ call \in Calls /\ port \in Ports \cup {NoPort}
  BY DEF TablesInv, Types
<1>2. CASE probe_ports_done
  BY <1>1, <1>2, SameTables DEF probe_ports_done, portvars, readvars, EnginesInv
<1>3. CASE probe_skip
  BY <1>1, <1>3, SameTables DEF probe_skip, readvars, EnginesInv
<1>4. CASE stop_cmd
  <2>1. i \in Ports
    BY <1>4 DEF stop_cmd, HasDisk
  <2>2. hba' \in [Ports -> Registers] /\ ~hba'[i].st /\ ~hba'[i].fre
    <3> DEFINE r == [hba[i] EXCEPT !.st = FALSE, !.fre = FALSE]
    <3>1. hba[i] \in Registers
      BY <1>1, <2>1
    <3>2. r \in Registers /\ ~r.st /\ ~r.fre
      BY <3>1 DEF Registers
    <3>3. hba' = [hba EXCEPT ![i] = r]
      BY <1>1, <1>4, <2>1 DEF stop_cmd
    <3> HIDE DEF r
    <3> QED
      BY <1>1, <2>1, <3>2, <3>3
  <2> QED
    BY <1>1, <1>4, <2>1, <2>2, SameTables DEF stop_cmd, readvars, EnginesInv
<1>5. CASE stop_cmd_wait
  <2>1. i \in Ports
    BY <1>5 DEF stop_cmd_wait, TablesInv, Types
  <2> QED
    BY <1>1, <1>5, <2>1, SameTables DEF stop_cmd_wait, portvars, readvars, EnginesInv
<1>6. CASE port_rebase
  <2>1. EnginesInv'
    BY <1>6 DEF port_rebase, EnginesInv
  <2> QED
    BY <1>6, <2>1, RebaseTables
<1>7. CASE start_cmd
  <2>1. i \in Ports
    BY <1>7 DEF start_cmd, TablesInv, Types
  <2>2. hba' \in [Ports -> Registers]
    <3> DEFINE r == [hba[i] EXCEPT !.fre = TRUE, !.st = TRUE]
    <3>1. hba[i] \in Registers
      BY <1>1, <2>1
    <3>2. r \in Registers
      BY <3>1 DEF Registers
    <3>3. hba' = [hba EXCEPT ![i] = r]
      BY <1>1, <1>7, <2>1 DEF start_cmd
    <3> HIDE DEF r
    <3> QED
      BY <1>1, <2>1, <3>2, <3>3
  <2> QED
    BY <1>1, <1>7, <2>2, SameTables DEF start_cmd, readvars, EnginesInv
<1> QED
  BY <1>2, <1>3, <1>4, <1>5, <1>6, <1>7 DEF probe_port

----------------------------------------------------------------------------
(* sata_read.                                                              *)
LEMMA PrdtType ==
  ASSUME NEW count \in Counts
  PROVE  /\ Prdt(count) \in Prdts
         /\ LastCount(count) \in Int /\ count \in Nat
<1>1. count \in Nat \ {0} /\ EntrySectors \in Nat \ {0} /\ BufStep \in Nat
  BY AhciAssumption
<1>2. Prdtl(count) \in Nat
  BY <1>1 DEF Prdtl
<1>3. LastCount(count) \in Int
  BY <1>1, <1>2 DEF LastCount
<1>4. Prdt(count) \in [1 .. Prdtl(count) -> [dba : Int, sectors : Int]]
  <2>1. \A e \in 1 .. Prdtl(count) :
          /\ (e - 1) * BufStep \in Int
          /\ (IF e = Prdtl(count) THEN LastCount(count) ELSE EntrySectors) \in Int
    BY <1>1, <1>2, <1>3
  <2> QED
    BY <2>1 DEF Prdt
<1>5. Prdt(count) \in Prdts
  <2> DEFINE E == [dba : Int, sectors : Int]
  <2> HIDE DEF E
  <2>1. Prdt(count) \in UNION {[1 .. n -> E] : n \in Nat}
    BY <1>2, <1>4 DEF E
  <2>2. Prdt(count) \in Seq(E)
    BY <2>1, SeqDef
  <2> QED
    BY <2>2 DEF Prdts, E
<1> QED
  BY <1>1, <1>3, <1>5

\* A non-empty set of naturals has a least member.
LEMMA LeastOf ==
  ASSUME NEW T \in SUBSET Nat, T # {}
  PROVE  \E x \in T : \A y \in T : x <= y
<1> DEFINE R == OpToRel(<, Nat)
<1>1. PICK x \in T : \A y \in T : ~(<<y, x>> \in R)
  <2>1. IsWellFoundedOn(R, Nat)
    BY NatLessThanWellFounded
  <2> HIDE DEF R
  <2> QED
    BY <2>1, WFMin
<1>2. ASSUME NEW y \in T PROVE x <= y
  <2>1. x \in Nat /\ y \in Nat
    BY <1>2
  <2>2. y < x => <<y, x>> \in R
    <3>1. R = {ss \in Nat \X Nat : ss[1] < ss[2]}
      BY DEF OpToRel
    <3> QED
      BY <2>1, <3>1
  <2>3. ~(y < x)
    BY <1>1, <1>2, <2>2
  <2> QED
    BY <2>1, <2>3
<1> QED
  BY <1>2

LEMMA SlotType == find_cmd_slot \in Int
<1>1. FreeSlots \in SUBSET Nat
  BY AhciAssumption DEF FreeSlots
<1>2. CASE FreeSlots # {}
  <2>1. \E s \in FreeSlots : \A t \in FreeSlots : s <= t
    BY <1>1, <1>2, LeastOf
  <2>2. (CHOOSE s \in FreeSlots : \A t \in FreeSlots : s <= t) \in FreeSlots
    BY <2>1
  <2>3. find_cmd_slot \in FreeSlots
    BY <1>2, <2>2, Zenon DEF find_cmd_slot
  <2> QED
    BY <1>1, <2>3
<1> QED
  BY <1>2 DEF find_cmd_slot

LEMMA ReadInv ==
  ASSUME TablesInv, Read
  PROVE  TablesInv' /\ EnginesInv'
<1>1. hba \in [Ports -> Registers] /\ call \in Calls /\ port \in Ports \cup {NoPort}
  BY DEF TablesInv, Types
<1>2. CASE \E count \in Counts : sata_read(count)
  <2>1. PICK count \in Counts : sata_read(count)
    BY <1>2
  <2>2. port \in Ports /\ port' = port
    BY <1>1, <2>1 DEF sata_read, portvars
  <2>3. hba' \in [Ports -> Registers]
    <3> DEFINE r == [hba[port] EXCEPT !.tfes = FALSE]
    <3>1. hba[port] \in Registers
      BY <1>1, <2>2
    <3>2. r \in Registers
      BY <3>1 DEF Registers
    <3>3. hba' = [hba EXCEPT ![port] = r]
      BY <2>1 DEF sata_read
    <3> HIDE DEF r
    <3> QED
      BY <1>1, <2>2, <3>2, <3>3
  <2>4. find_cmd_slot \in Int
    BY SlotType
  <2>5. call' \in Calls
    <3>1. call.number + 1 \in Nat
      BY <1>1 DEF Calls
    <3>2. CASE find_cmd_slot = -1
      <4>1. NoCall \in Calls
        BY DEF NoCall, Calls, Prdts
      <4>2. call' = [NoCall EXCEPT !.number = call.number + 1]
        BY <2>1, <3>2 DEF sata_read
      <4> QED
        BY <3>1, <4>1, <4>2 DEF Calls
    <3>3. CASE find_cmd_slot # -1
      <4>1. call' = [count |-> count, slot |-> find_cmd_slot, prdt |-> Prdt(count),
                     sectors |-> LastCount(count), spin |-> 0, result |-> FALSE,
                     number |-> call.number + 1]
        BY <2>1, <3>3 DEF sata_read
      <4> QED
        BY <2>4, <3>1, <4>1, PrdtType DEF Calls
    <3> QED
      BY <3>2, <3>3
  <2>6. pc' \in {"done", "spin"} /\ UNCHANGED <<heap_top, tables, exhausted>>
    BY <2>1 DEF sata_read, portvars
  <2>7. port' # NoPort
    BY <2>1, <2>2 DEF sata_read
  <2> QED
    BY <1>1, <2>2, <2>3, <2>5, <2>6, <2>7, SameTables DEF EnginesInv
<1>3. CASE spin_busy
  <2>1. call' \in Calls
    BY <1>1, <1>3 DEF spin_busy, Calls
  <2>2. pc' \in {"done", "spin"} /\ UNCHANGED <<port, heap_top, tables, exhausted, hba>>
    BY <1>3 DEF spin_busy, portvars
  <2>3. port # NoPort
    BY <1>3 DEF spin_busy, TablesInv, Types
  <2> QED
    BY <1>1, <2>1, <2>2, <2>3, SameTables DEF EnginesInv
<1>4. CASE issue
  <2>1. port \in Ports /\ port # NoPort
    BY <1>1, <1>4 DEF issue, TablesInv, Types
  <2>2. hba' \in [Ports -> Registers]
    <3>1. call.slot \in Int
      BY <1>1 DEF Calls
    <3> QED
      BY <1>1, <1>4, <2>1, <3>1 DEF issue, Registers
  <2>3. pc' = "wait" /\ UNCHANGED <<port, heap_top, tables, exhausted, call>>
    BY <1>4 DEF issue, portvars, readvars
  <2> QED
    BY <1>1, <2>1, <2>2, <2>3, SameTables DEF EnginesInv
<1>5. CASE sata_read_done
  <2>1. port \in Ports /\ hba[port].tfes \in BOOLEAN
    BY <1>1, <1>5 DEF sata_read_done, TablesInv, Types, Registers
  <2>2. call' \in Calls
    BY <1>1, <1>5, <2>1 DEF sata_read_done, Calls
  <2>3. pc' = "done" /\ UNCHANGED <<port, heap_top, tables, exhausted, hba>>
    BY <1>5 DEF sata_read_done, portvars
  <2> QED
    BY <1>1, <2>2, <2>3, SameTables DEF EnginesInv
<1>6. CASE sata_read_error
  <2>1. pc' = "done" /\ UNCHANGED <<port, heap_top, tables, exhausted, hba, call>>
    BY <1>6 DEF sata_read_error, portvars, readvars
  <2> QED
    BY <1>1, <2>1, SameTables DEF EnginesInv
<1> QED
  BY <1>2, <1>3, <1>4, <1>5, <1>6 DEF Read

----------------------------------------------------------------------------
(* pci_enumerate_devices.                                                  *)
LEMMA EnumerateInv ==
  ASSUME TablesInv, pci_enumerate_devices
  PROVE  TablesInv' /\ EnginesInv'
<1>1. hba \in [Ports -> Registers] /\ call \in Calls /\ port \in Ports \cup {NoPort}
  BY DEF TablesInv, Types
<1>2. /\ UNCHANGED <<heap_top, tables, hba, call, port>>
      /\ exhausted => exhausted'
      /\ pc' \in {"pci", "probe", "hang", "fault", "done"}
  <2>1. CASE visit_absent
    BY <2>1 DEF visit_absent, ahcivars, portvars, readvars
  <2>2. CASE visit_other
    BY <2>2 DEF visit_other, readvars
  <2>3. CASE init_sata
    BY <2>3 DEF init_sata, readvars
  <2>4. CASE pci_done
    BY <2>4 DEF pci_done, portvars, readvars
  <2> QED
    BY <2>1, <2>2, <2>3, <2>4 DEF pci_enumerate_devices
<1> QED
  BY <1>1, <1>2, SameTables DEF EnginesInv

----------------------------------------------------------------------------
LEMMA NextInv ==
  ASSUME TablesInv, EnginesInv, [Next]_vars
  PROVE  TablesInv' /\ EnginesInv'
<1>1. CASE Next
  BY <1>1, EnumerateInv, ProbeInv, ReadInv, HbaStepInv DEF Next, Kernel
<1>2. CASE UNCHANGED vars
  <2>1. UNCHANGED <<pc, i, port, heap_top, tables, exhausted, hba, call>>
    BY <1>2 DEF vars, ahcivars, portvars, readvars
  <2>2. TablesInv'
    BY <2>1, SameTables DEF TablesInv, Types
  <2> QED
    BY <2>1, <2>2 DEF EnginesInv
<1> QED
  BY <1>1, <1>2

LEMMA Invariants == Spec => [](TablesInv /\ EnginesInv)
<1>1. Init => TablesInv /\ EnginesInv
  BY InitTablesInv
<1>2. TablesInv /\ EnginesInv /\ [Next]_vars => (TablesInv /\ EnginesInv)'
  BY NextInv
<1> QED
  BY <1>1, <1>2, PTL DEF Spec

\* For every heap, alignment and set of ports, the tables that port_rebase takes from
\* malloc_aligned are aligned, lie in the heap and do not overlap, until malloc has
\* returned 0.
THEOREM PciTablesApart == Spec => []TablesApart
<1>1. TablesInv => TablesApart
  <2> SUFFICES ASSUME TablesInv, ~exhausted,
                      NEW x \in AllTables
               PROVE  LET t == tables[x[1]][x[2]]
                      IN  /\ t.at % Alignment = 0
                          /\ t.at >= HeapStart /\ t.at + t.size <= heap_top
                          /\ \A y \in AllTables \ {x} :
                               LET u == tables[y[1]][y[2]]
                               IN  t.at + t.size <= u.at \/ u.at + u.size <= t.at
    BY DEF TablesApart
  <2>1. \A y \in AllTables : y[1] \in Ports /\ y[2] \in Indices(y[1]) /\ y = <<y[1], y[2]>>
    BY AhciAssumption DEF AllTables, Indices, TablesInv, Types
  <2>2. AllPlaced /\ AllApart
    BY DEF TablesInv
  <2>3. Placed(tables[x[1]][x[2]])
    BY <2>1, <2>2 DEF AllPlaced
  <2>4. \A y \in AllTables \ {x} : Apart(tables[x[1]][x[2]], tables[y[1]][y[2]])
    BY <2>1, <2>2 DEF AllApart
  <2> QED
    BY <2>3, <2>4 DEF Placed, Apart
<1> QED
  BY <1>1, Invariants, PTL

\* For every machine, port_rebase changes the tables of a port only after the HBA has
\* stopped both engines of the port, and none of them starts again before start_cmd.
THEOREM PciTablesOfStoppedPorts == Spec => TablesOfStoppedPorts
<1>1. ASSUME TablesInv, EnginesInv, [Next]_vars
      PROVE  [\A p \in Ports : tables'[p] # tables[p] => ~hba[p].cr /\ ~hba[p].fr]_vars
  <2>1. CASE port_rebase
    <3>1. i \in Ports /\ ~hba[i].cr /\ ~hba[i].fr
      BY <1>1, <2>1 DEF port_rebase, TablesInv, Types, EnginesInv
    <3>2. \A p \in Ports : p # i => tables'[p] = tables[p]
      BY <1>1, <2>1 DEF port_rebase, TablesInv, Types
    <3> QED
      BY <3>1, <3>2
  <2>2. CASE ~port_rebase
    <3>1. tables' = tables
      BY <1>1, <2>2
         DEF Next, Kernel, vars, ahcivars, portvars, HbaStep, hba_follows, disk_busy,
             command_done, command_failed, pci_enumerate_devices, visit_absent, visit_other,
             init_sata, pci_done, probe_port, probe_ports_done, probe_skip, stop_cmd,
             stop_cmd_wait, start_cmd, Read, sata_read, spin_busy, issue, sata_read_done,
             sata_read_error
    <3> QED
      BY <3>1
  <2> QED
    BY <2>1, <2>2
<1> QED
  BY <1>1, Invariants, PTL DEF Spec, TablesOfStoppedPorts

----------------------------------------------------------------------------
(* sata_read and its command.                                              *)

\* Steps outside sata_read that leave the commands alone.
LEMMA NoReadInv ==
  ASSUME ReadsInv, pc \notin {"done", "spin", "wait"}, pc' \notin {"spin", "wait"},
         call' = call, buffer' = buffer,
         \A p \in Ports : /\ hba'[p].ci = hba[p].ci /\ hba'[p].tfes = hba[p].tfes
                          /\ hba'[p].halted = hba[p].halted
  PROVE  ReadsInv'
<1>1. ~call.result /\ ~call'.result
  BY DEF ReadsInv, CarriedOut
<1>2. Quiet' /\ ErrorHalts'
  BY DEF ReadsInv, Quiet, ErrorHalts
<1>3. Commanded' /\ CarriedOut'
  BY <1>1 DEF Commanded, CarriedOut
<1> QED
  BY <1>2, <1>3 DEF ReadsInv

\* Steps of the HBA that leave the commands alone.
LEMMA NoCommandInv ==
  ASSUME ReadsInv, UNCHANGED <<pc, port, call, buffer>>, Types,
         \A p \in Ports : /\ hba'[p].ci = hba[p].ci /\ hba'[p].tfes = hba[p].tfes
                          /\ hba'[p].halted = hba[p].halted
  PROVE  ReadsInv'
<1>1. pc = "wait" => port \in Ports
  BY DEF Types
<1>2. Quiet' /\ ErrorHalts'
  BY DEF ReadsInv, Quiet, ErrorHalts
<1>3. Commanded' /\ CarriedOut'
  BY <1>1 DEF ReadsInv, Commanded, CarriedOut
<1> QED
  BY <1>2, <1>3 DEF ReadsInv

\* A command that is done is the one sata_read waits for.
LEMMA HbaReadsInv ==
  ASSUME TablesInv, ReadsInv, HbaStep
  PROVE  ReadsInv'
<1>1. hba \in [Ports -> Registers] /\ Types /\ (pc = "wait" => port \in Ports)
  BY DEF TablesInv, Types
<1>2. PICK p \in Ports : hba_follows(p) \/ disk_busy(p) \/ command_done(p) \/ command_failed(p)
  BY DEF HbaStep
<1> DEFINE o == hba[p]
<1>3. o \in Registers
  BY <1>1
<1>4. CASE hba_follows(p) \/ disk_busy(p)
  <2>1. \/ hba' = [hba EXCEPT ![p] = [o EXCEPT !.cr = o.st]]
        \/ hba' = [hba EXCEPT ![p] = [o EXCEPT !.fr = o.fre]]
        \/ hba' = [hba EXCEPT ![p] = [o EXCEPT !.busy = ~o.busy]]
    BY <1>4 DEF hba_follows, disk_busy
  <2>2. UNCHANGED <<pc, port, call, buffer>>
    BY <1>4 DEF hba_follows, disk_busy, portvars, readvars
  <2>3. PICK r : /\ hba' = [hba EXCEPT ![p] = r]
                 /\ r.ci = o.ci /\ r.tfes = o.tfes /\ r.halted = o.halted
    <3> HIDE DEF o
    <3> QED
      BY <1>3, <2>1 DEF Registers
  <2>4. \A q \in Ports : /\ hba'[q].ci = hba[q].ci /\ hba'[q].tfes = hba[q].tfes
                         /\ hba'[q].halted = hba[q].halted
    BY <1>1, <2>3
  <2> QED
    BY <1>1, <2>2, <2>4, NoCommandInv
<1>5. CASE command_done(p)
  <2>1. /\ ~o.halted /\ call.slot \in o.ci
        /\ buffer' = Transfer(call.prdt, call.sectors)
        /\ hba' = [hba EXCEPT ![p] = [o EXCEPT !.ci = o.ci \ {call.slot}]]
        /\ UNCHANGED <<pc, port, call>>
    BY <1>5 DEF command_done, Runs, portvars
  <2>2. pc = "wait" /\ p = port
    BY <2>1 DEF ReadsInv, Quiet
  <2>3. /\ hba'[p].ci = hba[p].ci \ {call.slot}
        /\ hba'[p].tfes = hba[p].tfes /\ hba'[p].halted = hba[p].halted
        /\ \A q \in Ports \ {p} : hba'[q] = hba[q]
    BY <1>1, <2>1 DEF Registers
  <2>4. Quiet' /\ ErrorHalts'
    BY <2>1, <2>3 DEF ReadsInv, Quiet, ErrorHalts
  <2>5. ~call.result
    BY <2>2 DEF ReadsInv, CarriedOut
  <2>6. Commanded' /\ CarriedOut'
    BY <2>1, <2>2, <2>5 DEF ReadsInv, Commanded, CarriedOut
  <2> QED
    BY <2>4, <2>6 DEF ReadsInv
<1>6. CASE command_failed(p)
  <2>1. /\ hba' = [hba EXCEPT ![p] = [o EXCEPT !.tfes = TRUE, !.halted = TRUE]]
        /\ UNCHANGED <<pc, port, call, buffer>>
    BY <1>1, <1>3, <1>6 DEF command_failed, portvars, readvars
  <2>2. /\ hba'[p].ci = hba[p].ci /\ hba'[p].tfes /\ hba'[p].halted
        /\ \A q \in Ports \ {p} : hba'[q] = hba[q]
    BY <1>1, <2>1 DEF Registers
  <2>3. Quiet' /\ ErrorHalts'
    BY <2>1, <2>2 DEF ReadsInv, Quiet, ErrorHalts
  <2>4. pc = "wait" => hba'[port].ci = hba[port].ci
    BY <1>1, <2>2
  <2>5. Commanded' /\ CarriedOut'
    BY <2>1, <2>4 DEF ReadsInv, Commanded, CarriedOut
  <2> QED
    BY <2>3, <2>5 DEF ReadsInv
<1> QED
  BY <1>2, <1>4, <1>5, <1>6

LEMMA SataReadInv ==
  ASSUME TablesInv, ReadsInv, Read
  PROVE  ReadsInv'
<1>1. /\ hba \in [Ports -> Registers] /\ call \in Calls
      /\ pc \in {"spin", "wait"} => port \in Ports
      /\ port \in Ports \cup {NoPort}
  BY DEF TablesInv, Types
<1>2. ASSUME NEW count \in Counts, sata_read(count) PROVE ReadsInv'
  <2>1. /\ pc = "done" /\ port \in Ports /\ port' = port
        /\ hba' = [hba EXCEPT ![port] = [hba[port] EXCEPT !.tfes = FALSE]]
    BY <1>1, <1>2 DEF sata_read, portvars
  <2>2. \/ pc' = "done" /\ call' = [NoCall EXCEPT !.number = call.number + 1]
        \/ /\ pc' = "spin"
           /\ call' = [count |-> count, slot |-> find_cmd_slot, prdt |-> Prdt(count),
                       sectors |-> LastCount(count), spin |-> 0, result |-> FALSE,
                       number |-> call.number + 1]
    BY <1>2, <2>1 DEF sata_read
  <2>3. /\ ~call'.result /\ pc' \in {"done", "spin"}
        /\ pc' = "spin" => /\ call'.count = count /\ call'.prdt = Prdt(count)
                           /\ call'.sectors = LastCount(count)
    BY <2>2 DEF NoCall
  <2>4. /\ \A q \in Ports : hba'[q].ci = hba[q].ci /\ hba'[q].halted = hba[q].halted
        /\ \A q \in Ports : hba'[q].tfes => hba[q].tfes
    BY <1>1, <2>1 DEF Registers
  <2>5. Quiet' /\ ErrorHalts'
    BY <2>1, <2>3, <2>4 DEF ReadsInv, Quiet, ErrorHalts
  <2>6. Commanded' /\ CarriedOut'
    BY <1>2, <2>3 DEF Commanded, CarriedOut
  <2> QED
    BY <2>5, <2>6 DEF ReadsInv
<1>3. CASE spin_busy
  <2>1. /\ pc = "spin" /\ pc' \in {"done", "spin"} /\ UNCHANGED <<port, hba, buffer>>
        /\ call' = [call EXCEPT !.spin = call.spin + 1]
    BY <1>3 DEF spin_busy, portvars
  <2>2. /\ call'.count = call.count /\ call'.prdt = call.prdt /\ call'.sectors = call.sectors
        /\ call'.result = call.result /\ call'.slot = call.slot
    BY <1>1, <2>1 DEF Calls
  <2>3. ~call.result
    BY <2>1 DEF ReadsInv, CarriedOut
  <2>4. Quiet' /\ ErrorHalts'
    BY <2>1 DEF ReadsInv, Quiet, ErrorHalts
  <2>5. Commanded' /\ CarriedOut'
    BY <2>1, <2>2, <2>3 DEF ReadsInv, Commanded, CarriedOut
  <2> QED
    BY <2>4, <2>5 DEF ReadsInv
<1>4. CASE issue
  <2>1. /\ pc = "spin" /\ pc' = "wait" /\ UNCHANGED <<port, call, buffer>> /\ port \in Ports
        /\ hba' = [hba EXCEPT ![port] = [hba[port] EXCEPT !.ci = hba[port].ci \cup {call.slot}]]
    BY <1>1, <1>4 DEF issue, portvars, readvars
  <2>2. /\ hba'[port].ci = hba[port].ci \cup {call.slot}
        /\ \A q \in Ports : hba'[q].tfes = hba[q].tfes /\ hba'[q].halted = hba[q].halted
        /\ \A q \in Ports \ {port} : hba'[q].ci = hba[q].ci
    BY <1>1, <2>1 DEF Registers
  <2>3. \A q \in Ports : ~hba[q].halted => hba[q].ci = {}
    BY <2>1 DEF ReadsInv, Quiet
  <2>4. Quiet' /\ ErrorHalts'
    BY <2>1, <2>2, <2>3 DEF ReadsInv, Quiet, ErrorHalts
  <2>5. ~call.result
    BY <2>1 DEF ReadsInv, CarriedOut
  <2>6. Commanded' /\ CarriedOut'
    BY <2>1, <2>2, <2>5 DEF ReadsInv, Commanded, CarriedOut
  <2> QED
    BY <2>4, <2>6 DEF ReadsInv
<1>5. CASE sata_read_done
  <2>1. /\ pc = "wait" /\ pc' = "done" /\ UNCHANGED <<port, hba, buffer>> /\ port \in Ports
        /\ call.slot \notin hba[port].ci
        /\ call' = [call EXCEPT !.result = ~hba[port].tfes]
    BY <1>1, <1>5 DEF sata_read_done, portvars
  <2>2. /\ call'.count = call.count /\ call'.prdt = call.prdt /\ call'.sectors = call.sectors
    BY <1>1, <2>1 DEF Calls
  <2>3. Quiet' /\ ErrorHalts'
    BY <2>1 DEF ReadsInv, Quiet, ErrorHalts
  <2>4. Commanded' /\ CarriedOut'
    BY <2>1, <2>2 DEF ReadsInv, Commanded, CarriedOut
  <2> QED
    BY <2>3, <2>4 DEF ReadsInv
<1>6. CASE sata_read_error
  <2>1. /\ pc = "wait" /\ pc' = "done" /\ UNCHANGED <<port, hba, call, buffer>> /\ port \in Ports
        /\ hba[port].tfes
    BY <1>1, <1>6 DEF sata_read_error, portvars, readvars
  <2>2. ~call.result /\ hba[port].halted
    BY <2>1 DEF ReadsInv, CarriedOut, ErrorHalts
  <2>3. Quiet' /\ ErrorHalts'
    BY <2>1, <2>2 DEF ReadsInv, Quiet, ErrorHalts
  <2>4. Commanded' /\ CarriedOut'
    BY <2>1, <2>2 DEF Commanded, CarriedOut
  <2> QED
    BY <2>3, <2>4 DEF ReadsInv
<1> QED
  BY <1>2, <1>3, <1>4, <1>5, <1>6 DEF Read

LEMMA ProbeReadsInv ==
  ASSUME TablesInv, ReadsInv, probe_port \/ pci_enumerate_devices
  PROVE  ReadsInv'
<1>1. hba \in [Ports -> Registers]
  BY DEF TablesInv, Types
<1>2. CASE pci_enumerate_devices
  <2>1. pc = "pci" /\ pc' \in {"pci", "probe", "hang", "fault", "done"} /\ UNCHANGED <<call, buffer, hba>>
    BY <1>2 DEF pci_enumerate_devices, visit_absent, visit_other, init_sata, pci_done,
                ahcivars, portvars, readvars
  <2> QED
    BY <2>1, NoReadInv
<1>3. CASE probe_port
  <2>1. /\ pc \in {"probe", "stop_cmd", "port_rebase", "start_cmd"}
        /\ pc' \in {"probe", "stop_cmd", "port_rebase", "start_cmd", "pci"}
        /\ UNCHANGED <<call, buffer>>
    BY <1>3 DEF probe_port, probe_ports_done, probe_skip, stop_cmd, stop_cmd_wait, port_rebase,
                start_cmd, readvars
  <2>2. \/ hba' = hba
        \/ /\ i \in Ports
           /\ \/ hba' = [hba EXCEPT ![i] = [hba[i] EXCEPT !.st = FALSE, !.fre = FALSE]]
              \/ hba' = [hba EXCEPT ![i] = [hba[i] EXCEPT !.fre = TRUE, !.st = TRUE]]
    <3>1. i \in Ports \/ pc \notin {"port_rebase", "start_cmd"}
      BY DEF TablesInv, Types
    <3> QED
      BY <1>1, <1>3, <3>1 DEF probe_port, probe_ports_done, probe_skip, stop_cmd, stop_cmd_wait,
                port_rebase, start_cmd, HasDisk
  <2>3. \A p \in Ports : /\ hba'[p].ci = hba[p].ci /\ hba'[p].tfes = hba[p].tfes
                         /\ hba'[p].halted = hba[p].halted
    <3>1. CASE hba' = hba
      BY <3>1
    <3>2. CASE i \in Ports /\ hba' # hba
      <4> DEFINE o == hba[i]
      <4>1. o \in Registers
        BY <1>1, <3>2
      <4>2. PICK r : /\ hba' = [hba EXCEPT ![i] = r]
                     /\ r.ci = o.ci /\ r.tfes = o.tfes /\ r.halted = o.halted
        <5>1. \/ hba' = [hba EXCEPT ![i] = [o EXCEPT !.st = FALSE, !.fre = FALSE]]
              \/ hba' = [hba EXCEPT ![i] = [o EXCEPT !.fre = TRUE, !.st = TRUE]]
          BY <2>2, <3>2
        <5> HIDE DEF o
        <5>2. /\ \A r : r = [o EXCEPT !.st = FALSE, !.fre = FALSE] =>
                        r.ci = o.ci /\ r.tfes = o.tfes /\ r.halted = o.halted
              /\ \A r : r = [o EXCEPT !.fre = TRUE, !.st = TRUE] =>
                        r.ci = o.ci /\ r.tfes = o.tfes /\ r.halted = o.halted
          BY <4>1 DEF Registers
        <5> QED
          BY <5>1, <5>2
      <4> QED
        BY <1>1, <3>2, <4>2
    <3> QED
      BY <2>2, <3>1, <3>2
  <2> QED
    BY <2>1, <2>3, NoReadInv
<1> QED
  BY <1>2, <1>3

LEMMA StepReadsInv ==
  ASSUME TablesInv, ReadsInv, [Next]_vars
  PROVE  ReadsInv'
<1>1. CASE Next
  BY <1>1, HbaReadsInv, SataReadInv, ProbeReadsInv DEF Next, Kernel
<1>2. CASE UNCHANGED vars
  <2>1. UNCHANGED <<pc, port, call, buffer, hba>> /\ Types
    BY <1>2 DEF vars, ahcivars, portvars, readvars, TablesInv
  <2> QED
    BY <2>1, NoCommandInv
<1> QED
  BY <1>1, <1>2

LEMMA InitReadsInv == Init => ReadsInv
<1> SUFFICES ASSUME Init PROVE ReadsInv
  OBVIOUS
<1>1. /\ pc = "pci" /\ call = NoCall /\ \A p \in Ports : hba[p].ci = {} /\ hba[p].tfes = FALSE
  BY DEF Init, InitAhci
<1>2. ~call.result
  BY <1>1 DEF NoCall
<1> QED
  BY <1>1, <1>2 DEF ReadsInv, Quiet, ErrorHalts, Commanded, CarriedOut

\* A read of one PRDT entry fills the buffer with its sectors in order.
LEMMA OneEntry ==
  ASSUME NEW count \in Counts, count <= EntrySectors
  PROVE  Transfer(Prdt(count), LastCount(count)) = [s \in 0 .. count - 1 |-> s]
<1> DEFINE E == EntrySectors
<1>1. count \in Nat \ {0} /\ E \in Nat \ {0} /\ BufStep \in Nat
  BY AhciAssumption
<1>2. ASSUME NEW s \in 0 .. E - 1 PROVE s \div E = 0 /\ s % E = s
  BY <1>1, <1>2
<1>3. Prdtl(count) = 1
  <2>1. count - 1 \in 0 .. E - 1
    BY <1>1
  <2> QED
    BY <1>2, <2>1 DEF Prdtl
<1>4. LastCount(count) = count
  BY <1>1, <1>3 DEF LastCount
<1>5. Prdt(count)[1].dba = 0
  <2>1. Prdt(count) = [e \in 1 .. 1 |->
          [dba |-> (e - 1) * BufStep,
           sectors |-> IF e = 1 THEN LastCount(count) ELSE EntrySectors]]
    BY <1>3 DEF Prdt
  <2>2. Prdt(count)[1].dba = (1 - 1) * BufStep
    BY <2>1
  <2> QED
    BY <1>1, <2>2
<1> DEFINE prdt == Prdt(count)
           at(s) == prdt[(s \div E) + 1].dba + (s % E)
<1>6. ASSUME NEW s \in 0 .. count - 1 PROVE at(s) = s
  <2>1. s \in 0 .. E - 1 /\ s \in Nat
    BY <1>1
  <2>2. s \div E = 0 /\ s % E = s
    BY <1>2, <2>1
  <2>3. (s \div E) + 1 = 1
    BY <2>2
  <2> HIDE DEF prdt
  <2> QED
    BY <1>5, <2>1, <2>2, <2>3 DEF prdt
<1>7. Transfer(prdt, count) = [a \in {at(s) : s \in 0 .. count - 1} |->
                                 CHOOSE s \in 0 .. count - 1 : at(s) = a]
  BY DEF Transfer
<1> HIDE DEF at, prdt
<1>8. {at(s) : s \in 0 .. count - 1} = 0 .. count - 1
  BY <1>6
<1>9. \A a \in 0 .. count - 1 : (CHOOSE s \in 0 .. count - 1 : at(s) = a) = a
  BY <1>6
<1>10. Transfer(prdt, count) = [a \in 0 .. count - 1 |-> a]
  BY <1>7, <1>8, <1>9
<1> QED
  BY <1>4, <1>10 DEF prdt

\* For every sequence of reads, errors and timeouts, on any number of slots: sata_read
\* returns TRUE only with all sectors of a read of one PRDT entry in the buffer.
THEOREM PciSataReadTruthful == Spec => []SataReadTruthful
<1>1. ReadsInv => SataReadTruthful
  BY OneEntry DEF ReadsInv, Commanded, CarriedOut, SataReadTruthful
<1> QED
  BY <1>1, Invariants, InitReadsInv, StepReadsInv, PTL DEF Spec

----------------------------------------------------------------------------
(* The search for the disks.                                               *)

LEMMA CountType == \A d : function_count(d) \in Nat \ {0} /\ function_count(d) <= Functions
BY PciAssumption DEF function_count

\* One step of the scan passes the function it stands at, and no other that can be seen.
LEMMA AdvanceScan ==
  ASSUME ScanInv, device < Devices, Advance, config' = config
  PROVE  /\ device' \in 0 .. Devices /\ function' \in 0 .. Functions - 1
         /\ (function < function_count(device))'
         /\ \A x \in DOMAIN config :
              Visible(x) => (Passed(x)' = (Passed(x) \/ x = <<device, function>>))
<1>1. /\ device \in Nat /\ function \in Nat /\ Functions \in Nat \ {0} /\ Devices \in Nat
      /\ config \in Configs /\ device < Devices
  BY PciAssumption DEF ScanInv
<1>2. \A d : function_count(d)' = function_count(d)
  BY DEF function_count, has_functions, Present
<1>3. \A d : function_count(d) \in Nat \ {0} /\ function_count(d) <= Functions
  BY CountType
<1>4. \/ /\ function + 1 < function_count(device) /\ function' = function + 1 /\ device' = device
      \/ /\ ~(function + 1 < function_count(device)) /\ function' = 0 /\ device' = device + 1
  BY DEF Advance
<1>5. function_count(device) \in Nat \ {0} /\ function_count(device) <= Functions
      /\ function_count(device') \in Nat \ {0}
  BY <1>3
<1>6. device' \in 0 .. Devices /\ function' \in 0 .. Functions - 1
  BY <1>1, <1>4, <1>5
<1>7. function' < function_count(device')
  BY <1>1, <1>4, <1>5
<1>8. ASSUME NEW x \in DOMAIN config, Visible(x)
      PROVE  Passed(x)' = (Passed(x) \/ x = <<device, function>>)
  <2>1. PICK d \in 0 .. Devices - 1, f \in 0 .. Functions - 1 : x = <<d, f>>
    BY <1>1, PciAssumption
  <2>2. x[1] = d /\ x[2] = f
    BY <2>1
  <2>3. f = 0 \/ function_count(d) = Functions
    BY <1>8, <2>2 DEF Visible, function_count, has_functions
  <2>4. Passed(x) <=> d < device \/ (d = device /\ f < function)
    BY <2>2 DEF Passed
  <2>5. Passed(x)' <=> d < device' \/ (d = device' /\ f < function')
    BY <2>2 DEF Passed
  <2>6. (x = <<device, function>>) <=> (d = device /\ f = function)
    BY <2>1
  <2>7. Passed(x)' <=> (Passed(x) \/ x = <<device, function>>)
    BY <1>1, <1>4, <1>5, <2>3, <2>4, <2>5, <2>6
  <2>8. Passed(x)' \in BOOLEAN /\ (Passed(x) \/ x = <<device, function>>) \in BOOLEAN
    BY DEF Passed
  <2> QED
    BY <2>7, <2>8
<1> QED
  BY <1>2, <1>6, <1>7, <1>8

\* Steps that leave the scan alone keep what is known of the functions passed.
LEMMA HandedSame ==
  ASSUME HandedInv, UNCHANGED <<config, device, function, handed, reached>>
  PROVE  HandedInv'
<1>1. \A x : Visible(x)' = Visible(x) /\ TheController(x)' = TheController(x) /\ Passed(x)' = Passed(x)
  BY DEF TheController, Visible, Present, Passed
<1> QED
  BY <1>1 DEF HandedInv

\* Steps that leave the scan and what is served alone.
LEMMA SearchSame ==
  ASSUME SearchInv, UNCHANGED <<config, device, function, handed, reached, tables, i>>,
         pc' = pc \/ {pc, pc'} \subseteq {"done", "spin", "wait"},
         \A p \in Ports : /\ hba'[p].type = hba[p].type
                          /\ hba'[p].st = hba[p].st /\ hba'[p].fre = hba[p].fre
  PROVE  SearchInv'
<1>1. ScanInv' /\ HandedInv'
  BY HandedSame DEF SearchInv, ScanInv, function_count, has_functions, Present
<1>2. \A p \in Ports : Served(p)' = Served(p)
  BY DEF Served
<1>3. BetweenVisits'
  BY <1>2 DEF SearchInv, BetweenVisits
<1>4. Probing'
  BY <1>2 DEF SearchInv, Probing
<1> QED
  BY <1>1, <1>3, <1>4 DEF SearchInv

LEMMA ControllerIsOne ==
  ASSUME ScanInv, NEW x, NEW y, TheController(x), TheController(y)
  PROVE  x = y
BY PciAssumption DEF ScanInv, TheController

LEMMA EnumerateSearchInv ==
  ASSUME SearchInv, pci_enumerate_devices
  PROVE  SearchInv'
<1>1. ScanInv /\ HandedInv /\ pc = "pci"
  BY DEF SearchInv, pci_enumerate_devices, visit_absent, visit_other, init_sata, pci_done
<1>2. CASE pci_done
  <2>1. /\ pc' = "done" /\ device = Devices
        /\ UNCHANGED <<config, device, function, handed, reached, tables, hba>>
    BY <1>1, <1>2 DEF pci_done, portvars, pcivars, history
  <2>2. ScanInv'
    BY <1>1, <2>1 DEF ScanInv, function_count, has_functions, Present
  <2>3. HandedInv'
    BY <1>1, <2>1, HandedSame
  <2>4. BetweenVisits' /\ Probing'
    BY <1>1, <2>1 DEF SearchInv, BetweenVisits, Probing, Served
  <2> QED
    BY <2>2, <2>3, <2>4 DEF SearchInv
<1>3. CASE visit_absent \/ visit_other \/ init_sata
  <2>0. PICK here : here = <<device, function>>
    OBVIOUS
  <2>1. /\ device < Devices /\ Advance /\ config' = config /\ tables' = tables /\ hba' = hba
        /\ pc' \in {"pci", "probe", "hang", "fault"}
    BY <1>1, <1>3 DEF visit_absent, visit_other, init_sata, ahcivars, portvars
  <2>2. ScanInv'
    BY <1>1, <2>1, AdvanceScan DEF ScanInv
  <2>3. \A x : Visible(x)' = Visible(x) /\ TheController(x)' = TheController(x)
    BY <2>1 DEF TheController, Visible, Present
  <2>4. \A x \in DOMAIN config : Visible(x) => (Passed(x)' = (Passed(x) \/ x = here))
    BY <1>1, <2>0, <2>1, AdvanceScan
  <2>5. \A p \in Ports : Served(p)' = Served(p)
    BY <2>1 DEF Served
  <2>6. ASSUME reached PROVE \E x : (TheController(x) /\ Passed(x))'
    <3>1. PICK x : TheController(x) /\ Passed(x)
      BY <1>1, <2>6 DEF HandedInv
    <3>2. Passed(x)'
      BY <2>4, <3>1 DEF TheController
    <3> QED
      BY <2>3, <3>1, <3>2
  <2>7. CASE visit_absent \/ visit_other
    <3>1. UNCHANGED <<pc, handed, reached>>
      BY <2>7 DEF visit_absent, visit_other, ahcivars, history
    <3>2. ~(here \in DOMAIN config /\ Visible(here))
      BY <2>0, <2>7 DEF visit_absent, visit_other, Visible, Present
    <3>3. \A x \in DOMAIN config : Visible(x) => (Passed(x)' <=> Passed(x))
      BY <2>4, <3>2 DEF Passed
    <3>4. HandedInv'
      BY <1>1, <2>1, <2>3, <2>6, <3>1, <3>3 DEF HandedInv
    <3>5. BetweenVisits' /\ Probing'
      BY <1>1, <2>1, <2>5, <3>1 DEF SearchInv, BetweenVisits, Probing
    <3> QED
      BY <2>2, <3>4, <3>5 DEF SearchInv
  <2>8. CASE init_sata
    <3>1. /\ Present(device, function) /\ IsAhci(config[here]) /\ i' = 0
          /\ handed' = handed \cup {here} /\ reached' = (reached \/ pc' = "probe")
          /\ pc' = "probe" => port_base(config[here], 4) = "hba"
      BY <2>0, <2>8 DEF init_sata
    <3>2. here \in DOMAIN config /\ Visible(here)
      <4>1. function = 0 \/ has_functions(device)
        BY <1>1 DEF ScanInv, function_count
      <4> QED
        BY <2>0, <3>1, <4>1 DEF Visible, has_functions, Present
    <3>3. ~Passed(here) /\ Passed(here)'
      <4>1. ~Passed(here)
        BY <1>1, <2>0 DEF Passed, ScanInv
      <4> QED
        BY <2>4, <3>2, <4>1
    <3>4. \A x \in DOMAIN config : Visible(x) => (Passed(x)' <=> (Passed(x) \/ x = here))
      BY <2>4
    <3>5. handed' = {x \in DOMAIN config : Visible(x) /\ Passed(x)}'
      BY <1>1, <2>1, <2>3, <3>1, <3>2, <3>4 DEF HandedInv
    <3>6. pc' = "probe" => TheController(here)
      <4>1. config[here].header_type = 0
        BY <1>1, <3>1, <3>2, PciAssumption DEF ScanInv
      <4>2. port_base(config[here], 4) = config[here].bars[4]
        BY <4>1 DEF port_base
      <4> QED
        BY <3>1, <3>2, <4>2 DEF TheController, Controller
    <3>7. HandedInv'
      BY <1>1, <2>3, <2>6, <3>1, <3>3, <3>5, <3>6 DEF HandedInv
    <3>8. CASE pc' # "probe"
      <4>1. reached' = reached
        BY <1>1, <3>1, <3>8 DEF HandedInv
      <4>2. BetweenVisits' /\ Probing'
        BY <1>1, <2>1, <2>5, <3>8, <4>1 DEF SearchInv, BetweenVisits, Probing
      <4> QED
        BY <2>2, <3>7, <4>2 DEF SearchInv
    <3>9. CASE pc' = "probe"
      <4>1. ~reached
        BY <1>1, <3>3, <3>6, <3>9, ControllerIsOne DEF HandedInv
      <4>2. \A p \in Ports : Len(tables[p]) = 0
        BY <1>1, <4>1 DEF SearchInv, BetweenVisits
      <4>3. Ports \subseteq Nat
        BY AhciAssumption
      <4>4. Probing'
        <5>1. i' = 0 /\ reached' /\ pc' = "probe" /\ \A p \in Ports : Len(tables'[p]) = 0
          BY <2>1, <3>1, <3>9, <4>2
        <5>2. \A p \in Ports : ~(p < 0)
          BY <4>3
        <5> QED
          BY <5>1, <5>2 DEF Probing
      <4>5. BetweenVisits'
        BY <3>9 DEF BetweenVisits
      <4> QED
        BY <2>2, <3>7, <4>4, <4>5 DEF SearchInv
    <3> QED
      BY <3>8, <3>9
  <2> QED
    BY <1>3, <2>7, <2>8
<1> QED
  BY <1>2, <1>3 DEF pci_enumerate_devices

LEMMA ProbeSearchInv ==
  ASSUME TablesInv, SearchInv, probe_port, UNCHANGED pcivars
  PROVE  SearchInv'
<1>1. /\ hba \in [Ports -> Registers] /\ tables \in [Ports -> Seq(Tables)] /\ Slots \in Nat
      /\ Ports \subseteq Nat
  BY AhciAssumption DEF TablesInv, Types
<1>2. pc \in {"probe", "stop_cmd", "port_rebase", "start_cmd"}
  BY DEF probe_port, probe_ports_done, probe_skip, stop_cmd, stop_cmd_wait, port_rebase, start_cmd
<1>3. reached
  BY <1>2 DEF SearchInv, Probing
<1>4. /\ i \in Nat /\ \A p \in Ports : (p < i => Served(p)) /\ (p > i => Len(tables[p]) = 0)
      /\ i \in Ports => CASE pc = "port_rebase" -> Len(tables[i]) < Slots + 2
                          [] pc = "start_cmd" -> Len(tables[i]) = Slots + 2
                          [] OTHER -> Len(tables[i]) = 0
  BY <1>2 DEF SearchInv, Probing
<1>5. UNCHANGED <<config, device, function, handed, reached>> /\ ScanInv /\ HandedInv
  BY DEF pcivars, history, SearchInv
<1>6. HandedInv' /\ reached'
  BY <1>3, <1>5, HandedSame
<1>7. pc' \notin {"done", "spin", "wait"} => ScanInv'
  BY <1>5 DEF ScanInv, function_count, has_functions, Present
<1>8. pc' \in {"probe", "stop_cmd", "port_rebase", "start_cmd"} => BetweenVisits'
  BY DEF BetweenVisits
<1>9. CASE probe_ports_done
  <2>1. pc' = "pci" /\ i > LastPort /\ UNCHANGED <<hba, tables>>
    BY <1>9 DEF probe_ports_done, portvars
  <2>2. LastPort \in Ports /\ \A p \in Ports : p <= LastPort
    BY AhciAssumption DEF LastPort
  <2>3. \A p \in Ports : Served(p)'
    BY <1>1, <1>4, <2>1, <2>2 DEF Served
  <2>4. BetweenVisits'
    BY <1>6, <2>3 DEF BetweenVisits
  <2>5. Probing'
    BY <2>1 DEF Probing
  <2> QED
    BY <1>6, <1>7, <2>1, <2>4, <2>5 DEF SearchInv
<1>10. CASE probe_skip
  <2>1. pc' = "probe" /\ ~HasDisk(i) /\ i' = i + 1 /\ UNCHANGED <<hba, tables>> /\ pc = "probe"
    BY <1>10 DEF probe_skip
  <2>2. ASSUME NEW p \in Ports, p < i + 1 PROVE Served(p)'
    <3>1. p < i \/ p = i
      BY <1>1, <1>4, <2>2
    <3>2. CASE p = i
      BY <2>1, <3>2 DEF HasDisk, Served
    <3> QED
      BY <1>4, <2>1, <3>1, <3>2 DEF Served
  <2>3. \A p \in Ports : p >= i + 1 => Len(tables[p]) = 0
    BY <1>1, <1>4
  <2>4. Probing'
    BY <1>1, <1>3, <1>4, <1>6, <2>1, <2>2, <2>3 DEF Probing
  <2> QED
    BY <1>6, <1>7, <1>8, <2>1, <2>4 DEF SearchInv
<1>11. CASE stop_cmd
  <2>1. /\ pc = "probe" /\ pc' = "stop_cmd" /\ i \in Ports /\ UNCHANGED <<i, tables>>
        /\ hba' = [hba EXCEPT ![i] = [hba[i] EXCEPT !.st = FALSE, !.fre = FALSE]]
    BY <1>1, <1>11 DEF stop_cmd, HasDisk
  <2>2. \A p \in Ports \ {i} : hba'[p] = hba[p]
    BY <1>1, <2>1
  <2>3. \A p \in Ports : p < i => Served(p)'
    BY <1>1, <1>4, <2>1, <2>2 DEF Served
  <2>4. Probing'
    BY <1>3, <1>4, <1>6, <2>1, <2>3 DEF Probing
  <2> QED
    BY <1>6, <1>7, <1>8, <2>1, <2>4 DEF SearchInv
<1>12. CASE stop_cmd_wait
  <2>1. pc = "stop_cmd" /\ pc' = "port_rebase" /\ UNCHANGED <<i, hba, tables>>
    BY <1>12 DEF stop_cmd_wait, portvars
  <2>2. \A p \in Ports : Served(p)' = Served(p)
    BY <2>1 DEF Served
  <2>3. i \in Ports => Len(tables[i]) < Slots + 2
    BY <1>1, <1>4, <2>1
  <2>4. Probing'
    BY <1>3, <1>4, <1>6, <2>1, <2>2, <2>3 DEF Probing
  <2> QED
    BY <1>6, <1>7, <1>8, <2>1, <2>4 DEF SearchInv
<1>13. CASE port_rebase
  <2> DEFINE k == Len(tables[i]) + 1
             t == [at |-> malloc_aligned(malloc(BlockSize(SizeOfTable(k)))), size |-> SizeOfTable(k)]
  <2>1. /\ pc = "port_rebase" /\ i \in Ports /\ UNCHANGED <<i, hba>>
        /\ pc' = IF k = Slots + 2 THEN "start_cmd" ELSE "port_rebase"
        /\ tables' = [tables EXCEPT ![i] = Append(tables[i], t)]
    BY <1>13 DEF port_rebase, TablesInv, Types
  <2>2. tables[i] \in Seq(Tables) /\ Len(tables[i]) \in Nat /\ Len(tables[i]) < Slots + 2
    BY <1>1, <1>4, <2>1
  <2> HIDE DEF t
  <2>3. tables'[i] = Append(tables[i], t) /\ \A p \in Ports \ {i} : tables'[p] = tables[p]
    BY <1>1, <2>1
  <2>4. Len(tables'[i]) = k
    BY <2>2, <2>3
  <2>5. \A p \in Ports : (p < i => Served(p)') /\ (p > i => Len(tables'[p]) = 0)
    BY <1>1, <1>4, <2>1, <2>3 DEF Served
  <2>6. /\ pc' = "start_cmd" => Len(tables'[i]) = Slots + 2
        /\ pc' = "port_rebase" => Len(tables'[i]) < Slots + 2
        /\ pc' \in {"start_cmd", "port_rebase"}
    BY <1>1, <2>1, <2>2, <2>4
  <2>7. Probing'
    BY <1>3, <1>4, <1>6, <2>1, <2>5, <2>6 DEF Probing
  <2> QED
    BY <1>6, <1>7, <1>8, <2>6, <2>7 DEF SearchInv
<1>14. CASE start_cmd
  <2>1. /\ pc = "start_cmd" /\ pc' = "probe" /\ i \in Ports /\ i' = i + 1 /\ tables' = tables
        /\ hba' = [hba EXCEPT ![i] = [hba[i] EXCEPT !.fre = TRUE, !.st = TRUE]]
    BY <1>1, <1>14 DEF start_cmd, TablesInv, Types
  <2>2. hba'[i].fre /\ hba'[i].st /\ \A p \in Ports \ {i} : hba'[p] = hba[p]
    BY <1>1, <2>1 DEF Registers
  <2>3. Len(tables[i]) = Slots + 2
    BY <1>4, <2>1
  <2>4. ASSUME NEW p \in Ports, p < i + 1 PROVE Served(p)'
    <3>1. p < i \/ p = i
      BY <1>1, <1>4, <2>4
    <3>2. CASE p = i
      BY <2>1, <2>2, <2>3, <3>2 DEF Served
    <3>3. CASE p # i
      BY <1>4, <2>1, <2>2, <3>1, <3>3 DEF Served
    <3> QED
      BY <3>2, <3>3
  <2>5. \A p \in Ports : p >= i + 1 => Len(tables[p]) = 0
    BY <1>1, <1>4
  <2>6. Probing'
    BY <1>1, <1>3, <1>4, <1>6, <2>1, <2>4, <2>5 DEF Probing
  <2> QED
    BY <1>6, <1>7, <1>8, <2>1, <2>6 DEF SearchInv
<1> QED
  BY <1>9, <1>10, <1>11, <1>12, <1>13, <1>14 DEF probe_port

LEMMA ReadSearchInv ==
  ASSUME TablesInv, SearchInv, Read, UNCHANGED pcivars
  PROVE  SearchInv'
<1>1. /\ hba \in [Ports -> Registers] /\ port \in Ports \cup {NoPort}
      /\ pc \in {"spin", "wait"} => port \in Ports
  BY DEF TablesInv, Types
<1>2. /\ UNCHANGED <<config, device, function, handed, reached, tables, i>>
      /\ {pc, pc'} \subseteq {"done", "spin", "wait"}
  BY DEF Read, sata_read, spin_busy, issue, sata_read_done, sata_read_error, portvars, readvars,
         pcivars, history
<1>3. \/ hba' = hba
      \/ /\ port \in Ports
         /\ \/ hba' = [hba EXCEPT ![port] = [hba[port] EXCEPT !.tfes = FALSE]]
            \/ hba' = [hba EXCEPT ![port] = [hba[port] EXCEPT !.ci = hba[port].ci \cup {call.slot}]]
  BY <1>1 DEF Read, sata_read, spin_busy, issue, sata_read_done, sata_read_error
<1>4. \A p \in Ports : /\ hba'[p].type = hba[p].type
                       /\ hba'[p].st = hba[p].st /\ hba'[p].fre = hba[p].fre
  BY <1>1, <1>3 DEF Registers
<1> QED
  BY <1>2, <1>4, SearchSame

LEMMA StepSearchInv ==
  ASSUME TablesInv, SearchInv, [Next]_vars
  PROVE  SearchInv'
<1>1. CASE pci_enumerate_devices
  BY <1>1, EnumerateSearchInv
<1>2. CASE probe_port /\ UNCHANGED pcivars
  BY <1>2, ProbeSearchInv
<1>3. CASE Read /\ UNCHANGED pcivars
  BY <1>3, ReadSearchInv
<1>4. CASE HbaStep /\ UNCHANGED pcivars
  <2>1. /\ UNCHANGED <<pc, i, tables, config, device, function, handed, reached>>
        /\ \A q \in Ports : HbaFollows(hba[q], hba'[q])
    BY <1>4, HbaStepRegisters DEF pcivars, history
  <2> QED
    BY <2>1, SearchSame DEF HbaFollows
<1>5. CASE UNCHANGED vars
  <2>1. UNCHANGED <<pc, i, tables, config, device, function, handed, reached, hba>>
    BY <1>5 DEF vars, ahcivars, portvars, pcivars, history
  <2> QED
    BY <2>1, SearchSame
<1> QED
  BY <1>1, <1>2, <1>3, <1>4, <1>5 DEF Next, Kernel

LEMMA InitSearchInv == Init => SearchInv
<1> SUFFICES ASSUME Init PROVE SearchInv
  OBVIOUS
<1>1. /\ pc = "pci" /\ device = 0 /\ function = 0 /\ config \in Configs
      /\ tables = [p \in Ports |-> << >>] /\ handed = {} /\ reached = FALSE
  BY DEF Init, InitAhci
<1>2. ScanInv
  BY <1>1, CountType, PciAssumption DEF ScanInv
<1>3. ASSUME NEW x \in DOMAIN config PROVE ~Passed(x)
  <2>1. PICK d \in 0 .. Devices - 1, f \in 0 .. Functions - 1 : x = <<d, f>>
    BY <1>1, <1>3, PciAssumption
  <2> QED
    BY <1>1, <2>1, PciAssumption DEF Passed
<1>4. \A p \in Ports : Len(tables[p]) = 0
  BY <1>1
<1>5. BetweenVisits /\ Probing
  BY <1>1, <1>4 DEF BetweenVisits, Probing
<1>6. HandedInv
  BY <1>1, <1>3 DEF HandedInv
<1> QED
  BY <1>2, <1>5, <1>6 DEF SearchInv

\* On every machine and for every set of ports, a scan of the bus that ends has handed
\* exactly the AHCI functions that can be seen to init_sata, and once the registers have
\* been reached probe_port has come by every disk, whichever function the controller is
\* and however the HBA's engines and the driver interleave.
THEOREM PciDisksFound == Spec => []DisksFound
<1>1. SearchInv => DisksFound
  <2> SUFFICES ASSUME SearchInv, pc = "done"
               PROVE  /\ handed = {x \in DOMAIN config : Visible(x)}
                      /\ reached => \A p \in Ports : Served(p)
    BY DEF DisksFound, Served
  <2>1. ASSUME NEW x \in DOMAIN config PROVE Passed(x)
    <3>1. device = Devices /\ config \in Configs
      BY DEF SearchInv, ScanInv
    <3>2. PICK d \in 0 .. Devices - 1, f \in 0 .. Functions - 1 : x = <<d, f>>
      BY <3>1, PciAssumption
    <3> QED
      BY <3>1, <3>2, PciAssumption DEF Passed
  <2> QED
    BY <2>1 DEF SearchInv, HandedInv, BetweenVisits
<1> QED
  BY <1>1, Invariants, InitSearchInv, StepSearchInv, PTL DEF Spec

\* The heap ends in its arena: malloc is never beyond it.
HeapInv ==
  /\ heap_top <= HeapEnd
  /\ pc \in {"pci", "probe", "stop_cmd", "port_rebase", "start_cmd", "done", "spin", "wait",
            "hang", "fault"}

LEMMA StepHeapInv ==
  ASSUME TablesInv, HeapInv, [Next]_vars
  PROVE  HeapInv'
<1>1. heap_top \in Nat /\ heap_top <= HeapEnd /\ HeapEnd \in Nat
  BY AhciAssumption DEF TablesInv, Types, HeapInv
<1>2. CASE port_rebase
  <2> DEFINE k == Len(tables[i]) + 1
             n == BlockSize(SizeOfTable(k))
             p == malloc(n)
  <2>1. /\ heap_top' = IF p = 0 THEN heap_top ELSE p + n
        /\ pc' \in {"start_cmd", "port_rebase"}
    BY <1>2 DEF port_rebase
  <2>2. p = IF heap_top + HeaderSize + n < HeapEnd THEN heap_top + HeaderSize ELSE 0
    BY DEF malloc
  <2> HIDE DEF p, n
  <2>3. heap_top' <= HeapEnd
    BY <1>1, <2>1, <2>2
  <2> QED
    BY <2>1, <2>3 DEF HeapInv
<1>3. CASE probe_port /\ ~port_rebase
  BY <1>3 DEF HeapInv, probe_port, probe_ports_done, probe_skip, stop_cmd, stop_cmd_wait, start_cmd,
              portvars
<1>4. CASE Read
  BY <1>4 DEF HeapInv, Read, sata_read, spin_busy, issue, sata_read_done, sata_read_error, portvars
<1>5. CASE pci_enumerate_devices
  BY <1>5 DEF HeapInv, pci_enumerate_devices, visit_absent, visit_other, init_sata, pci_done,
              ahcivars, portvars
<1>6. CASE HbaStep
  BY <1>6, HbaStepRegisters DEF HeapInv
<1>7. CASE UNCHANGED vars
  BY <1>7 DEF HeapInv, vars, ahcivars, portvars
<1> QED
  BY <1>2, <1>3, <1>4, <1>5, <1>6, <1>7 DEF Next, Kernel

\* pci_enumerate_devices asks only for devices and functions that can be addressed,
\* malloc stays in the heap and probe_port returns one of the HBA's ports.
THEOREM PciTypeOK == Spec => []TypeOK
<1>1. Init => HeapInv
  BY AhciAssumption DEF Init, InitAhci, HeapInv
<1>2. TablesInv /\ SearchInv /\ HeapInv => TypeOK
  BY AhciAssumption DEF TablesInv, Types, SearchInv, ScanInv, HeapInv, TypeOK
<1> QED
  BY <1>1, <1>2, Invariants, InitSearchInv, StepSearchInv, StepHeapInv, PTL DEF Spec
=============================================================================
