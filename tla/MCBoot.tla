------------------------------- MODULE MCBoot -------------------------------
(***************************************************************************)
(* Disks for TLC, scaled down: a sector of 4 bytes holds 2 directory       *)
(* entries, a FAT 8 entries.  On the good volumes the directories hold     *)
(* deleted entries and parts of long names that look like the name sought, *)
(* and BOOT and KERNEL0.ELF are fragmented.                                *)
(***************************************************************************)
EXTENDS Boot

CONSTANT None

Bpb(jump, bps, spc, sectors) ==
  [jump |-> jump, bytes_per_sector |-> bps, sectors_per_cluster |-> spc,
   reserved_sector_count |-> 1, num_fats |-> 2, root_entry_count |-> 4,
   sector_count |-> sectors, fat_size |-> 2]

\* 7 sectors are overhead, and 6 clusters are data.
GoodBpb(spc) == Bpb("short", 4, spc, 7 + 6 * spc)

Fat == 4
Root == 20
Data == 28

Entry(name, attribute, cluster, size) ==
  [name |-> name, attribute |-> attribute, cluster |-> cluster, size |-> size]

Deleted == Entry("free", {}, 3, 2)
LongName(n) == Entry(n, VFAT_DIR_ENTRY, 0, 9)
Other == Entry("other", {}, 4, 3)
End == Entry("end", {}, 0, 0)
Dir(c) == Entry("BOOT", {"subdir"}, c, 0)

PosOf(spc, chain, i) ==
  Data + (chain[(i \div (4 * spc)) + 1] - 2) * 4 * spc + (i % (4 * spc))

At(s, i) == IF i <= Len(s) THEN s[i] ELSE End

\* The volume with these entries in its root directory and in the clusters of BOOT,
\* and with a kernel of that size in these clusters.  BOOT and KERNEL0.ELF are the last
\* entries of the lists.
Vol(b, spc, root, dir, names, chain, size) ==
  LET dirpos == {PosOf(spc, dir, 2 * i) : i \in 0 .. Len(dir) * 2 * spc - 1}
      next(c) == LET chains == {dir, chain}
                     at == {<<s, i>> \in chains \X (1 .. 6) :
                              i < Len(s) /\ s[i] = c}
                 IN  IF at = {} THEN EndOfChain
                     ELSE LET x == CHOOSE x \in at : TRUE IN x[1][x[2] + 1]
  IN  [bpb |-> b,
       entries |-> [p \in dirpos \cup {Root + 2 * i : i \in 0 .. 3} |->
                      IF p < Data THEN At(root, ((p - Root) \div 2) + 1)
                      ELSE At(names, 1 + CHOOSE i \in 0 .. 11 :
                                           /\ i < Len(dir) * 2 * spc
                                           /\ PosOf(spc, dir, 2 * i) = p)],
       fat |-> [p \in Fat .. Fat + 7 |-> next(p - Fat)],
       kernel |-> [i \in 1 .. size |-> PosOf(spc, chain, i - 1)],
       boot |-> Len(root) - 1, dir |-> dir, elf |-> Len(names) - 1, chain |-> chain]

Kernel(c, size) == Entry("KERNEL0", {"read_only"}, c, size)

Good == {
  Vol(GoodBpb(1), 1, <<LongName("BOOT"), Deleted, Other, Dir(5)>>, <<5, 3>>,
      <<Other, LongName("KERNEL0"), Deleted, Kernel(7, 11)>>, <<7, 2, 6>>, 11),
  Vol(GoodBpb(2), 2, <<Dir(2)>>, <<2>>, <<Kernel(4, 10)>>, <<4, 3>>, 10),
  Vol(GoodBpb(1), 1, <<Other, Dir(2)>>, <<2>>, <<Other, Kernel(3, 12)>>, <<3, 4, 5>>, 12)}

\* Volumes without a kernel to load.
Empty(b, root, names) == [Vol(b, 1, root, <<2>>, names, <<3, 4, 5>>, 0) EXCEPT !.kernel = << >>]

Bad ==
  {Empty(b, <<Dir(2)>>, <<Kernel(3, 12)>>) :
     b \in {Bpb("bad", 4, 1, 13), Bpb("near", 8, 1, 13), Bpb("short", 4, 3, 13),
            Bpb("short", 4, 1, 0), Bpb("short", 4, 1, 9)}}
  \cup {Empty(GoodBpb(1), root, names) :
          root \in {<<Dir(2)>>, <<Other, Other, Other, Other>>,
                    <<Entry("BOOT", {"volume"}, 0, 0)>>},
          names \in {<<Other, Other>>, <<Entry("KERNEL0", {"subdir"}, 3, 0)>>,
                     <<Kernel(3, 6)>>, <<Kernel(0, 0)>>}}

Ata(m, s) == [master |-> m, slave |-> s]

MCMachines ==
  {Ata(v, None) : v \in Good \cup Bad}
  \cup {Ata(None, v) : v \in Good}
  \cup {Ata(v, w) : v \in Good, w \in Good}
  \cup {Ata(None, None)}

MCBpbs == {GoodBpb(1), Bpb("bad", 4, 1, 13), Bpb("short", 4, 1, 0)}
=============================================================================
