---------------------------- MODULE MCFat16Mount ----------------------------
(***************************************************************************)
(* Boot sectors for TLC, with the source's own constants except for the    *)
(* word size (TLC's integers end at 2^31 - 1).  The sector counts 4149 and *)
(* 4150 leave 4084 and 4085 sectors for data with 1 reserved sector, two   *)
(* FATs of 16 sectors and 512 root entries; 200 FATs of 65535 sectors make *)
(* data_sector_count wrap; 16 sectors per cluster are the most that 65535  *)
(* sectors allow, 128 the most that fat16_read_bpb accepts.                *)
(***************************************************************************)
EXTENDS Fat16Mount

BootSector(j0, j2, bps, spc, fats, root, sectors, fatsize, s32, sig) ==
  [o \in Offsets |->
     CASE o = 0 -> j0 [] o = 2 -> j2 [] o = 11 -> bps [] o = 13 -> spc [] o = 14 -> 1
       [] o = 16 -> fats [] o = 17 -> root [] o = 19 -> sectors [] o = 22 -> fatsize
       [] o = 32 -> s32 [] o = 38 -> sig]

GoodStart(spc, fats, root, sectors, fatsize, s32) ==
  BootSector(235, 144, 512, spc, fats, root, sectors, fatsize, s32, 41)

MCImages ==
  {GoodStart(spc, fats, root, sectors, fatsize, s32) :
     spc \in {1, 2, 3, 16, 128}, fats \in {0, 1, 2, 200}, root \in {0, 17, 512},
     sectors \in {0, 4149, 4150, 9000, 65535}, fatsize \in {16, 300, 65535},
     s32 \in {0, 70000}}
    \cup {BootSector(j0, j2, bps, 4, 2, 512, 60000, 60, 0, sig) :
            j0 \in {0, 233, 235}, j2 \in {0, 144}, bps \in {512, 1024}, sig \in {0, 41}}
=============================================================================
