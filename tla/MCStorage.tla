----------------------------- MODULE MCStorage -----------------------------
(* Sectors of three bytes: every alignment of a read's ends, up to a first   *)
(* part, two full sectors and a last part; the last sectors are out of       *)
(* read28_disk's range.                                                      *)
EXTENDS Storage

MCOffsets == 0 .. 5
MCLengths == 0 .. 9
=============================================================================
