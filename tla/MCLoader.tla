------------------------------ MODULE MCLoader ------------------------------
(***************************************************************************)
(* Programs for TLC: two segments in the file in the other order than in   *)
(* memory, a note in between, known and unknown symbols, a symbol that is  *)
(* registered twice, a program without main, and a file that is no program.*)
(* With three libraries open there is no room for the block of image_load, *)
(* or for the file.                                                        *)
(***************************************************************************)
EXTENDS Loader

File(n) == [k \in 1 .. n |-> <<"word", k>>]

Segment(load, offset, vaddr, filesz) ==
  [load |-> load, offset |-> offset, vaddr |-> vaddr, filesz |-> filesz]

Rel(type, offset, sym) == [type |-> type, offset |-> offset, sym |-> sym]

Program(elf, length, segments, rels, main) ==
  [elf |-> elf, file |-> File(length), segments |-> segments, rels |-> rels, main |-> main]

TwoSegments == <<Segment(TRUE, 3, 0, 2), Segment(FALSE, 2, 9, 1), Segment(TRUE, 1, 3, 2)>>

MCImages == {
  Program(TRUE, 6, TwoSegments, <<Rel("JMP_SLOT", 3, "kprintf"), Rel("GLOB_DAT", 4, "inb"),
                               Rel("JMP_SLOT", 0, "unknown")>>, 1),
  Program(TRUE, 7, <<Segment(TRUE, 0, 0, 7)>>, <<Rel("JMP_SLOT", 5, "inb")>>, 2),
  Program(TRUE, 6, <<Segment(TRUE, 0, 0, 0)>>, << >>, -1),
  Program(FALSE, 6, TwoSegments, << >>, 0)}

MCSymbols == <<"inb", "outb", "kprintf", "inb">>
=============================================================================
