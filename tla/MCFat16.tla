------------------------------ MODULE MCFat16 ------------------------------
(***************************************************************************)
(* A small volume for TLC.  Two entries fill a cluster.  The root holds a  *)
(* deleted entry, a long-name entry that carries a file's name, a volume   *)
(* label, a directory A and a file F; A spans three full clusters and has  *)
(* no end mark; G is scattered over three clusters, H is read-only and     *)
(* fills its cluster, E is empty, B is a directory with a file B.  The     *)
(* bytes of a file read as the entry of a file G at a cluster of A.        *)
(***************************************************************************)
EXTENDS Fat16Files

Entry(status, name, attribute, cluster, size) ==
  [status |-> status, name |-> name, attribute |-> attribute,
   cluster |-> cluster, size |-> size]

File(name, cluster, size) == Entry("used", name, {}, cluster, size)

LongName(name) == Entry("used", name, VFAT_DIR_ENTRY, 0, 0)

MCFatEntries == 13

\* A = 2 -> 5 -> 10, F = 4 -> 3, G = 8 -> 6 -> 9, H = 7, B = 11, A/B/B = 12.
MCFat == [c \in 0 .. 12 |->
            CASE c = 2 -> 5 [] c = 5 -> 10 [] c = 4 -> 3
              [] c = 8 -> 6 [] c = 6 -> 9 [] OTHER -> 99]

MCRoot == << Entry("free", "F", {}, 7, 1),
             LongName("F"),
             Entry("used", "V", {"VOLUME"}, 0, 0),
             Entry("used", "A", {"SUBDIR"}, 2, 0),
             File("F", 4, 3),
             EndEntry >>

MCDirs ==
  [c \in 2 .. 12 |->
     CASE c = 2  -> << Entry("free", "G", {}, 7, 1), LongName("G") >>
       [] c = 5  -> << Entry("used", "H", {"READ_ONLY"}, 7, 2),
                       Entry("used", "B", {"SUBDIR"}, 11, 0) >>
       [] c = 10 -> << File("E", 0, 0), File("G", 8, 5) >>
       [] c = 11 -> << File("B", 12, 1), EndEntry >>
       [] OTHER  -> << File("G", 5, 4), Entry("free", "", {}, 0, 0) >>]

MCNames == {"A", "B", "E", "F", "G", "H", "V", "X"}

PathsUsed ==
  { <<"F">>, <<"V">>, <<"bad">>, <<"A", "G">>, <<"A", "H">>, <<"A", "B">>,
    <<"A", "X">>, <<"V", "G">>, <<"X", "G">>, <<"A", "B", "B">>,
    <<"A", "X", "B">>, <<"A", "B", "X">> }

OpenRequests ==
  [op : {"open"}, path : PathsUsed, mode : {"r"}]
    \cup [op : {"open"}, path : {<<"F">>, <<"A", "G">>, <<"A", "H">>, <<"A", "E">>},
          mode : {"w", "a", "x"}]

SizeRequests ==
  [op : {"size"}, path : {<< >>, <<"F">>, <<"X">>, <<"A", "G">>, <<"A", "X">>,
                          <<"A", "X", "B">>}]

\* A caller asks for the index after the last name it got.
LsRequests ==
  [op : {"ls"}, path : {<< >>}, index : {0, 4, 5, 6, 7}]
    \cup [op : {"ls"}, path : {<<"A">>}, index : {0, 3, 6, 7}]
    \cup [op : {"ls"}, path : {<<"F">>, <<"X">>, <<"A", "B">>, <<"A", "X">>}, index : {0, 1}]

ReadRequests == [op : {"read"}, slot : Slots \cup {INVALID_HANDLE}, count : {1, 3, 6}]

CloseRequests == [op : {"close"}, slot : Slots \cup {INVALID_HANDLE}]

MCRequests ==
  OpenRequests \cup SizeRequests \cup LsRequests \cup ReadRequests \cup CloseRequests
=============================================================================
