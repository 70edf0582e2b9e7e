------------------------------ MODULE MCPaging ------------------------------
(***************************************************************************)
(* Tables of four entries.  The stack is in page 2, the kernel's data in   *)
(* pages 2 and 3, and page 1 is the untouched memory that becomes the      *)
(* table of the user pages.                                                *)
(***************************************************************************)
EXTENDS Paging

MCStackPages == {<<0, 2>>}
MCUserPages == {<<1, 0>>, <<1, 3>>}
MCKernelMemory == {<<0, 2>>, <<0, 3>>}
MCNewTable == <<0, 3>>

\* Untouched memory that is zero, or whose words have bit 31 clear.
Clean == {Blank({}), [frame |-> <<1, 2>>, flags |-> {"PRESENT"}]}

\* A word with bit 31 set.
Dirty == {[frame |-> <<2, 1>>, flags |-> {"USER"}]}
=============================================================================
