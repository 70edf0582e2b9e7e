------------------------------- MODULE MCHeap -------------------------------
(***************************************************************************)
(* TLC instance of Heap.  A header of two units in an arena of fourteen    *)
(* holds up to six chunks, so that splits, exact takes, refusals and every *)
(* combination of free neighbours occur; a request of twelve is as large   *)
(* as the whole payload and is refused by malloc's strict comparison.      *)
(***************************************************************************)
EXTENDS Heap
=============================================================================
