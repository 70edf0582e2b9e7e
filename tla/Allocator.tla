----------------------------- MODULE Allocator -----------------------------
(***************************************************************************)
(* What the kernel heap (kernel/src/memory/mem_manager.c: heap_init,       *)
(* malloc, free) promises its callers, with no word about chunks.  Callers *)
(* own blocks; a granted block lies inside the arena and shares no byte    *)
(* with a block somebody already owns; and a request is refused only for a *)
(* reason a caller can accept: blocks are outstanding, or the request      *)
(* would not fit an untouched arena.                                       *)
(***************************************************************************)
EXTENDS Integers

CONSTANTS
  Lo, Hi,        \* the arena is the addresses Lo .. Hi-1
  Capacity,      \* the size at which requests stop fitting an untouched arena
  Requests       \* sizes callers ask for

VARIABLES
  up,            \* the arena has been set up
  pending,       \* size of the request being served, Idle when there is none
  owned,         \* pointer -> size asked for, of every outstanding block
  reply          \* what the last request was answered, 0 for a refusal

avars == <<up, pending, owned, reply>>

Idle == -1

NoBlocks == [p \in {} |-> 0]

Init ==
  /\ up = FALSE
  /\ pending = Idle
  /\ owned = NoBlocks
  /\ reply = 0

Setup ==
  /\ ~up
  /\ pending = Idle
  /\ up' = TRUE
  /\ UNCHANGED <<pending, owned, reply>>

Ask(n) ==
  /\ pending = Idle
  /\ pending' = n
  /\ UNCHANGED <<up, owned, reply>>

\* Two blocks share no byte; an empty block still has an address of its own.
Apart(p, m, q, n) == p # q /\ (p + m <= q \/ q + n <= p)

Grant(p) ==
  /\ up
  /\ pending # Idle
  /\ Lo <= p /\ p + pending <= Hi
  /\ \A q \in DOMAIN owned : Apart(p, pending, q, owned[q])
  /\ owned' = [q \in DOMAIN owned \cup {p} |->
                 IF q = p THEN pending ELSE owned[q]]
  /\ reply' = p
  /\ pending' = Idle
  /\ UNCHANGED up

Refuse ==
  /\ pending # Idle
  /\ ~up \/ DOMAIN owned # {} \/ pending >= Capacity
  /\ reply' = 0
  /\ pending' = Idle
  /\ UNCHANGED <<up, owned>>

Release(p) ==
  /\ pending = Idle
  /\ p \in DOMAIN owned
  /\ owned' = [q \in DOMAIN owned \ {p} |-> owned[q]]
  /\ UNCHANGED <<up, pending, reply>>

Next ==
  \/ Setup
  \/ \E n \in Requests : Ask(n)
  \/ \E p \in Lo .. Hi : Grant(p)
  \/ Refuse
  \/ \E p \in DOMAIN owned : Release(p)

Spec == Init /\ [][Next]_avars
=============================================================================
