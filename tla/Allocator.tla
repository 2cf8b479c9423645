------------------------------ MODULE Allocator ------------------------------
(***************************************************************************)
(* What malloc and free of kernel/sys/heap.c promise their callers, with   *)
(* no blocks, headers or lists: a caller that gets memory gets an extent   *)
(* of the heap that nobody else owns, and keeps it until it frees it.      *)
(* The unit of address and size is the 8 byte cell (HEAP_ALIGNMENT, which  *)
(* is also sizeof(malloc_t)).                                              *)
(***************************************************************************)
EXTENDS Integers

CONSTANTS
  HeapBase,   \* address of the first cell of the heap
  HeapSize,   \* cells in the heap
  Requests    \* the sizes callers ask for, in cells

VARIABLE
  owned       \* owned[p]: cells promised to the holder of pointer p, 0 if none

HeapEnd == HeapBase + HeapSize
Cells   == HeapBase .. (HeapEnd - 1)

TypeOK == owned \in [Cells -> Nat]

(* A pointer p to n cells occupies the header cell p-1 and p .. p+n-1.     *)
Apart(p, n, q, m) == q + m <= p - 1 \/ p + n <= q - 1

Init == owned = [c \in Cells |-> 0]

(* malloc returns p. Which p, and when it returns NULL instead, is open.   *)
Malloc(p, n) ==
  /\ HeapBase <= p - 1 /\ p + n <= HeapEnd
  /\ owned[p] = 0
  /\ \A q \in Cells : owned[q] > 0 => Apart(p, n, q, owned[q])
  /\ owned' = [owned EXCEPT ![p] = n]

Free(p) ==
  /\ owned[p] > 0
  /\ owned' = [owned EXCEPT ![p] = 0]

Next == \E p \in Cells : (\E n \in Requests : Malloc(p, n)) \/ Free(p)

Spec == Init /\ [][Next]_owned

=============================================================================
