------------------------------- MODULE MCHeap --------------------------------
(***************************************************************************)
(* A heap of a few cells for TLC.                                          *)
(***************************************************************************)
EXTENDS Heap

(* What owners store: a picture of a free block and one of a used block.   *)
FakeFree == [size |-> 1, reserved |-> 0]
FakeUsed == [size |-> 2, reserved |-> 1]
MCPayloads == {FakeFree, FakeUsed}

=============================================================================
