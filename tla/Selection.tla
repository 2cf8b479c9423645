------------------------------ MODULE Selection ------------------------------
(* The loop that keeps some of the elements of an array, in their order:   *)
(* of mmap.c, which keeps the entries that are memory, and of fat32_ls,    *)
(* which shows some of a directory. Element n of UpTo is what is kept of   *)
(* the first n elements of s; K is the set of the places of those to keep. *)
EXTENDS Integers, Sequences

UpTo(s, K) ==
  LET kept[n \in 0 .. Len(s)] ==
        IF n = 0 THEN <<>> ELSE IF n \in K THEN Append(kept[n - 1], s[n]) ELSE kept[n - 1]
  IN  kept

Selected(s, K) == UpTo(s, K)[Len(s)]

=============================================================================
