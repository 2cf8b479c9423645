------------------------------ MODULE MCFat32 -------------------------------
(***************************************************************************)
(* Volumes of five clusters of two sectors of two bytes, laid out in every *)
(* order: a root directory of one or two clusters, a file "a" of one or    *)
(* two clusters and a file "b" of one. Deleted entries, parts of long      *)
(* names, a directory "d" and what is behind an end mark get in the way.   *)
(***************************************************************************)
EXTENDS Fat32, SequencesExt

MCClusters == 2 .. 6

(* A chain through clusters i to j of an order of them.                    *)
Links(order, i, j) ==
  [c \in {order[k] : k \in i .. j} |->
     LET k == CHOOSE k \in i .. j : order[k] = c IN IF k = j THEN EOC ELSE order[k + 1]]

Entry(k, n, f, s) == [kind |-> k, name |-> n, first |-> f, size |-> s]

Volume(order, size) ==
  LET a == Entry("file", "a", order[3], size)
      b == Entry("file", "b", order[5], 2)
      d == Entry("dir", "d", order[2], 0)
      e == Entry("file", "c", 0, 0)
      old == <<Entry("deleted", "a", order[5], 1), Entry("lfn", "b", 0, 0)>>
      end == Entry("end", "", 0, 0)
      none == [c \in MCClusters |-> <<>>]
  IN  {[root_cluster |-> order[1],
        fat |-> Links(order, 1, 2) @@ Links(order, 3, 4) @@ Links(order, 5, 5),
        dir |-> order[1] :> old \o <<a>> @@ order[2] :> tail @@ none] :
         tail \in {<<d, b, e>>, <<b, end, e>>}}
      \cup {[root_cluster |-> order[1],
        fat |-> Links(order, 1, 1) @@ Links(order, 2, 2) @@ Links(order, 3, 4) @@ Links(order, 5, 5),
        dir |-> order[1] :> <<d, a, end, b>> @@ none]}

MCVolumes == UNION {Volume(order, size) : order \in SetToSeqs(MCClusters), size \in {1, 4, 5, 7, 8}}

=============================================================================
