------------------------------ MODULE MCTasking ------------------------------
(***************************************************************************)
(* A table of four slots, three stacks that malloc can give out and names  *)
(* of which one is a prefix of another.                                    *)
(***************************************************************************)
EXTENDS Tasking

MCNames == {"kernel_main", "a", "ab", "b"}
MCPrefixes == {<<n, n>> : n \in MCNames} \cup {<<"a", "ab">>}

=============================================================================
