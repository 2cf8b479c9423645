---------------------------- MODULE MCKernelShell ----------------------------
(***************************************************************************)
(* A table of three slots and two stacks, so that a second shell finds     *)
(* room.                                                                   *)
(***************************************************************************)
EXTENDS KernelShell

MCNames == {"kernel_main", "kshell"}
MCPrefixes == {<<n, n>> : n \in MCNames}

=============================================================================
