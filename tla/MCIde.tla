-------------------------------- MODULE MCIde --------------------------------
(***************************************************************************)
(* Drives of every kind with two sectors, calls for one or both of them.   *)
(***************************************************************************)
EXTENDS Ide

MCLbas == 0 .. 1

=============================================================================
