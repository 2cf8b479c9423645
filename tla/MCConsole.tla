------------------------------ MODULE MCConsole ------------------------------
(***************************************************************************)
(* A screen of two rows of three cells, so that a line of four characters  *)
(* with its prompt goes round the edge and over the bottom of the screen.  *)
(***************************************************************************)
EXTENDS Console

MCKeys == {"a", "tab", "enter", "back"}
MCAscii == [k \in MCKeys |->
  CASE k = "a" -> "a" [] k = "tab" -> TAB [] k = "enter" -> NL [] OTHER -> BS]
MCLogo == {<<1, 0>>}

=============================================================================
