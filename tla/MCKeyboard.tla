----------------------------- MODULE MCKeyboard ------------------------------
(***************************************************************************)
(* A buffer of four characters and a keyboard of one letter, with and      *)
(* without shift, Enter and backspace.                                     *)
(***************************************************************************)
EXTENDS Keyboard

MCKeys == {"a", "enter", "back"}
MCAscii == [k \in MCKeys |->
  CASE k = "a" -> "a" [] k = "enter" -> NL [] k = "back" -> BS [] OTHER -> NUL]
MCAsciiShifted == [MCAscii EXCEPT !["a"] = "A"]

=============================================================================
