------------------------------- MODULE Screen --------------------------------
(***************************************************************************)
(* The screen (drivers/vga.c): a linear buffer of VGA_HEIGHT rows of       *)
(* VGA_WIDTH cells and a cursor. Every function that prints ends in        *)
(* vga_printc. The colours of cells are left out.                          *)
(***************************************************************************)
EXTENDS Integers

CONSTANTS
  VGA_WIDTH, VGA_HEIGHT,
  Glyphs  \* characters with no meaning of their own

NUL == "\\0"
BS  == "\\b"
TAB == "\\t"
NL  == "\\n"
Space == " "
Controls == {NUL, BS, TAB, NL}

ASSUME ScreenAssumption ==
  /\ VGA_WIDTH \in Nat \ {0} /\ VGA_HEIGHT \in Nat \ {0}
  /\ Space \in Glyphs /\ Glyphs \cap Controls = {}

VARIABLE vga  \* terminal_buffer, cursor_x, cursor_y

Xs == 0 .. (VGA_WIDTH - 1)
Ys == 0 .. (VGA_HEIGHT - 1)
Index(x, y) == y * VGA_WIDTH + x
Size    == VGA_HEIGHT * VGA_WIDTH
LastRow == (VGA_HEIGHT - 1) * VGA_WIDTH
Cells   == 0 .. (Size - 1)

-----------------------------------------------------------------------------
(* Definitions named ...Slip are the one that follows with a mistake in it;*)
(* the properties are checked to notice it.                                *)

vga_scrollSlip(v) ==
  IF v.cursor_y # VGA_HEIGHT THEN v
  ELSE [terminal_buffer |-> [i \in Cells |->
          IF i < LastRow THEN v.terminal_buffer[i + VGA_WIDTH] ELSE v.terminal_buffer[i]],
        cursor_y |-> VGA_HEIGHT - 1, cursor_x |-> 0]
vga_scroll(v) ==
  IF v.cursor_y # VGA_HEIGHT THEN v
  ELSE [terminal_buffer |-> [i \in Cells |->
          IF i < LastRow THEN v.terminal_buffer[i + VGA_WIDTH] ELSE Space],
        cursor_y |-> VGA_HEIGHT - 1, cursor_x |-> 0]

(* vga_init, and the same again on demand.                                 *)
vga_clear == [terminal_buffer |-> [i \in Cells |-> Space], cursor_x |-> 0, cursor_y |-> 0]

(* A character at a place, whatever the cursor is.                         *)
vga_putc(v, c, x, y) == [v EXCEPT !.terminal_buffer[Index(x, y)] = c]

At(v, x, y) == [terminal_buffer |-> v.terminal_buffer, cursor_x |-> x, cursor_y |-> y]

LineFeed(v) == vga_scroll(At(v, 0, v.cursor_y + 1))

BackspaceSlip(v) ==
  LET index == Index(v.cursor_x, v.cursor_y)
      w     == [v EXCEPT !.terminal_buffer[index - 1] = Space]
  IN  IF v.cursor_x = 0 THEN v
      ELSE vga_scroll(At(w, v.cursor_x - 1, v.cursor_y))
Backspace(v) ==
  LET index == Index(v.cursor_x, v.cursor_y)
      w     == [v EXCEPT !.terminal_buffer[index - 1] = Space]
  IN  IF v.cursor_x = 0 /\ v.cursor_y = 0 THEN v
      ELSE vga_scroll(IF v.cursor_x > 0 THEN At(w, v.cursor_x - 1, v.cursor_y)
                                        ELSE At(w, VGA_WIDTH - 1, v.cursor_y - 1))

Glyph(v, c) ==
  LET w == [v EXCEPT !.terminal_buffer[Index(v.cursor_x, v.cursor_y)] = c]
      x == v.cursor_x + 1
  IN  vga_scroll(IF x = VGA_WIDTH THEN At(w, 0, v.cursor_y + 1)
                                  ELSE At(w, x, v.cursor_y))

(* A tab is four spaces.                                                   *)
Spaces(v) == Glyph(Glyph(Glyph(Glyph(v, Space), Space), Space), Space)

vga_printc(v, c) ==
  CASE c = NUL -> v
    [] c = NL  -> LineFeed(v)
    [] c = TAB -> Spaces(v)
    [] c = BS  -> Backspace(v)
    [] OTHER   -> Glyph(v, c)

(* Where the controller is told to let the cursor blink.                   *)
vga_update_cursor(v) == Index(v.cursor_x, v.cursor_y)

-----------------------------------------------------------------------------
Init == vga = vga_clear

vga_prints == \E c \in Glyphs \cup Controls : vga' = vga_printc(vga, c)
Clear == vga' = vga_clear
Draw  == \E c \in Glyphs, x \in Xs, y \in Ys : vga' = vga_putc(vga, c, x, y)

Next == vga_prints \/ Clear \/ Draw

Spec == Init /\ [][Next]_vga

-----------------------------------------------------------------------------
(* Properties                                                              *)

(* The cursor is on the screen between any two calls, so no call writes    *)
(* beside the buffer.                                                      *)
TypeOK ==
  vga \in [terminal_buffer : [Cells -> Glyphs], cursor_x : Xs, cursor_y : Ys]

(* The linear buffer shows rows of text as a terminal does: wrapping,      *)
(* scrolling and erasing across the left edge included.                    *)
Rows == [y \in Ys |-> [x \in Xs |-> vga.terminal_buffer[Index(x, y)]]]
Terminal == INSTANCE Terminal WITH
  Width <- VGA_WIDTH, Height <- VGA_HEIGHT, Blank <- Space, Characters <- Glyphs,
  term <- [rows |-> Rows, line |-> vga.cursor_y, column |-> vga.cursor_x]
TerminalSpec == Terminal!Spec

=============================================================================
