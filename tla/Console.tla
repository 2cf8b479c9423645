------------------------------ MODULE Console --------------------------------
(***************************************************************************)
(* The keyboard and the screen as kgets (lib/io.c) joins them: it shows    *)
(* each character it takes and erases it when it takes a backspace. Before *)
(* and after, the task prints what it likes. The user types no faster than *)
(* kgets reads: what happens otherwise is in Keyboard.                     *)
(***************************************************************************)
EXTENDS Screen, Sequences

CONSTANTS
  BufferSize, CharKeys, scancode_to_ascii, scancode_to_ascii_shifted,  \* of Keyboard
  Prompt,   \* the last character of what kshell prints before it calls kgets
  Block,    \* what draw_logo draws with, and
  Logo      \* where, <<x, y>>

VARIABLES
  keyboard_input_buffer, keyboard_buffer_index, shift_key_pressed, pc, i, s,
  typed, entered, backed, lagged,
  booting,    \* may the logo be drawn?
  blinking,   \* where the hardware shows the cursor
  tab_erased  \* history: has kgets erased a tab since it was called?

Keyboard == INSTANCE Keyboard

ASSUME ConsoleAssumption ==
  /\ BufferSize \in Nat /\ BufferSize >= 2
  /\ scancode_to_ascii \in [CharKeys -> STRING]
  /\ scancode_to_ascii_shifted \in [CharKeys -> STRING]
  /\ Keyboard!Codes \subseteq Glyphs \cup Controls
  /\ Prompt \in Glyphs /\ Block \in Glyphs
  /\ Logo \subseteq Xs \X Ys

keyboardVars == <<keyboard_input_buffer, keyboard_buffer_index, shift_key_pressed, pc, i, s,
                  typed, entered, backed, lagged>>
allVars == <<keyboardVars, vga, booting, blinking, tab_erased>>

(* vga_init and keyboard_init.                                             *)
ConsoleInit ==
  /\ Keyboard!Init
  /\ vga = vga_clear
  /\ booting = TRUE
  /\ blinking = 0
  /\ tab_erased = FALSE

-----------------------------------------------------------------------------
Shows(v) == vga' = v /\ blinking' = vga_update_cursor(v)

(* draw_logo, a block at a time.                                           *)
DrawLogo ==
  /\ booting
  /\ \/ \E p \in Logo : vga' = vga_putc(vga, Block, p[1], p[2]) /\ booting' = TRUE
     \/ vga' = vga /\ booting' = FALSE
  /\ UNCHANGED <<keyboardVars, blinking, tab_erased>>

(* The task prints a character, or clears the screen.                      *)
Output ==
  /\ pc = "idle" /\ ~booting
  /\ vga_prints \/ Clear
  /\ UNCHANGED <<keyboardVars, booting, blinking, tab_erased>>

(* The prompt, and the call of kgets.                                      *)
Ask ==
  /\ ~booting /\ UNCHANGED booting
  /\ Keyboard!Begin
  /\ Shows(vga_printc(vga, Prompt))
  /\ tab_erased' = FALSE

(* A key other than shift is pressed, when kgets has come to wait for it.  *)
Waiting == pc = "wait" /\ keyboard_input_buffer[i] = NUL
Type ==
  /\ Waiting
  /\ \E key \in CharKeys : Keyboard!PressKey(key)
  /\ UNCHANGED <<vga, booting, blinking, tab_erased>>

Echo ==
  /\ Keyboard!Store
  /\ IF i < Keyboard!Top THEN Shows(vga_printc(vga, s'[i])) ELSE UNCHANGED <<vga, blinking>>
  /\ UNCHANGED <<booting, tab_erased>>

EraseEcho ==
  /\ Keyboard!StepBack
  /\ Shows(vga_printc(vga, BS))
  /\ tab_erased' = (tab_erased \/ s[i'] = TAB)
  /\ UNCHANGED booting

Look ==
  /\ \/ Keyboard!SeeKey \/ Keyboard!CheckEnter \/ Keyboard!CheckBackspace
     \/ Keyboard!Erase \/ Keyboard!Done
  /\ UNCHANGED <<vga, booting, blinking, tab_erased>>

ConsoleNext == DrawLogo \/ Output \/ Ask \/ Type \/ Echo \/ EraseEcho \/ Look

ConsoleSpec == ConsoleInit /\ [][ConsoleNext]_allVars

-----------------------------------------------------------------------------
(* Properties                                                              *)

(* The prompt and the cells that a line takes up, tabs spread out.         *)
Spread(cells, c) ==
  IF c = TAB THEN Append(Append(Append(Append(cells, Space), Space), Space), Space)
  ELSE Append(cells, c)
PromptAnd(line) ==
  LET cells[n \in 0 .. Len(line)] ==
        IF n = 0 THEN <<Prompt>> ELSE Spread(cells[n - 1], line[n])
  IN  cells[Len(line)]

(* Cells stand right before the cursor, as far as they have not scrolled   *)
(* away.                                                                   *)
Stand(cells, v) ==
  \A k \in 1 .. Len(cells) :
    LET c == Index(v.cursor_x, v.cursor_y) - Len(cells) + k - 1
    IN  c >= 0 => v.terminal_buffer[c] = cells[k]

(* Whenever kgets waits for a key, and when it returns, the prompt and the *)
(* line as it has been edited stand right before the cursor, and the       *)
(* cursor blinks there: across the edge of the screen, at its bottom and   *)
(* when backspace goes back over either. A tab that is erased is an        *)
(* exception: io.c:105 takes one of its four spaces away.                  *)
EchoIsLine ==
  (Waiting \/ pc = "done") /\ ~tab_erased =>
    blinking = vga_update_cursor(vga) /\ Stand(PromptAnd(typed), vga)

(* The inductive invariant, with that of the keyboard: what stands on the  *)
(* screen is the string as far as kgets has it.                            *)
Got == [k \in 1 .. i |-> s[k - 1]]

ConsoleInv ==
  /\ TypeOK /\ ~lagged
  /\ pc # "idle" =>
       /\ ~booting /\ blinking = vga_update_cursor(vga)
       /\ Got \in Seq(Keyboard!Letters)
       /\ ~tab_erased => Stand(PromptAnd(Got), vga)

=============================================================================
