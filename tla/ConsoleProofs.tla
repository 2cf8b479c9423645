---------------------------- MODULE ConsoleProofs ----------------------------
(***************************************************************************)
(* For every size of the screen: the cursor stays on it, the linear buffer *)
(* shows what a terminal shows, and kgets keeps the line that is edited    *)
(* before the cursor. Products of variables are out of the solver's reach  *)
(* but for the few facts about Index below, which all else cites.          *)
(***************************************************************************)
EXTENDS Console, NatLemmas

USE ScreenAssumption

-----------------------------------------------------------------------------
(* Cells and their coordinates                                             *)

(* A row begins where the one above it ends.                               *)
LEMMA RowsAreOrdered ==
  ASSUME NEW y \in Nat, NEW z \in Nat, y < z
  PROVE  /\ y * VGA_WIDTH \in Nat /\ z * VGA_WIDTH \in Nat
         /\ (y + 1) * VGA_WIDTH = y * VGA_WIDTH + VGA_WIDTH
         /\ y * VGA_WIDTH + VGA_WIDTH <= z * VGA_WIDTH
<1>1. y * VGA_WIDTH \in Nat /\ z * VGA_WIDTH \in Nat
  OBVIOUS
<1>2. (y + 1) * VGA_WIDTH = y * VGA_WIDTH + VGA_WIDTH
  OBVIOUS
<1>3. (y + 1) * VGA_WIDTH <= z * VGA_WIDTH
  <2>1. PICK d \in Nat : z = y + 1 + d
    <3>1. z - y - 1 \in Nat /\ z = y + 1 + (z - y - 1)
      OBVIOUS
    <3> QED BY <3>1
  <2>2. z * VGA_WIDTH = (y + 1) * VGA_WIDTH + d * VGA_WIDTH
    BY <2>1
  <2>3. d * VGA_WIDTH \in Nat
    OBVIOUS
  <2> QED BY <2>2, <2>3, <1>1, <1>2
<1> QED BY <1>1, <1>2, <1>3

(* Index is a cell of the buffer, of the last row only for the last line.  *)
LEMMA IndexInBuffer ==
  ASSUME NEW x \in Xs, NEW y \in Ys
  PROVE  /\ Index(x, y) \in Cells
         /\ y < VGA_HEIGHT - 1 => /\ Index(x, y) < LastRow
                                  /\ Index(x, y) + VGA_WIDTH = Index(x, y + 1)
         /\ y = VGA_HEIGHT - 1 => ~(Index(x, y) < LastRow)
<1>1. y \in Nat /\ y < VGA_HEIGHT /\ x \in Nat /\ x < VGA_WIDTH
  BY DEF Xs, Ys
<1>2. /\ y * VGA_WIDTH \in Nat
      /\ VGA_HEIGHT * VGA_WIDTH \in Nat
      /\ (y + 1) * VGA_WIDTH = y * VGA_WIDTH + VGA_WIDTH
      /\ y * VGA_WIDTH + VGA_WIDTH <= VGA_HEIGHT * VGA_WIDTH
  BY <1>1, RowsAreOrdered
<1>3. Index(x, y) \in Cells
  BY <1>1, <1>2 DEF Index, Cells, Size
<1>4. ASSUME y < VGA_HEIGHT - 1
      PROVE  Index(x, y) < LastRow /\ Index(x, y) + VGA_WIDTH = Index(x, y + 1)
  <2>1. y * VGA_WIDTH + VGA_WIDTH <= (VGA_HEIGHT - 1) * VGA_WIDTH
    BY <1>1, <1>4, RowsAreOrdered
  <2>2. (VGA_HEIGHT - 1) * VGA_WIDTH \in Nat
    BY <1>1
  <2> QED BY <1>1, <1>2, <2>1, <2>2 DEF Index, LastRow
<1>5. ASSUME y = VGA_HEIGHT - 1
      PROVE  ~(Index(x, y) < LastRow)
  BY <1>1, <1>2, <1>5 DEF Index, LastRow
<1> QED BY <1>3, <1>4, <1>5

(* No two places share a cell.                                             *)
LEMMA IndexInjective ==
  ASSUME NEW x \in Xs, NEW y \in Ys, NEW u \in Xs, NEW v \in Ys, Index(x, y) = Index(u, v)
  PROVE  x = u /\ y = v
<1>1. /\ x \in Nat /\ x < VGA_WIDTH /\ u \in Nat /\ u < VGA_WIDTH
      /\ y \in Nat /\ v \in Nat
  BY DEF Xs, Ys
<1>2. ~(y < v)
  <2> SUFFICES ASSUME y < v PROVE FALSE
    OBVIOUS
  <2>1. y * VGA_WIDTH \in Nat /\ v * VGA_WIDTH \in Nat /\ y * VGA_WIDTH + VGA_WIDTH <= v * VGA_WIDTH
    BY <1>1, RowsAreOrdered
  <2> QED BY <1>1, <2>1 DEF Index
<1>3. ~(v < y)
  <2> SUFFICES ASSUME v < y PROVE FALSE
    OBVIOUS
  <2>1. y * VGA_WIDTH \in Nat /\ v * VGA_WIDTH \in Nat /\ v * VGA_WIDTH + VGA_WIDTH <= y * VGA_WIDTH
    BY <1>1, RowsAreOrdered
  <2> QED BY <1>1, <2>1 DEF Index
<1>4. y = v
  BY <1>1, <1>2, <1>3
<1>5. y * VGA_WIDTH \in Nat
  BY <1>1
<1> QED BY <1>1, <1>4, <1>5 DEF Index

(* The cell before a place, across the left edge too.                      *)
LEMMA IndexBefore ==
  ASSUME NEW x \in Xs, NEW y \in Ys
  PROVE  /\ x > 0 => Index(x, y) - 1 = Index(x - 1, y)
         /\ x = 0 /\ y > 0 => Index(x, y) - 1 = Index(VGA_WIDTH - 1, y - 1)
<1>1. x \in Nat /\ y \in Nat /\ y * VGA_WIDTH \in Nat
  BY DEF Xs, Ys
<1>2. ASSUME y > 0
      PROVE  y * VGA_WIDTH = (y - 1) * VGA_WIDTH + VGA_WIDTH /\ (y - 1) * VGA_WIDTH \in Nat
  <2>1. y - 1 \in Nat /\ y - 1 < y /\ (y - 1) + 1 = y
    BY <1>1, <1>2
  <2> QED BY <1>1, <2>1, RowsAreOrdered
<1> QED BY <1>1, <1>2 DEF Index

-----------------------------------------------------------------------------
(* Buffers and rows                                                        *)

Buffers == [Cells -> Glyphs]
RowsOf(b) == [y \in Ys |-> [x \in Xs |-> b[Index(x, y)]]]

(* The terminal that a screen shows.                                       *)
Shown(v) == [rows |-> RowsOf(v.terminal_buffer), line |-> v.cursor_y, column |-> v.cursor_x]

Screens == [terminal_buffer : Buffers, cursor_x : Xs, cursor_y : Ys]

(* Writing a cell writes one character of one row.                         *)
LEMMA WriteCell ==
  ASSUME NEW b \in Buffers, NEW x \in Xs, NEW y \in Ys, NEW c \in Glyphs
  PROVE  /\ [b EXCEPT ![Index(x, y)] = c] \in Buffers
         /\ RowsOf([b EXCEPT ![Index(x, y)] = c]) = Terminal!Written(RowsOf(b), y, x, c)
<1> DEFINE w == [b EXCEPT ![Index(x, y)] = c]
           t == Terminal!Written(RowsOf(b), y, x, c)
<1>1. w \in Buffers
  BY DEF Buffers
<1>2. ASSUME NEW u \in Xs, NEW z \in Ys
      PROVE  RowsOf(w)[z][u] = t[z][u]
  <2>1. Index(u, z) \in Cells
    BY IndexInBuffer
  <2>2. w[Index(u, z)] = IF u = x /\ z = y THEN c ELSE b[Index(u, z)]
    BY <2>1, IndexInjective DEF Buffers
  <2>3. RowsOf(w)[z][u] = w[Index(u, z)]
    BY DEF RowsOf
  <2>4. t[z][u] = IF u = x /\ z = y THEN c ELSE b[Index(u, z)]
    BY DEF RowsOf, Terminal!Written
  <2> QED BY <2>2, <2>3, <2>4
<1>3. RowsOf(w) = [z \in Ys |-> [u \in Xs |-> RowsOf(w)[z][u]]]
  BY DEF RowsOf
<1>4. t = [z \in Ys |-> [u \in Xs |-> t[z][u]]]
  BY DEF RowsOf, Terminal!Written
<1> HIDE DEF w, t
<1>5. [z \in Ys |-> [u \in Xs |-> RowsOf(w)[z][u]]] = [z \in Ys |-> [u \in Xs |-> t[z][u]]]
  BY <1>2
<1>6. RowsOf(w) = t
  BY <1>3, <1>4, <1>5
<1> QED BY <1>1, <1>6 DEF w, t

(* A screen that may have its cursor one line below the last is made one   *)
(* that has not, the way a terminal scrolls.                               *)
LEMMA Scroll ==
  ASSUME NEW b \in Buffers, NEW x \in Xs, NEW y \in 0 .. VGA_HEIGHT, y = VGA_HEIGHT => x = 0
  PROVE  LET v == [terminal_buffer |-> b, cursor_x |-> x, cursor_y |-> y]
         IN  /\ vga_scroll(v) \in Screens
             /\ Shown(vga_scroll(v)) = Terminal!Scrolled(RowsOf(b), y, x)
<1> DEFINE v == [terminal_buffer |-> b, cursor_x |-> x, cursor_y |-> y]
<1>1. CASE y < VGA_HEIGHT
  <2>1. vga_scroll(v) = v
    BY <1>1 DEF vga_scroll
  <2>2. v \in Screens
    BY <1>1 DEF Screens, Ys
  <2> QED BY <1>1, <2>1, <2>2 DEF Shown, Terminal!Scrolled
<1>2. CASE y = VGA_HEIGHT
  <2> DEFINE moved == [n \in Cells |-> IF n < LastRow THEN b[n + VGA_WIDTH] ELSE Space]
             rows  == [z \in Ys |-> IF z < VGA_HEIGHT - 1 THEN RowsOf(b)[z + 1]
                                    ELSE [u \in Xs |-> Space]]
  <2>1. vga_scroll(v) = [terminal_buffer |-> moved, cursor_y |-> VGA_HEIGHT - 1, cursor_x |-> 0]
    BY <1>2 DEF vga_scroll
  <2>2. LastRow \in Nat /\ Size = LastRow + VGA_WIDTH
    <3>1. VGA_HEIGHT - 1 \in Nat /\ (VGA_HEIGHT - 1) + 1 = VGA_HEIGHT /\ VGA_HEIGHT - 1 < VGA_HEIGHT
      OBVIOUS
    <3> QED BY <3>1, RowsAreOrdered DEF LastRow, Size
  <2>3. moved \in Buffers
    <3>1. ASSUME NEW n \in Cells, n < LastRow PROVE n + VGA_WIDTH \in Cells
      BY <3>1, <2>2 DEF Cells
    <3> QED BY <3>1 DEF Buffers
  <2>4. vga_scroll(v) \in Screens
    BY <2>1, <2>3 DEF Screens, Xs, Ys
  <2>5. ASSUME NEW u \in Xs, NEW z \in Ys
        PROVE  moved[Index(u, z)] = rows[z][u]
    <3>1. Index(u, z) \in Cells
      BY IndexInBuffer
    <3>2. CASE z < VGA_HEIGHT - 1
      <4>1. z + 1 \in Ys
        BY <3>2 DEF Ys
      <4>2. rows[z][u] = b[Index(u, z + 1)]
        BY <3>2, <4>1 DEF RowsOf
      <4> QED BY <3>1, <3>2, <4>2, IndexInBuffer
    <3>3. CASE ~(z < VGA_HEIGHT - 1)
      <4>1. z = VGA_HEIGHT - 1
        BY <3>3 DEF Ys
      <4> QED BY <3>1, <4>1, IndexInBuffer
    <3> QED BY <3>2, <3>3
  <2>6. RowsOf(moved) = [z \in Ys |-> [u \in Xs |-> moved[Index(u, z)]]]
    BY DEF RowsOf
  <2>7. rows = [z \in Ys |-> [u \in Xs |-> rows[z][u]]]
    <3>1. ASSUME NEW z \in Ys PROVE rows[z] = [u \in Xs |-> rows[z][u]]
      <4>1. CASE z < VGA_HEIGHT - 1
        <5>1. z + 1 \in Ys
          BY <4>1 DEF Ys
        <5> QED BY <4>1, <5>1 DEF RowsOf
      <4>2. CASE ~(z < VGA_HEIGHT - 1)
        BY <4>2
      <4> QED BY <4>1, <4>2
    <3> HIDE DEF rows
    <3>2. DOMAIN rows = Ys /\ rows = [z \in Ys |-> rows[z]]
      BY DEF rows
    <3> QED BY <3>1, <3>2
  <2>8. Terminal!Scrolled(RowsOf(b), y, x) =
          [rows |-> rows, line |-> VGA_HEIGHT - 1, column |-> 0]
    BY <1>2 DEF Terminal!Scrolled, Terminal!Lines, Terminal!BlankRow, Terminal!Columns, Ys, Xs
  <2> HIDE DEF moved, rows, v
  <2>9. RowsOf(moved) = rows
    BY <2>5, <2>6, <2>7
  <2> QED BY <2>1, <2>4, <2>8, <2>9 DEF Shown, v
<1> QED BY <1>1, <1>2

-----------------------------------------------------------------------------
(* The operations                                                          *)

LEMMA LineFeedScrolls ==
  ASSUME NEW v \in Screens
  PROVE  LineFeed(v) \in Screens /\ Shown(LineFeed(v)) = Terminal!NewLine(Shown(v))
<1> DEFINE next == [terminal_buffer |-> v.terminal_buffer, cursor_x |-> 0,
                    cursor_y |-> v.cursor_y + 1]
<1>1. LineFeed(v) = vga_scroll(next)
  BY DEF LineFeed, At
<1>2. v.terminal_buffer \in Buffers /\ 0 \in Xs /\ v.cursor_y + 1 \in 0 .. VGA_HEIGHT
  BY DEF Screens, Xs, Ys
<1>3. /\ vga_scroll(next) \in Screens
      /\ Shown(vga_scroll(next)) = Terminal!Scrolled(RowsOf(v.terminal_buffer), v.cursor_y + 1, 0)
  BY <1>2, Scroll
<1> QED BY <1>1, <1>3 DEF Shown, Terminal!NewLine

LEMMA GlyphPuts ==
  ASSUME NEW v \in Screens, NEW c \in Glyphs
  PROVE  Glyph(v, c) \in Screens /\ Shown(Glyph(v, c)) = Terminal!Put(Shown(v), c)
<1> DEFINE b == v.terminal_buffer
           x == v.cursor_x
           y == v.cursor_y
           w == [b EXCEPT ![Index(x, y)] = c]
<1>1. b \in Buffers /\ x \in Xs /\ y \in Ys
  BY DEF Screens
<1>2. w \in Buffers /\ RowsOf(w) = Terminal!Written(RowsOf(b), y, x, c)
  BY <1>1, WriteCell
<1>3. x \in Nat /\ y \in Nat /\ x < VGA_WIDTH /\ y < VGA_HEIGHT /\ VGA_WIDTH \in Nat /\ VGA_HEIGHT \in Nat
  BY <1>1 DEF Xs, Ys
<1>4. CASE x < VGA_WIDTH - 1
  <2> DEFINE next == [terminal_buffer |-> w, cursor_x |-> x + 1, cursor_y |-> y]
  <2>1. Glyph(v, c) = vga_scroll(next)
    BY <1>1, <1>3, <1>4 DEF Glyph, At
  <2>2. x + 1 \in Xs /\ y \in 0 .. VGA_HEIGHT /\ y # VGA_HEIGHT
    BY <1>3, <1>4 DEF Xs
  <2>3. /\ vga_scroll(next) \in Screens
        /\ Shown(vga_scroll(next)) = Terminal!Scrolled(RowsOf(w), y, x + 1)
    BY <1>2, <2>2, Scroll
  <2> QED BY <1>2, <1>4, <2>1, <2>3 DEF Shown, Terminal!Put
<1>5. CASE ~(x < VGA_WIDTH - 1)
  <2> DEFINE next == [terminal_buffer |-> w, cursor_x |-> 0, cursor_y |-> y + 1]
  <2>1. x + 1 = VGA_WIDTH
    BY <1>3, <1>5
  <2>2. Glyph(v, c) = vga_scroll(next)
    BY <1>1, <1>3, <2>1 DEF Glyph, At
  <2>3. 0 \in Xs /\ y + 1 \in 0 .. VGA_HEIGHT
    BY <1>3 DEF Xs
  <2>4. /\ vga_scroll(next) \in Screens
        /\ Shown(vga_scroll(next)) = Terminal!Scrolled(RowsOf(w), y + 1, 0)
    BY <1>2, <2>3, Scroll
  <2> QED BY <1>2, <1>5, <2>2, <2>4 DEF Shown, Terminal!Put
<1> QED BY <1>4, <1>5

(* Across the left edge the linear index steps to the end of the row above.*)
LEMMA BackspaceErases ==
  ASSUME NEW v \in Screens
  PROVE  Backspace(v) \in Screens /\ Shown(Backspace(v)) = Terminal!Erase(Shown(v))
<1> DEFINE b == v.terminal_buffer
           x == v.cursor_x
           y == v.cursor_y
<1>1. b \in Buffers /\ x \in Xs /\ y \in Ys /\ Space \in Glyphs
  BY DEF Screens
<1>2. x \in Nat /\ y \in Nat /\ x < VGA_WIDTH /\ y < VGA_HEIGHT
  BY <1>1 DEF Xs, Ys
<1>3. CASE x = 0 /\ y = 0
  BY <1>3 DEF Backspace, Shown, Terminal!Erase
<1>4. ASSUME NEW u \in Xs, NEW z \in Ys, ~(x = 0 /\ y = 0),
             u = IF x > 0 THEN x - 1 ELSE VGA_WIDTH - 1,
             z = IF x > 0 THEN y ELSE y - 1,
             Index(x, y) - 1 = Index(u, z)
      PROVE  Backspace(v) \in Screens /\ Shown(Backspace(v)) = Terminal!Erase(Shown(v))
  <2> DEFINE w == [b EXCEPT ![Index(u, z)] = Space]
             next == [terminal_buffer |-> w, cursor_x |-> u, cursor_y |-> z]
  <2>1. w \in Buffers /\ RowsOf(w) = Terminal!Written(RowsOf(b), z, u, Space)
    BY <1>1, WriteCell
  <2>2. Backspace(v) = vga_scroll(next)
    BY <1>1, <1>2, <1>4 DEF Backspace, At
  <2>3. vga_scroll(next) = next
    BY <1>4 DEF vga_scroll, Ys
  <2>4. Terminal!Erase(Shown(v)) =
          [rows |-> Terminal!Written(RowsOf(b), z, u, Space), line |-> z, column |-> u]
    BY <1>2, <1>4 DEF Terminal!Erase, Shown
  <2> QED BY <2>1, <2>2, <2>3, <2>4 DEF Shown, Screens
<1>5. CASE x > 0
  <2>1. x - 1 \in Xs
    BY <1>2, <1>5 DEF Xs
  <2>2. Index(x, y) - 1 = Index(x - 1, y)
    BY <1>1, <1>5, IndexBefore
  <2> QED BY <1>1, <1>4, <1>5, <2>1, <2>2
<1>6. CASE x = 0 /\ y > 0
  <2>1. VGA_WIDTH - 1 \in Xs /\ y - 1 \in Ys
    BY <1>2, <1>6 DEF Xs, Ys
  <2>2. Index(x, y) - 1 = Index(VGA_WIDTH - 1, y - 1)
    BY <1>1, <1>6, IndexBefore
  <2>3. ~(x > 0) /\ ~(x = 0 /\ y = 0)
    BY <1>6
  <2> QED BY <1>4, <2>1, <2>2, <2>3
<1> QED BY <1>2, <1>3, <1>5, <1>6

LEMMA SpacesTab ==
  ASSUME NEW v \in Screens
  PROVE  Spaces(v) \in Screens /\ Shown(Spaces(v)) = Terminal!Tab(Shown(v))
<1> DEFINE one   == Glyph(v, Space)
           two   == Glyph(one, Space)
           three == Glyph(two, Space)
           four  == Glyph(three, Space)
<1>0. Space \in Glyphs
  OBVIOUS
<1>1. one \in Screens /\ Shown(one) = Terminal!Put(Shown(v), Space)
  BY <1>0, GlyphPuts
<1> HIDE DEF one
<1>2. two \in Screens /\ Shown(two) = Terminal!Put(Shown(one), Space)
  BY <1>0, <1>1, GlyphPuts
<1> HIDE DEF two
<1>3. three \in Screens /\ Shown(three) = Terminal!Put(Shown(two), Space)
  BY <1>0, <1>2, GlyphPuts
<1> HIDE DEF three
<1>4. four \in Screens /\ Shown(four) = Terminal!Put(Shown(three), Space)
  BY <1>0, <1>3, GlyphPuts
<1>5. Spaces(v) = four
  BY DEF Spaces, one, two, three
<1> QED BY <1>1, <1>2, <1>3, <1>4, <1>5 DEF Terminal!Tab

LEMMA PrintShows ==
  ASSUME NEW v \in Screens, NEW c \in Glyphs \cup Controls
  PROVE  /\ vga_printc(v, c) \in Screens
         /\ \/ Shown(vga_printc(v, c)) = Shown(v)
            \/ c \in Glyphs /\ Shown(vga_printc(v, c)) = Terminal!Put(Shown(v), c)
            \/ Shown(vga_printc(v, c)) = Terminal!NewLine(Shown(v))
            \/ Shown(vga_printc(v, c)) = Terminal!Tab(Shown(v))
            \/ Shown(vga_printc(v, c)) = Terminal!Erase(Shown(v))
<1>1. CASE c = NUL
  BY <1>1 DEF vga_printc, NUL, NL, TAB, BS
<1>2. CASE c = NL
  <2>1. vga_printc(v, c) = LineFeed(v)
    BY <1>2 DEF vga_printc, NUL, NL, TAB, BS
  <2> QED BY <2>1, LineFeedScrolls
<1>3. CASE c = TAB
  <2>1. vga_printc(v, c) = Spaces(v)
    BY <1>3 DEF vga_printc, NUL, NL, TAB, BS
  <2> QED BY <2>1, SpacesTab
<1>4. CASE c = BS
  <2>1. vga_printc(v, c) = Backspace(v)
    BY <1>4 DEF vga_printc, NUL, NL, TAB, BS
  <2> QED BY <2>1, BackspaceErases
<1>5. CASE c \notin Controls
  <2>1. c \in Glyphs /\ vga_printc(v, c) = Glyph(v, c)
    BY <1>5 DEF vga_printc, Controls
  <2> QED BY <2>1, GlyphPuts
<1> QED BY <1>1, <1>2, <1>3, <1>4, <1>5 DEF Controls

LEMMA ClearShows ==
  vga_clear \in Screens /\ Shown(vga_clear) = Terminal!Cleared
<1>1. [n \in Cells |-> Space] \in Buffers
  BY DEF Buffers
<1>2. vga_clear \in Screens
  BY <1>1 DEF vga_clear, Screens, Xs, Ys
<1>3. RowsOf([n \in Cells |-> Space]) = [y \in Ys |-> [x \in Xs |-> Space]]
  BY IndexInBuffer DEF RowsOf
<1> QED BY <1>2, <1>3 DEF Shown, vga_clear, Terminal!Cleared, Terminal!BlankRow,
                          Terminal!Lines, Terminal!Columns, Xs, Ys

LEMMA DrawShows ==
  ASSUME NEW v \in Screens, NEW c \in Glyphs, NEW x \in Xs, NEW y \in Ys
  PROVE  /\ vga_putc(v, c, x, y) \in Screens
         /\ Shown(vga_putc(v, c, x, y)) = Terminal!Draw(Shown(v), c, x, y)
<1>1. v.terminal_buffer \in Buffers
  BY DEF Screens
<1>2. vga_putc(v, c, x, y) =
        [terminal_buffer |-> [v.terminal_buffer EXCEPT ![Index(x, y)] = c],
         cursor_x |-> v.cursor_x, cursor_y |-> v.cursor_y]
  BY DEF vga_putc, Screens
<1> QED BY <1>1, <1>2, WriteCell DEF Shown, Screens, Terminal!Draw

-----------------------------------------------------------------------------
(* The theorems                                                            *)

LEMMA TypeIsScreens == TypeOK <=> vga \in Screens
BY DEF TypeOK, Screens, Buffers

LEMMA TermIsShown ==
  [rows |-> Rows, line |-> vga.cursor_y, column |-> vga.cursor_x] = Shown(vga)
BY DEF Rows, Shown, RowsOf

LEMMA TermIsShownNext ==
  [rows |-> Rows, line |-> vga.cursor_y, column |-> vga.cursor_x]' = Shown(vga')
BY DEF Rows, Shown, RowsOf

LEMMA StepKeepsScreens == vga \in Screens /\ [Next]_vga => (vga \in Screens)'
<1> SUFFICES ASSUME vga \in Screens, [Next]_vga PROVE vga' \in Screens
  OBVIOUS
<1>1. CASE vga_prints
  BY <1>1, PrintShows DEF vga_prints
<1>2. CASE Clear
  BY <1>2, ClearShows DEF Clear
<1>3. CASE Draw
  BY <1>3, DrawShows DEF Draw
<1>4. CASE UNCHANGED vga
  BY <1>4
<1> QED BY <1>1, <1>2, <1>3, <1>4 DEF Next

(* For every size of the screen the cursor stays on it, so vga_printc      *)
(* (vga.c) writes inside the buffer.                                       *)
THEOREM ScreenTypeOK == Spec => []TypeOK
<1>1. Init => vga \in Screens
  BY ClearShows DEF Init
<1> QED BY <1>1, StepKeepsScreens, TypeIsScreens, PTL DEF Spec

(* For every size of the screen vga.c shows on its linear buffer what a    *)
(* terminal shows.                                                         *)
THEOREM ScreenShowsTerminal == Spec => TerminalSpec
<1>1. Init => Terminal!Init
  BY ClearShows, TermIsShown, TermIsShownNext DEF Init, Terminal!Init
<1>2. vga \in Screens /\ [Next]_vga =>
        [Terminal!Next]_[rows |-> Rows, line |-> vga.cursor_y, column |-> vga.cursor_x]
  <2> SUFFICES ASSUME vga \in Screens, [Next]_vga
               PROVE  \/ Shown(vga') = Shown(vga)
                      \/ Terminal!Next
    BY TermIsShown, TermIsShownNext
  <2>1. CASE vga_prints
    BY <2>1, PrintShows, TermIsShown, TermIsShownNext DEF vga_prints, Terminal!Next
  <2>2. CASE Clear
    BY <2>2, ClearShows, TermIsShown, TermIsShownNext DEF Clear, Terminal!Next
  <2>3. CASE Draw
    BY <2>3, DrawShows, TermIsShown, TermIsShownNext DEF Draw, Terminal!Next, Terminal!Lines, Terminal!Columns, Xs, Ys
  <2>4. CASE UNCHANGED vga
    BY <2>4
  <2> QED BY <2>1, <2>2, <2>3, <2>4 DEF Next
<1>3. Init => vga \in Screens
  BY ClearShows DEF Init
<1> QED BY <1>1, <1>2, <1>3, StepKeepsScreens, PTL DEF Spec, TerminalSpec, Terminal!Spec

-----------------------------------------------------------------------------
(* Cells before the cursor                                                 *)

HIDE ScreenAssumption

LEMMA SizeIsNat == Size \in Nat
<1>1. VGA_WIDTH \in Nat /\ VGA_HEIGHT \in Nat
  BY ScreenAssumption
<1> QED BY <1>1 DEF Size

(* Whether the cells of g before end are those of buffer b, d further on;  *)
(* and whether they are but for a glyph c that goes where the cursor was.  *)
Scrolled(d, g, b, start, end) ==
  /\ end = start - d
  /\ \A n \in 0 .. (end - 1) : g.terminal_buffer[n] = b[n + d]

Printed(d, g, b, c, start, end) ==
  /\ end = start + 1 - d
  /\ \A n \in 0 .. (end - 1) : g.terminal_buffer[n] = IF n + d = start THEN c ELSE b[n + d]

(* Scrolling moves the cells before the cursor as far as the cursor.       *)
LEMMA ScrollMoves ==
  ASSUME NEW b \in Buffers, NEW x \in Xs, NEW y \in 0 .. VGA_HEIGHT, y = VGA_HEIGHT => x = 0,
         NEW g, g = vga_scroll([terminal_buffer |-> b, cursor_x |-> x, cursor_y |-> y]),
         NEW end, end = Index(g.cursor_x, g.cursor_y)
  PROVE  \E d \in {0, VGA_WIDTH} : Scrolled(d, g, b, Index(x, y), end)
<1> DEFINE v == [terminal_buffer |-> b, cursor_x |-> x, cursor_y |-> y]
<1>1. VGA_WIDTH \in Nat \ {0} /\ VGA_HEIGHT \in Nat \ {0}
  BY ScreenAssumption
<1>2. CASE y # VGA_HEIGHT
  <2>1. g = v
    BY <1>2 DEF vga_scroll
  <2>2. x \in Int /\ y \in Int
    BY <1>1 DEF Xs
  <2>3. Index(x, y) \in Int
    BY <1>1, <2>2 DEF Index
  <2>4. g.terminal_buffer = b /\ end = Index(x, y)
    BY <2>1
  <2>5. end = Index(x, y) - 0
    BY <2>3, <2>4
  <2>6. \A n \in 0 .. (end - 1) : g.terminal_buffer[n] = b[n + 0]
    <3> SUFFICES ASSUME NEW n \in 0 .. (end - 1) PROVE g.terminal_buffer[n] = b[n + 0]
      OBVIOUS
    <3>1. n + 0 = n
      OBVIOUS
    <3> QED BY <2>4, <3>1
  <2> QED BY <2>5, <2>6 DEF Scrolled
<1>3. CASE y = VGA_HEIGHT
  <2>1. g = [terminal_buffer |-> [n \in Cells |-> IF n < LastRow THEN b[n + VGA_WIDTH] ELSE Space],
             cursor_y |-> VGA_HEIGHT - 1, cursor_x |-> 0]
    BY <1>3 DEF vga_scroll
  <2>2. VGA_HEIGHT - 1 \in Nat /\ (VGA_HEIGHT - 1) + 1 = VGA_HEIGHT /\ VGA_HEIGHT - 1 < VGA_HEIGHT
    BY <1>1
  <2>3. /\ (VGA_HEIGHT - 1) * VGA_WIDTH \in Nat
        /\ VGA_HEIGHT * VGA_WIDTH = (VGA_HEIGHT - 1) * VGA_WIDTH + VGA_WIDTH
    BY <1>1, <2>2, RowsAreOrdered, ScreenAssumption
  <2>4. LastRow \in Nat /\ Size = LastRow + VGA_WIDTH
    BY <2>3 DEF LastRow, Size
  <2>5. end = LastRow
    <3>1. end = (VGA_HEIGHT - 1) * VGA_WIDTH + 0
      BY <2>1 DEF Index
    <3> QED BY <2>3, <3>1 DEF LastRow
  <2>6. Index(x, y) = Size
    <3>1. Index(x, y) = Size + 0
      BY <1>3 DEF Index, Size
    <3> QED BY <1>1, <2>4, <3>1
  <2>7. end = Index(x, y) - VGA_WIDTH
    BY <1>1, <2>4, <2>5, <2>6
  <2>8. \A n \in 0 .. (end - 1) : g.terminal_buffer[n] = b[n + VGA_WIDTH]
    <3> SUFFICES ASSUME NEW n \in 0 .. (end - 1) PROVE g.terminal_buffer[n] = b[n + VGA_WIDTH]
      OBVIOUS
    <3>1. n \in Cells /\ n < LastRow
      BY <1>1, <2>4, <2>5 DEF Cells
    <3> QED BY <2>1, <3>1
  <2> QED BY <2>7, <2>8 DEF Scrolled
<1> QED BY <1>2, <1>3

(* A glyph goes where the cursor was, which goes on by one; the cells      *)
(* before it are the same but for scrolling.                               *)
LEMMA GlyphMoves ==
  ASSUME NEW v \in Screens, NEW c \in Glyphs, NEW g, g = Glyph(v, c),
         NEW end, end = Index(v.cursor_x, v.cursor_y),
         NEW end2, end2 = Index(g.cursor_x, g.cursor_y)
  PROVE  /\ end \in Nat /\ end2 \in Int
         /\ \E d \in {0, VGA_WIDTH} : Printed(d, g, v.terminal_buffer, c, end, end2)
<1> DEFINE b == v.terminal_buffer
           x == v.cursor_x
           y == v.cursor_y
           w == [b EXCEPT ![Index(x, y)] = c]
<1>1. b \in Buffers /\ x \in Xs /\ y \in Ys
  BY DEF Screens
<1>2. /\ x \in Nat /\ y \in Nat /\ x < VGA_WIDTH /\ y < VGA_HEIGHT
      /\ VGA_WIDTH \in Nat \ {0} /\ VGA_HEIGHT \in Nat \ {0}
  BY <1>1, ScreenAssumption DEF Xs, Ys
<1>3. y * VGA_WIDTH \in Nat /\ (y + 1) * VGA_WIDTH = y * VGA_WIDTH + VGA_WIDTH
  BY <1>2
<1>4. end = y * VGA_WIDTH + x /\ end \in Nat /\ end \in Cells
  BY <1>1, <1>2, <1>3, IndexInBuffer DEF Index
<1>5. w \in Buffers
  BY <1>1, <1>4 DEF Buffers
<1>6. ASSUME NEW u \in Xs, NEW z \in 0 .. VGA_HEIGHT, z = VGA_HEIGHT => u = 0,
             Index(u, z) = end + 1,
             g = vga_scroll([terminal_buffer |-> w, cursor_x |-> u, cursor_y |-> z])
      PROVE  \E d \in {0, VGA_WIDTH} : Printed(d, g, b, c, end, end2)
  <2> HIDE DEF w
  <2>1. PICK d \in {0, VGA_WIDTH} : Scrolled(d, g, w, Index(u, z), end2)
    BY <1>5, <1>6, ScrollMoves
  <2>2. d \in Nat
    BY <1>2
  <2>3. end2 = end + 1 - d
    <3>1. end2 = Index(u, z) - d
      BY <2>1 DEF Scrolled
    <3>2. Index(u, z) = end + 1
      BY <1>6
    <3> QED BY ONLY <1>4, <2>2, <3>1, <3>2
  <2>4. ASSUME NEW n \in 0 .. (end2 - 1)
        PROVE  g.terminal_buffer[n] = IF n + d = end THEN c ELSE b[n + d]
    <3>1. n + d \in 0 .. end
      BY <1>4, <2>2, <2>3
    <3>2. n + d \in Cells
      BY <1>4, <3>1, SizeIsNat DEF Cells
    <3>3. w[n + d] = IF n + d = end THEN c ELSE b[n + d]
      BY <1>1, <3>2 DEF w, Buffers
    <3> QED BY <2>1, <3>3 DEF Scrolled
  <2> QED BY <2>3, <2>4 DEF Printed
<1> DEFINE Moves == \E d \in {0, VGA_WIDTH} : Printed(d, g, b, c, end, end2)
<1>7. ASSUME x < VGA_WIDTH - 1 PROVE Moves
  <2>1. g = vga_scroll([terminal_buffer |-> w, cursor_x |-> x + 1, cursor_y |-> y])
    BY <1>1, <1>2, <1>7 DEF Glyph, At
  <2>2. x + 1 \in Xs /\ y \in 0 .. VGA_HEIGHT /\ y # VGA_HEIGHT
    BY <1>2, <1>7 DEF Xs
  <2>3. Index(x + 1, y) = end + 1
    BY <1>2, <1>3, <1>4 DEF Index
  <2> QED BY <1>4, <1>6, <2>1, <2>2, <2>3
<1>8. ASSUME ~(x < VGA_WIDTH - 1) PROVE Moves
  <2>1. x + 1 = VGA_WIDTH
    BY <1>2, <1>8
  <2>2. g = vga_scroll([terminal_buffer |-> w, cursor_x |-> 0, cursor_y |-> y + 1])
    BY <1>1, <1>2, <2>1 DEF Glyph, At
  <2>3. 0 \in Xs /\ y + 1 \in 0 .. VGA_HEIGHT
    BY <1>2 DEF Xs
  <2>4. Index(0, y + 1) = end + 1
    BY <1>2, <1>3, <1>4, <2>1 DEF Index
  <2> QED BY <1>4, <1>6, <2>2, <2>3, <2>4
<1>9. end2 \in Int
  BY <1>2, <1>4, <1>7, <1>8 DEF Printed
<1> QED BY <1>4, <1>7, <1>8, <1>9

(* Backspace goes back over the cell before the cursor, if there is one.   *)
LEMMA BackspaceMoves ==
  ASSUME NEW v \in Screens, NEW g, g = Backspace(v),
         NEW end, end = Index(v.cursor_x, v.cursor_y),
         NEW end2, end2 = Index(g.cursor_x, g.cursor_y)
  PROVE  /\ end \in Nat
         /\ \/ end = 0 /\ end2 = 0
            \/ /\ end2 = end - 1 /\ end2 \in Nat
               /\ \A n \in 0 .. (end2 - 1) : g.terminal_buffer[n] = v.terminal_buffer[n]
<1> DEFINE b == v.terminal_buffer
           x == v.cursor_x
           y == v.cursor_y
<1>1. b \in Buffers /\ x \in Xs /\ y \in Ys
  BY DEF Screens
<1>2. /\ x \in Nat /\ y \in Nat /\ x < VGA_WIDTH /\ y < VGA_HEIGHT
      /\ VGA_WIDTH \in Nat \ {0} /\ VGA_HEIGHT \in Nat \ {0}
  BY <1>1, ScreenAssumption DEF Xs, Ys
<1>3. end = y * VGA_WIDTH + x /\ end \in Nat /\ end \in Cells
  BY <1>1, <1>2, IndexInBuffer, ScreenAssumption DEF Index, Cells
<1>4. CASE x = 0 /\ y = 0
  <2>1. g = v
    BY <1>4 DEF Backspace
  <2>2. end = 0
    BY <1>2, <1>3, <1>4
  <2> QED BY <2>1, <2>2
<1>5. ASSUME NEW u \in Xs, NEW z \in Ys, Index(x, y) - 1 = Index(u, z),
             g = vga_scroll(At([v EXCEPT !.terminal_buffer[end - 1] = Space], u, z))
      PROVE  /\ end2 = end - 1 /\ end2 \in Nat
             /\ \A n \in 0 .. (end2 - 1) : g.terminal_buffer[n] = b[n]
  <2> DEFINE w == [b EXCEPT ![end - 1] = Space]
  <2>1. At([v EXCEPT !.terminal_buffer[end - 1] = Space], u, z) =
          [terminal_buffer |-> w, cursor_x |-> u, cursor_y |-> z]
    BY <1>1 DEF At, Screens
  <2>2. z # VGA_HEIGHT
    BY <1>2 DEF Ys
  <2>3. g = [terminal_buffer |-> w, cursor_x |-> u, cursor_y |-> z]
    BY <1>5, <2>1, <2>2 DEF vga_scroll
  <2>4. Index(u, z) \in Cells
    BY IndexInBuffer, ScreenAssumption
  <2>5. end2 = end - 1 /\ end2 \in Nat
    BY <1>5, <2>3, <2>4 DEF Cells
  <2>6. ASSUME NEW n \in 0 .. (end2 - 1) PROVE w[n] = b[n]
    <3>1. n # end - 1
      BY <1>3, <2>5
    <3> QED BY <1>1, <3>1
  <2> QED BY <2>3, <2>5, <2>6
<1>6. CASE x > 0
  <2>1. x - 1 \in Xs
    BY <1>2, <1>6 DEF Xs
  <2>2. Index(x, y) - 1 = Index(x - 1, y)
    BY <1>1, <1>6, IndexBefore, ScreenAssumption
  <2>3. g = vga_scroll(At([v EXCEPT !.terminal_buffer[end - 1] = Space], x - 1, y))
    BY <1>2, <1>6 DEF Backspace
  <2> QED BY <1>1, <1>3, <1>5, <2>1, <2>2, <2>3
<1>7. CASE x = 0 /\ y > 0
  <2>1. VGA_WIDTH - 1 \in Xs /\ y - 1 \in Ys
    BY <1>2, <1>7 DEF Xs, Ys
  <2>2. Index(x, y) - 1 = Index(VGA_WIDTH - 1, y - 1)
    BY <1>1, <1>7, IndexBefore, ScreenAssumption
  <2>3. ~(x > 0) /\ ~(x = 0 /\ y = 0)
    BY <1>7
  <2>4. g = vga_scroll(At([v EXCEPT !.terminal_buffer[end - 1] = Space], VGA_WIDTH - 1, y - 1))
    BY <2>3 DEF Backspace
  <2> QED BY <1>3, <1>5, <2>1, <2>2, <2>4
<1> QED BY <1>2, <1>3, <1>4, <1>6, <1>7

LEMMA GlyphStands ==
  ASSUME NEW v \in Screens, NEW c \in Glyphs, NEW l \in Seq(Glyphs), Stand(l, v),
         NEW g, g = Glyph(v, c), NEW lc, lc = Append(l, c)
  PROVE  g \in Screens /\ lc \in Seq(Glyphs) /\ Stand(lc, g)
<1> DEFINE end  == Index(v.cursor_x, v.cursor_y)
           end2 == Index(g.cursor_x, g.cursor_y)
<1>1. g \in Screens
  BY GlyphPuts, ScreenAssumption
<1>2. /\ lc \in Seq(Glyphs) /\ Len(lc) = Len(l) + 1
      /\ \A k \in 1 .. Len(l) : lc[k] = l[k]
      /\ lc[Len(l) + 1] = c
  BY AppendProperties
<1>3. \A k \in 1 .. Len(l) : end - Len(l) + k - 1 >= 0 =>
        v.terminal_buffer[end - Len(l) + k - 1] = l[k]
  BY DEF Stand
<1>4. end \in Nat
  BY GlyphMoves
<1>5. PICK d \in {0, VGA_WIDTH} : Printed(d, g, v.terminal_buffer, c, end, end2)
  BY GlyphMoves
<1> HIDE DEF end, end2
<1>6. d \in Nat /\ Len(l) \in Nat
  BY ScreenAssumption
<1>7. end2 = end + 1 - d
  BY <1>5 DEF Printed
<1>8. ASSUME NEW k \in 1 .. Len(lc), end2 - Len(lc) + k - 1 >= 0
      PROVE  g.terminal_buffer[end2 - Len(lc) + k - 1] = lc[k]
  <2> DEFINE n == end2 - Len(lc) + k - 1
  <2>1. k \in Nat /\ k >= 1 /\ k <= Len(l) + 1 /\ n = end2 - Len(lc) + k - 1
    BY <1>2, <1>6
  <2>2. Len(lc) = Len(l) + 1 /\ n >= 0
    BY <1>2, <1>8
  <2> HIDE DEF n
  <2>3. n \in 0 .. (end2 - 1) /\ n + d = end - Len(l) + k - 1
    BY ONLY <1>4, <1>6, <1>7, <2>1, <2>2
  <2>4. g.terminal_buffer[n] = IF n + d = end THEN c ELSE v.terminal_buffer[n + d]
    BY <1>5, <2>3 DEF Printed
  <2>5. CASE k = Len(l) + 1
    <3>1. n + d = end
      BY ONLY <1>4, <1>6, <2>3, <2>5
    <3> QED BY <1>2, <2>4, <2>5, <3>1 DEF n
  <2>6. CASE k # Len(l) + 1
    <3>1. k \in 1 .. Len(l) /\ n + d # end /\ end - Len(l) + k - 1 >= 0
      BY ONLY <1>4, <1>6, <2>1, <2>2, <2>3, <2>6
    <3>2. v.terminal_buffer[n + d] = l[k]
      BY <1>3, <2>3, <3>1
    <3>3. lc[k] = l[k]
      BY <1>2, <3>1
    <3> QED BY <2>4, <3>1, <3>2, <3>3 DEF n
  <2> QED BY <2>5, <2>6
<1>9. Stand(lc, g)
  BY <1>8 DEF Stand, end2
<1> QED BY <1>1, <1>2, <1>9

LEMMA BackspaceStands ==
  ASSUME NEW v \in Screens, NEW l \in Seq(Glyphs), NEW lc, lc \in Seq(Glyphs),
         Len(lc) = Len(l) + 1, \A k \in 1 .. Len(l) : lc[k] = l[k],
         Stand(lc, v), NEW g, g = Backspace(v)
  PROVE  g \in Screens /\ Stand(l, g)
<1> DEFINE end  == Index(v.cursor_x, v.cursor_y)
           end2 == Index(g.cursor_x, g.cursor_y)
<1>1. g \in Screens
  BY BackspaceErases, ScreenAssumption
<1>2. \A k \in 1 .. Len(lc) : end - Len(lc) + k - 1 >= 0 =>
        v.terminal_buffer[end - Len(lc) + k - 1] = lc[k]
  BY DEF Stand
<1>3. /\ end \in Nat
      /\ \/ end = 0 /\ end2 = 0
         \/ /\ end2 = end - 1 /\ end2 \in Nat
            /\ \A n \in 0 .. (end2 - 1) : g.terminal_buffer[n] = v.terminal_buffer[n]
  BY BackspaceMoves
<1> HIDE DEF end, end2
<1>4. Len(l) \in Nat /\ Len(lc) = Len(l) + 1
  OBVIOUS
<1>5. ASSUME NEW k \in 1 .. Len(l), end2 - Len(l) + k - 1 >= 0
      PROVE  g.terminal_buffer[end2 - Len(l) + k - 1] = l[k]
  <2>1. k \in Nat /\ k >= 1 /\ k <= Len(l)
    BY <1>4
  <2>2. end2 - Len(l) + k - 1 >= 0
    BY <1>5
  <2>3. end2 # 0
    BY ONLY <1>4, <2>1, <2>2
  <2>4. /\ end2 = end - 1 /\ end2 \in Nat
        /\ \A n \in 0 .. (end2 - 1) : g.terminal_buffer[n] = v.terminal_buffer[n]
    BY <1>3, <2>3
  <2>5. end2 = end - 1 /\ end2 \in Nat /\ end \in Nat
    BY <1>3, <2>4
  <2> DEFINE n == end2 - Len(l) + k - 1
  <2>6. n = end2 - Len(l) + k - 1
    OBVIOUS
  <2> HIDE DEF n
  <2>7. n \in 0 .. (end2 - 1) /\ n = end - Len(lc) + k - 1 /\ n >= 0 /\ k \in 1 .. Len(lc)
    BY ONLY <1>4, <2>1, <2>2, <2>5, <2>6
  <2>8. v.terminal_buffer[n] = lc[k]
    BY <1>2, <2>7
  <2>9. g.terminal_buffer[n] = v.terminal_buffer[n]
    BY <2>4, <2>7
  <2> QED BY <2>8, <2>9 DEF n
<1>6. Stand(l, g)
  BY <1>5 DEF Stand, end2
<1> QED BY <1>1, <1>6

(* A character that kgets shows.                                           *)
LEMMA SpreadStands ==
  ASSUME NEW v \in Screens, NEW c, c \in Glyphs \/ c = TAB, NEW l \in Seq(Glyphs), Stand(l, v)
  PROVE  /\ vga_printc(v, c) \in Screens
         /\ Spread(l, c) \in Seq(Glyphs) /\ Stand(Spread(l, c), vga_printc(v, c))
<1>1. CASE c \in Glyphs
  <2>1. c \notin Controls /\ c # TAB
    BY <1>1, ScreenAssumption DEF Controls
  <2>2. vga_printc(v, c) = Glyph(v, c)
    BY <2>1 DEF vga_printc, Controls
  <2>3. Spread(l, c) = Append(l, c)
    BY <2>1 DEF Spread
  <2> QED BY <1>1, <2>2, <2>3, GlyphStands
<1>2. CASE c = TAB
  <2> DEFINE v1 == Glyph(v, Space)
             v2 == Glyph(v1, Space)
             v3 == Glyph(v2, Space)
             v4 == Glyph(v3, Space)
             l1 == Append(l, Space)
             l2 == Append(l1, Space)
             l3 == Append(l2, Space)
             l4 == Append(l3, Space)
  <2>1. vga_printc(v, c) = v4
    BY <1>2 DEF vga_printc, NUL, NL, TAB, BS, Spaces
  <2>2. Spread(l, c) = l4
    BY <1>2 DEF Spread
  <2>3. Space \in Glyphs
    BY ScreenAssumption
  <2>4. v1 \in Screens /\ l1 \in Seq(Glyphs) /\ Stand(l1, v1)
    BY <2>3, GlyphStands
  <2> HIDE DEF v1, l1
  <2>5. v2 \in Screens /\ l2 \in Seq(Glyphs) /\ Stand(l2, v2)
    BY <2>3, <2>4, GlyphStands
  <2> HIDE DEF v2, l2
  <2>6. v3 \in Screens /\ l3 \in Seq(Glyphs) /\ Stand(l3, v3)
    BY <2>3, <2>5, GlyphStands
  <2> HIDE DEF v3, l3
  <2>7. v4 \in Screens /\ l4 \in Seq(Glyphs) /\ Stand(l4, v4)
    BY <2>3, <2>6, GlyphStands
  <2> QED BY <2>1, <2>2, <2>7
<1> QED BY <1>1, <1>2

-----------------------------------------------------------------------------
(* The prompt and a line                                                   *)

(* The cells of the first n characters.                                    *)
CellsOf(line, cells) ==
  /\ DOMAIN cells = 0 .. Len(line) /\ cells[0] = <<Prompt>>
  /\ \A n \in 1 .. Len(line) : cells[n] = Spread(cells[n - 1], line[n])

Printable == Glyphs \cup {TAB}

LEMMA SpreadInSeq ==
  ASSUME NEW l \in Seq(Glyphs), NEW c \in Printable
  PROVE  Spread(l, c) \in Seq(Glyphs)
<1>1. Space \in Glyphs
  BY ScreenAssumption
<1>2. CASE c = TAB
  <2> DEFINE l1 == Append(l, Space)
             l2 == Append(l1, Space)
             l3 == Append(l2, Space)
             l4 == Append(l3, Space)
  <2>1. Spread(l, c) = l4
    BY <1>2 DEF Spread
  <2>2. l1 \in Seq(Glyphs)
    BY <1>1
  <2> HIDE DEF l1
  <2>3. l2 \in Seq(Glyphs)
    BY <1>1, <2>2
  <2> HIDE DEF l2
  <2>4. l3 \in Seq(Glyphs)
    BY <1>1, <2>3
  <2> HIDE DEF l3
  <2>5. l4 \in Seq(Glyphs)
    BY <1>1, <2>4
  <2> QED BY <2>1, <2>5
<1>3. CASE c # TAB
  <2>1. c \in Glyphs
    BY <1>3 DEF Printable
  <2> QED BY <1>3, <2>1 DEF Spread
<1> QED BY <1>2, <1>3

LEMMA PromptAndSteps ==
  ASSUME NEW line \in Seq(Printable)
  PROVE  \E cells : /\ CellsOf(line, cells)
                    /\ \A n \in 0 .. Len(line) : cells[n] \in Seq(Glyphs)
                    /\ PromptAnd(line) = cells[Len(line)]
<1> DEFINE F == [p \in (1 .. Len(line)) \X Seq(Glyphs) |-> Spread(p[2], line[p[1]])]
           Eq(h) == h = [n \in 0 .. Len(line) |->
                           IF n = 0 THEN <<Prompt>> ELSE Spread(h[n - 1], line[n])]
           f == CHOOSE h : Eq(h)
           N == {n \in Nat : n <= Len(line) => f[n] \in Seq(Glyphs)}
<1>1. Len(line) \in Nat /\ \A n \in 1 .. Len(line) : line[n] \in Printable
  OBVIOUS
<1>2. ASSUME NEW k \in 1 .. Len(line), NEW l \in Seq(Glyphs)
      PROVE  F[<<k, l>>] = Spread(l, line[k]) /\ F[<<k, l>>] \in Seq(Glyphs)
  <2>1. F[<<k, l>>] = Spread(l, line[k])
    OBVIOUS
  <2>2. Spread(l, line[k]) \in Seq(Glyphs)
    BY <1>1, SpreadInSeq
  <2> QED BY <2>1, <2>2
<1> HIDE DEF F
<1>3. Steps(F, 1 .. Len(line), Seq(Glyphs)) /\ <<Prompt>> \in Seq(Glyphs)
  BY <1>2, ConsoleAssumption DEF Steps
<1>4. PICK g : Bounded(g, Len(line), Seq(Glyphs), <<Prompt>>, F)
  BY <1>1, <1>3, BoundedRecursion
<1>5. /\ g \in [0 .. Len(line) -> Seq(Glyphs)]
      /\ g = [n \in 0 .. Len(line) |-> IF n = 0 THEN <<Prompt>> ELSE F[<<n, g[n - 1]>>]]
  BY <1>4 DEF Bounded
<1>6. ASSUME NEW n \in 0 .. Len(line), n # 0
      PROVE  F[<<n, g[n - 1]>>] = Spread(g[n - 1], line[n])
  <2>1. n \in 1 .. Len(line) /\ n - 1 \in 0 .. Len(line)
    BY <1>1, <1>6
  <2>2. g[n - 1] \in Seq(Glyphs)
    BY <1>5, <2>1
  <2> QED BY <1>2, <2>1, <2>2
<1>7. Eq(g)
  BY <1>5, <1>6
<1>8. PromptAnd(line) = f[Len(line)]
  BY DEF PromptAnd
<1> HIDE DEF Eq
<1>9. Eq(f)
  BY <1>7
<1> HIDE DEF f
<1> USE DEF Eq
<1>10. f[0] = <<Prompt>> /\ DOMAIN f = 0 .. Len(line)
  BY <1>1, <1>9
<1>11. ASSUME NEW n \in 1 .. Len(line)
       PROVE  f[n] = Spread(f[n - 1], line[n])
  <2>1. n \in 0 .. Len(line) /\ n # 0
    BY <1>1
  <2> QED BY <1>9, <2>1
<1> HIDE DEF Eq
<1>12. 0 \in N
  BY <1>3, <1>10
<1>13. ASSUME NEW n \in Nat, n \in N PROVE n + 1 \in N
  <2> SUFFICES ASSUME n + 1 <= Len(line) PROVE f[n + 1] \in Seq(Glyphs)
    OBVIOUS
  <2>1. n + 1 \in 1 .. Len(line) /\ n + 1 - 1 = n /\ n <= Len(line)
    BY <1>1
  <2>2. f[n] \in Seq(Glyphs)
    BY <1>13, <2>1
  <2>3. f[n + 1] = Spread(f[n], line[n + 1])
    BY <1>11, <2>1
  <2>4. line[n + 1] \in Printable
    BY <1>1, <2>1
  <2> QED BY <2>2, <2>3, <2>4, SpreadInSeq
<1> HIDE DEF N
<1>14. Nat \subseteq N
  BY <1>12, <1>13, InductionNat
<1>15. \A n \in 0 .. Len(line) : f[n] \in Seq(Glyphs)
  BY <1>1, <1>14 DEF N
<1>16. CellsOf(line, f)
  BY <1>10, <1>11 DEF CellsOf
<1> QED BY <1>8, <1>15, <1>16

LEMMA PromptAndInSeq ==
  ASSUME NEW line \in Seq(Printable)
  PROVE  PromptAnd(line) \in Seq(Glyphs)
<1>1. PICK cells : /\ \A n \in 0 .. Len(line) : cells[n] \in Seq(Glyphs)
                   /\ PromptAnd(line) = cells[Len(line)]
  BY PromptAndSteps
<1>2. Len(line) \in 0 .. Len(line)
  OBVIOUS
<1> QED BY <1>1, <1>2

LEMMA PromptAlone ==
  ASSUME NEW line \in Seq(Printable), Len(line) = 0
  PROVE  PromptAnd(line) = <<Prompt>>
<1>1. PICK cells : CellsOf(line, cells) /\ PromptAnd(line) = cells[Len(line)]
  BY PromptAndSteps
<1> QED BY <1>1 DEF CellsOf

(* One character more.                                                     *)
LEMMA PromptAndMore ==
  ASSUME NEW line \in Seq(Printable), NEW more \in Seq(Printable),
         Len(more) = Len(line) + 1, \A k \in 1 .. Len(line) : more[k] = line[k]
  PROVE  PromptAnd(more) = Spread(PromptAnd(line), more[Len(more)])
<1>1. PICK a : CellsOf(line, a) /\ PromptAnd(line) = a[Len(line)]
  BY PromptAndSteps
<1>2. PICK b : CellsOf(more, b) /\ PromptAnd(more) = b[Len(more)]
  BY PromptAndSteps
<1> DEFINE N == {n \in Nat : n <= Len(line) => a[n] = b[n]}
<1>3. Len(line) \in Nat
  OBVIOUS
<1>4. 0 \in N
  BY <1>1, <1>2 DEF CellsOf
<1>5. ASSUME NEW n \in Nat, n \in N PROVE n + 1 \in N
  <2> SUFFICES ASSUME n + 1 <= Len(line) PROVE a[n + 1] = b[n + 1]
    OBVIOUS
  <2>1. n + 1 \in 1 .. Len(line) /\ n + 1 \in 1 .. Len(more) /\ n + 1 - 1 = n /\ n <= Len(line)
    BY <1>3
  <2>2. a[n] = b[n]
    BY <1>5, <2>1
  <2>3. a[n + 1] = Spread(a[n], line[n + 1])
    BY <1>1, <2>1 DEF CellsOf
  <2>4. b[n + 1] = Spread(b[n], more[n + 1])
    BY <1>2, <2>1 DEF CellsOf
  <2>5. more[n + 1] = line[n + 1]
    BY <2>1
  <2> QED BY <2>2, <2>3, <2>4, <2>5
<1> HIDE DEF N
<1>6. Nat \subseteq N
  BY <1>4, <1>5, InductionNat
<1>7. a[Len(line)] = b[Len(line)]
  BY <1>3, <1>6 DEF N
<1>8. Len(more) \in 1 .. Len(more) /\ Len(more) - 1 = Len(line)
  BY <1>3
<1>9. b[Len(more)] = Spread(b[Len(line)], more[Len(more)])
  BY <1>2, <1>8 DEF CellsOf
<1> QED BY <1>1, <1>2, <1>7, <1>9

-----------------------------------------------------------------------------
(* The keyboard behind the console                                         *)

KP == INSTANCE KeyboardProofs

(* What the proofs about Keyboard assume.                                  *)
LEMMA KeyboardAssumed ==
  /\ BufferSize \in Nat /\ BufferSize >= 2
  /\ scancode_to_ascii \in [CharKeys -> STRING]
  /\ scancode_to_ascii_shifted \in [CharKeys -> STRING]
  BY ConsoleAssumption

LEMMA SameKeys ==
  /\ Keyboard!Init => KP!Init
  /\ \A key \in CharKeys : Keyboard!PressKey(key) => KP!PressKey(key)
<1>1. Keyboard!Init => KP!Init
  BY DEF Keyboard!Init, KP!Init, Keyboard!Empty, KP!Empty, Keyboard!Cells, KP!Cells,
         Keyboard!Top, KP!Top, Keyboard!NUL, KP!NUL
<1>2. ASSUME NEW key \in CharKeys, Keyboard!PressKey(key) PROVE KP!PressKey(key)
  BY <1>2 DEF Keyboard!PressKey, KP!PressKey, Keyboard!Ascii, KP!Ascii,
    Keyboard!TakesBackspace, KP!TakesBackspace, Keyboard!Backspace, KP!Backspace,
    Keyboard!TakesChar, KP!TakesChar, Keyboard!Character, KP!Character,
    Keyboard!Edit, KP!Edit, Keyboard!Front, KP!Front, Keyboard!Behind, KP!Behind, Keyboard!buf, KP!buf,
    Keyboard!Top, KP!Top, Keyboard!NUL, KP!NUL, Keyboard!NL, KP!NL, Keyboard!BS, KP!BS
<1> QED BY <1>1, <1>2

LEMMA SameKgets ==
  /\ Keyboard!Begin => KP!Begin
  /\ Keyboard!SeeKey => KP!SeeKey
  /\ Keyboard!CheckEnter => KP!CheckEnter
  /\ Keyboard!CheckBackspace => KP!CheckBackspace
  /\ Keyboard!Erase => KP!Erase
  /\ Keyboard!StepBack => KP!StepBack
  /\ Keyboard!Store => KP!Store
  /\ Keyboard!Done => KP!Done
<1> USE DEF Keyboard!Goto, KP!Goto, Keyboard!driver, KP!driver, Keyboard!history, KP!history,
      Keyboard!buf, KP!buf, Keyboard!NUL, KP!NUL, Keyboard!NL, KP!NL, Keyboard!BS, KP!BS,
      Keyboard!Empty, KP!Empty, Keyboard!Cells, KP!Cells, Keyboard!Top, KP!Top
<1>1. Keyboard!Begin => KP!Begin
  BY DEF Keyboard!Begin, KP!Begin, Keyboard!Reset, KP!Reset
<1>2. Keyboard!SeeKey => KP!SeeKey
  BY DEF Keyboard!SeeKey, KP!SeeKey
<1>3. Keyboard!CheckEnter => KP!CheckEnter
  BY DEF Keyboard!CheckEnter, KP!CheckEnter
<1>4. Keyboard!CheckBackspace => KP!CheckBackspace
  BY DEF Keyboard!CheckBackspace, KP!CheckBackspace
<1>5. Keyboard!Erase => KP!Erase
  BY DEF Keyboard!Erase, KP!Erase
<1>6. Keyboard!StepBack => KP!StepBack
  BY DEF Keyboard!StepBack, KP!StepBack
<1>7. Keyboard!Store => KP!Store
  BY DEF Keyboard!Store, KP!Store
<1>8. Keyboard!Done => KP!Done
  BY DEF Keyboard!Done, KP!Done
<1> QED BY <1>1, <1>2, <1>3, <1>4, <1>5, <1>6, <1>7, <1>8

(* Every step of the console is one of the keyboard, or leaves it alone.   *)
LEMMA ConsoleIsKeyboard == [ConsoleNext]_allVars => [KP!Next]_KP!vars
<1> SUFFICES ASSUME [ConsoleNext]_allVars PROVE [KP!Next]_KP!vars
  OBVIOUS
<1>1. CASE DrawLogo \/ Output \/ UNCHANGED allVars
  BY <1>1 DEF DrawLogo, Output, allVars, keyboardVars, KP!vars, KP!driver, KP!history
<1>2. CASE Type
  <2>1. PICK key \in CharKeys : Keyboard!PressKey(key)
    BY <1>2 DEF Type
  <2>2. KP!PressKey(key)
    BY <2>1, SameKeys
  <2> QED BY <2>2 DEF KP!Next, KP!Interrupt
<1>3. CASE Ask
  BY <1>3, SameKgets DEF Ask, KP!Next
<1>4. CASE Echo
  BY <1>4, SameKgets DEF Echo, KP!Next, KP!kgets
<1>5. CASE EraseEcho
  BY <1>5, SameKgets DEF EraseEcho, KP!Next, KP!kgets
<1>6. CASE Look
  <2>1. \/ Keyboard!SeeKey \/ Keyboard!CheckEnter \/ Keyboard!CheckBackspace
        \/ Keyboard!Erase \/ Keyboard!Done
    BY <1>6 DEF Look
  <2>2. KP!SeeKey \/ KP!CheckEnter \/ KP!CheckBackspace \/ KP!Erase \/ KP!Done
    BY <2>1, SameKgets
  <2> QED BY <2>2 DEF KP!Next, KP!kgets
<1> QED BY <1>1, <1>2, <1>3, <1>4, <1>5, <1>6 DEF ConsoleNext

LEMMA KeyboardKeeps ==
  /\ ConsoleInit => KP!KeyboardInv
  /\ KP!KeyboardInv /\ [ConsoleNext]_allVars => KP!KeyboardInv'
<1>1. ConsoleInit => KP!KeyboardInv
  BY SameKeys, KeyboardAssumed, KP!KeyboardStart DEF ConsoleInit
<1> QED BY <1>1, ConsoleIsKeyboard, KeyboardAssumed, KP!KeyboardNext

(* Each character of a line can be shown.                                  *)
LEMMA LettersPrint ==
  /\ KP!Letters \subseteq Printable /\ Keyboard!Letters = KP!Letters
  /\ Seq(KP!Letters) \subseteq Seq(Printable)
<1>1. Keyboard!Letters = KP!Letters /\ Keyboard!Codes = KP!Codes
  BY DEF Keyboard!Letters, KP!Letters, Keyboard!Chars, KP!Chars, Keyboard!Codes, KP!Codes,
    Keyboard!NUL, KP!NUL, Keyboard!NL, KP!NL, Keyboard!BS, KP!BS
<1>2. KP!Letters \subseteq Printable
  BY <1>1, ConsoleAssumption DEF KP!Letters, KP!Chars, KP!NUL, KP!BS, KP!NL,
    Controls, NUL, BS, NL, Printable
<1>3. Seq(KP!Letters) \subseteq Seq(Printable)
  BY <1>2
<1> QED BY <1>1, <1>2, <1>3

LEMMA LetterFacts == KP!NUL \notin KP!Letters /\ KP!NL \notin KP!Letters /\ KP!BS \notin KP!Letters
                     /\ KP!NUL = NUL /\ KP!NL # NUL /\ KP!BS # NUL
  BY DEF KP!Letters, KP!NUL, KP!NL, KP!BS, NUL

LEMMA Indexing ==
  ASSUME KP!KeyboardInv
  PROVE  /\ i \in Nat /\ KP!Top \in Nat /\ i <= KP!Top /\ i \in KP!Cells
         /\ s \in [KP!Cells -> KP!Chars] /\ typed \in Seq(KP!Letters)
         /\ KP!Cells = 0 .. KP!Top
<1>1. KP!TypeOK
  BY DEF KP!KeyboardInv
<1>2. i \in KP!Cells /\ s \in [KP!Cells -> KP!Chars] /\ typed \in Seq(KP!Letters)
  BY <1>1, KeyboardAssumed, KP!Types
<1>3. KP!Cells \subseteq Nat /\ KP!Top \in Nat /\ i <= KP!Top
  BY <1>2, KeyboardAssumed, KP!CellsType
<1> QED BY <1>2, <1>3 DEF KP!Cells

-----------------------------------------------------------------------------
(* The invariant of the console                                            *)

LEMMA GotFacts ==
  ASSUME KP!KeyboardInv
  PROVE  /\ Len(Got) = i /\ DOMAIN Got = 1 .. i
         /\ \A k \in 1 .. i : Got[k] = s[k - 1]
<1>1. i \in Nat
  BY Indexing
<1> QED BY <1>1 DEF Got

(* When kgets waits for a key, or returns, it has all of the line.         *)
LEMMA GotIsTyped ==
  ASSUME KP!KeyboardInv, ~lagged, Waiting \/ pc = "done"
  PROVE  Got = typed
<1>1. i \in Nat /\ KP!Top \in Nat /\ i <= KP!Top /\ typed \in Seq(KP!Letters)
  BY Indexing
<1>2. pc # "idle" /\ KP!InStep /\ KP!TypeOK
  BY DEF KP!KeyboardInv, Waiting
<1>3. KP!Quiet \/ KP!CharPending \/ KP!EnterPending \/ KP!BackPending
  BY <1>2 DEF KP!InStep
<1>4. Waiting => keyboard_input_buffer[i] = NUL /\ pc = "wait"
  BY DEF Waiting
<1>5. ~KP!CharPending
  <2> SUFFICES ASSUME KP!CharPending PROVE FALSE
    OBVIOUS
  <2>1. Len(typed) = i + 1 /\ keyboard_input_buffer[i] = typed[i + 1] /\ pc # "done"
    BY DEF KP!CharPending, KP!buf
  <2>2. i + 1 \in 1 .. Len(typed)
    BY <1>1, <2>1
  <2>3. typed[i + 1] \in KP!Letters
    BY <1>1, <2>2
  <2> QED BY <1>4, <2>1, <2>3, LetterFacts
<1>6. ~KP!BackPending
  BY <1>4, LetterFacts DEF KP!BackPending, KP!buf
<1>7. i = Len(typed) /\ KP!Copied(i)
  BY <1>3, <1>5, <1>6 DEF KP!Quiet, KP!EnterPending
<1>8. KP!Line = typed
  BY <1>2, <1>7, KeyboardAssumed, KP!CopiedLine
<1> QED BY <1>7, <1>8 DEF KP!Line, Got

(* A key that kgets stores, and one that it takes back.                    *)
LEMMA StoreFacts ==
  ASSUME KP!KeyboardInv, ~lagged, pc = "store"
  PROVE  i < KP!Top /\ keyboard_input_buffer[i] \in KP!Letters
<1>1. i \in Nat /\ typed \in Seq(KP!Letters)
  BY Indexing
<1>2. KP!InStep
  BY DEF KP!KeyboardInv
<1>3. KP!CharPending
  BY <1>2 DEF KP!InStep, KP!Quiet, KP!CharPending, KP!EnterPending, KP!BackPending
<1>4. Len(typed) = i + 1 /\ i < KP!Top /\ keyboard_input_buffer[i] = typed[i + 1]
  BY <1>3 DEF KP!CharPending, KP!buf
<1>5. i + 1 \in 1 .. Len(typed)
  BY <1>1, <1>4
<1>6. typed[i + 1] \in KP!Letters
  BY <1>1, <1>5
<1> QED BY <1>4, <1>6

LEMMA StepBackFacts ==
  ASSUME KP!KeyboardInv, pc = "step back"
  PROVE  i > 0
  BY DEF KP!KeyboardInv, KP!Indices

(* To show ConsoleInv of the next state, with its screen and its line.     *)
LEMMA ConsoleNow ==
  ASSUME NEW v \in Screens, vga' = v, ~lagged', ~booting',
         blinking' = vga_update_cursor(v),
         NEW line \in Seq(KP!Letters), line = [k \in 1 .. i' |-> (s')[k - 1]],
         ~tab_erased' => Stand(PromptAnd(line), v)
  PROVE  ConsoleInv'
<1>1. TypeOK'
  BY DEF TypeOK, Screens, Buffers
<1>2. Got' = line
  BY DEF Got
<1>3. Got' \in Seq(Keyboard!Letters)'
  BY <1>2, LettersPrint DEF Keyboard!Letters, Keyboard!Chars, Keyboard!Codes
<1>4. (~tab_erased => Stand(PromptAnd(Got), vga))'
  BY <1>2
<1>5. (blinking = vga_update_cursor(vga))'
  BY DEF vga_update_cursor
<1> QED BY <1>1, <1>3, <1>4, <1>5 DEF ConsoleInv

LEMMA ConsoleIdle ==
  ASSUME vga' \in Screens, lagged' = FALSE, pc' = "idle"
  PROVE  ConsoleInv'
<1>1. TypeOK'
  BY DEF TypeOK, Screens, Buffers
<1> QED BY <1>1 DEF ConsoleInv

LEMMA ConsoleStart == ConsoleInit => ConsoleInv
<1> SUFFICES ASSUME ConsoleInit PROVE ConsoleInv
  OBVIOUS
<1>1. vga \in Screens
  BY ClearShows, ScreenAssumption DEF ConsoleInit
<1>2. lagged = FALSE /\ pc = "idle"
  BY DEF ConsoleInit, Keyboard!Init
<1> QED BY <1>1, <1>2, TypeIsScreens DEF ConsoleInv

LEMMA ConsoleAsk == ASSUME KP!KeyboardInv, ConsoleInv, Ask PROVE ConsoleInv'
<1> DEFINE v == vga_printc(vga, Prompt)
           line == [k \in 1 .. i' |-> (s')[k - 1]]
           none == [k \in 1 .. 0 |-> Prompt]
<1>1. /\ vga \in Screens /\ Prompt \in Glyphs /\ Prompt \notin Controls
  BY TypeIsScreens, ConsoleAssumption, ScreenAssumption DEF ConsoleInv
<1>2. v = Glyph(vga, Prompt)
  BY <1>1 DEF vga_printc, Controls
<1>3. none \in Seq(Glyphs) /\ Len(none) = 0
  OBVIOUS
<1>4. Append(none, Prompt) = <<Prompt>>
  BY <1>1
<1> HIDE DEF none
<1>5. Stand(none, vga)
  BY <1>3 DEF Stand
<1>6. v \in Screens /\ Stand(<<Prompt>>, v)
  BY <1>1, <1>2, <1>3, <1>4, <1>5, GlyphStands
<1>7. /\ pc = "idle" /\ i' = i /\ s' = s /\ lagged' = FALSE /\ booting' = FALSE
      /\ vga' = v /\ blinking' = vga_update_cursor(v)
  BY DEF Ask, Keyboard!Begin, Keyboard!Goto, Shows
<1>8. i' = 0
  BY <1>7 DEF KP!KeyboardInv, KP!Indices
<1>9. line \in Seq(KP!Letters) /\ Len(line) = 0
  BY <1>8
<1> HIDE DEF line, v
<1>10. PromptAnd(line) = <<Prompt>>
  BY <1>9, LettersPrint, PromptAlone
<1>11. line = [k \in 1 .. i' |-> (s')[k - 1]]
  BY DEF line
<1>12. Stand(PromptAnd(line), v)
  BY <1>6, <1>10
<1> QED BY <1>6, <1>7, <1>9, <1>11, <1>12, ConsoleNow

LEMMA ConsoleEcho == ASSUME KP!KeyboardInv, ConsoleInv, Echo PROVE ConsoleInv'
<1> DEFINE c == keyboard_input_buffer[i]
           v == vga_printc(vga, c)
           line == [k \in 1 .. i' |-> (s')[k - 1]]
<1>1. pc = "store" /\ lagged = FALSE /\ vga \in Screens /\ booting = FALSE
  BY TypeIsScreens DEF Echo, Keyboard!Store, Keyboard!Goto, ConsoleInv
<1>2. i < KP!Top /\ c \in KP!Letters
  BY <1>1, StoreFacts
<1>3. /\ i \in Nat /\ i \in KP!Cells /\ KP!Top \in Nat /\ KP!Cells = 0 .. KP!Top
      /\ s \in [KP!Cells -> KP!Chars]
  BY Indexing
<1>4. i < Keyboard!Top /\ KP!Top = Keyboard!Top
  BY <1>2 DEF KP!Top, Keyboard!Top
<1>5. s' = [s EXCEPT ![i] = c] /\ i' = i + 1 /\ lagged' = lagged /\ booting' = booting
      /\ tab_erased' = tab_erased
  BY <1>4 DEF Echo, Keyboard!Store, Keyboard!buf, Keyboard!history
<1>6. (s')[i] = c
  BY <1>3, <1>5
<1>7. vga' = v /\ blinking' = vga_update_cursor(v)
  BY <1>4, <1>6 DEF Echo, Shows
<1>8. /\ Got \in Seq(KP!Letters) /\ Len(Got) = i /\ DOMAIN Got = 1 .. i
      /\ \A k \in 1 .. i : Got[k] = s[k - 1]
      /\ (~tab_erased => Stand(PromptAnd(Got), vga))
  BY <1>1, GotFacts, LettersPrint DEF ConsoleInv
<1>9. ASSUME NEW k \in 1 .. i'
      PROVE  /\ (s')[k - 1] \in KP!Letters
             /\ k <= i => (s')[k - 1] = Got[k]
             /\ k = i + 1 => (s')[k - 1] = c
  <2>1. k \in 1 .. (i + 1)
    BY <1>5
  <2>2. CASE k <= i
    <3>1. k \in 1 .. i /\ k - 1 \in 0 .. KP!Top /\ k - 1 # i
      BY ONLY <1>2, <1>3, <2>1, <2>2
    <3>2. (s')[k - 1] = s[k - 1]
      BY <1>3, <1>5, <3>1
    <3>3. Got[k] = s[k - 1] /\ Got[k] \in KP!Letters
      BY <1>8, <3>1
    <3>4. k # i + 1
      BY ONLY <1>3, <2>1, <2>2
    <3> QED BY <3>2, <3>3, <3>4
  <2>3. CASE ~(k <= i)
    <3>1. k = i + 1 /\ k - 1 = i
      BY ONLY <1>3, <2>1, <2>3
    <3> QED BY <1>2, <1>6, <2>3, <3>1
  <2> QED BY <2>2, <2>3
<1>10. i' \in Nat
  BY <1>3, <1>5
<1>11. line \in Seq(KP!Letters) /\ Len(line) = i + 1 /\ \A k \in 1 .. (i + 1) : line[k] = (s')[k - 1]
  BY <1>5, <1>9, <1>10
<1>12. line = [k \in 1 .. i' |-> (s')[k - 1]]
  OBVIOUS
<1> HIDE DEF c, v, line
<1>13. \A k \in 1 .. i : line[k] = Got[k]
  <2> SUFFICES ASSUME NEW k \in 1 .. i PROVE line[k] = Got[k]
    OBVIOUS
  <2>1. k \in 1 .. (i + 1) /\ k <= i /\ k \in 1 .. i'
    BY <1>3, <1>5
  <2> QED BY <1>9, <1>11, <2>1
<1>14. line[i + 1] = c
  <2>1. i + 1 \in 1 .. (i + 1) /\ i + 1 \in 1 .. i'
    BY <1>3, <1>5
  <2> QED BY <1>9, <1>11, <2>1
<1>15. line \in Seq(Printable) /\ Got \in Seq(Printable) /\ c \in Printable
  BY <1>2, <1>8, <1>11, LettersPrint
<1>16. PromptAnd(line) = Spread(PromptAnd(Got), line[Len(line)])
  BY <1>8, <1>11, <1>13, <1>15, PromptAndMore
<1>17. PromptAnd(line) = Spread(PromptAnd(Got), c) /\ PromptAnd(Got) \in Seq(Glyphs)
  BY <1>11, <1>14, <1>15, <1>16, PromptAndInSeq
<1>18. v \in Screens
  <2>1. c \in Glyphs \cup Controls
    BY <1>15 DEF Printable, Controls
  <2> QED BY <1>1, <2>1, PrintShows, ScreenAssumption DEF v
<1>19. ASSUME ~tab_erased' PROVE Stand(PromptAnd(line), v)
  <2>1. Stand(PromptAnd(Got), vga)
    BY <1>5, <1>8, <1>19
  <2>2. c \in Glyphs \/ c = TAB
    BY <1>15 DEF Printable
  <2> QED BY <1>1, <1>17, <2>1, <2>2, SpreadStands DEF v
<1>20. lagged' = FALSE /\ booting' = FALSE
  BY <1>1, <1>5
<1> QED BY <1>7, <1>11, <1>12, <1>18, <1>19, <1>20, ConsoleNow

LEMMA ConsoleEraseEcho == ASSUME KP!KeyboardInv, ConsoleInv, EraseEcho PROVE ConsoleInv'
<1> DEFINE v == vga_printc(vga, BS)
           line == [k \in 1 .. i' |-> (s')[k - 1]]
<1>1. pc = "step back" /\ ~lagged /\ vga \in Screens /\ ~booting
  <2>1. pc = "step back"
    BY DEF EraseEcho, Keyboard!StepBack, Keyboard!Goto
  <2>2. ~lagged /\ TypeOK /\ ~booting
    BY <2>1 DEF ConsoleInv
  <2>3. vga \in Screens
    BY <2>2, TypeIsScreens
  <2> QED BY <2>1, <2>2, <2>3
<1>2. i > 0
  BY <1>1, StepBackFacts
<1>3. /\ i \in Nat /\ i <= KP!Top /\ KP!Top \in Nat /\ KP!Cells = 0 .. KP!Top
      /\ s \in [KP!Cells -> KP!Chars]
  BY Indexing
<1>4. /\ i' = i - 1 /\ s' = [s EXCEPT ![i'] = KP!NUL] /\ lagged' = lagged /\ booting' = booting
      /\ tab_erased' = (tab_erased \/ s[i'] = TAB) /\ vga' = v /\ blinking' = vga_update_cursor(v)
  BY DEF EraseEcho, Keyboard!StepBack, Keyboard!history, Keyboard!NUL, KP!NUL, Shows
<1>5. v = Backspace(vga)
  BY DEF vga_printc, NUL, NL, TAB, BS
<1>6. /\ Got \in Seq(KP!Letters) /\ Len(Got) = i /\ DOMAIN Got = 1 .. i
      /\ \A k \in 1 .. i : Got[k] = s[k - 1]
      /\ (~tab_erased => Stand(PromptAnd(Got), vga))
  BY <1>1, GotFacts, LettersPrint DEF ConsoleInv
<1>7. i' \in Nat
  BY <1>2, <1>3, <1>4
<1>8. ASSUME NEW k \in 1 .. i'
      PROVE  (s')[k - 1] = Got[k] /\ (s')[k - 1] \in KP!Letters
  <2>1. k \in 1 .. i /\ k - 1 \in 0 .. KP!Top /\ k - 1 # i'
    <3>1. i' = i - 1
      BY <1>4
    <3> QED BY ONLY <1>2, <1>3, <3>1, k \in 1 .. i'
  <2>2. (s')[k - 1] = s[k - 1]
    BY <1>3, <1>4, <2>1
  <2>3. Got[k] = s[k - 1] /\ Got[k] \in KP!Letters
    BY <1>6, <2>1
  <2> QED BY <2>2, <2>3
<1>9. line \in Seq(KP!Letters) /\ Len(line) = i' /\ \A k \in 1 .. i' : line[k] = (s')[k - 1]
  <2>1. \A k \in 1 .. i' : (s')[k - 1] \in KP!Letters
    BY <1>8
  <2>2. line \in [1 .. i' -> KP!Letters]
    BY <2>1
  <2>3. DOMAIN line = 1 .. i' /\ \A k \in 1 .. i' : line[k] = (s')[k - 1]
    OBVIOUS
  <2> HIDE DEF line
  <2>4. line \in Seq(KP!Letters)
    BY <1>7, <2>2
  <2>5. Len(line) = i'
    BY <1>7, <2>3, <2>4
  <2> QED BY <2>3, <2>4, <2>5
<1>10. line = [k \in 1 .. i' |-> (s')[k - 1]]
  OBVIOUS
<1> HIDE DEF v, line
<1>11. \A k \in 1 .. Len(line) : Got[k] = line[k]
  BY <1>8, <1>9
<1>12. line \in Seq(Printable) /\ Got \in Seq(Printable) /\ Len(Got) = Len(line) + 1
  BY <1>2, <1>3, <1>4, <1>6, <1>9, LettersPrint
<1>13. PromptAnd(Got) = Spread(PromptAnd(line), Got[Len(Got)])
  BY <1>11, <1>12, PromptAndMore
<1>14. PromptAnd(line) \in Seq(Glyphs) /\ PromptAnd(Got) \in Seq(Glyphs)
  BY <1>12, PromptAndInSeq
<1>15. v \in Screens
  BY <1>1, <1>5, BackspaceErases, ScreenAssumption
<1>16. ASSUME ~tab_erased' PROVE Stand(PromptAnd(line), v)
  <2>1. Stand(PromptAnd(Got), vga) /\ s[i'] # TAB
    BY <1>4, <1>6, <1>16
  <2>2. i \in 1 .. i /\ i' = i - 1
    BY <1>2, <1>3, <1>4
  <2>3. Got[Len(Got)] = s[i'] /\ Got[Len(Got)] \in KP!Letters
    BY <1>6, <2>2
  <2> DEFINE c == Got[Len(Got)]
             l == PromptAnd(line)
             lc == PromptAnd(Got)
  <2>4. c # TAB /\ c \in Glyphs
    BY <2>1, <2>3, LettersPrint DEF Printable
  <2>5. lc = Spread(l, c) /\ l \in Seq(Glyphs) /\ lc \in Seq(Glyphs)
    BY <1>13, <1>14
  <2> HIDE DEF c, l, lc
  <2>6. lc = Append(l, c)
    BY <2>4, <2>5 DEF Spread
  <2>7. Len(lc) = Len(l) + 1 /\ \A k \in 1 .. Len(l) : lc[k] = l[k]
    BY <2>4, <2>5, <2>6, AppendProperties
  <2>8. Stand(lc, vga)
    BY <2>1 DEF lc
  <2>9. Stand(l, v)
    BY <1>1, <1>5, <2>5, <2>7, <2>8, BackspaceStands
  <2> QED BY <2>9 DEF l
<1>17. ~lagged' /\ ~booting'
  BY <1>1, <1>4
<1> QED BY <1>4, <1>9, <1>10, <1>15, <1>16, <1>17, ConsoleNow

(* Nothing changes on the screen while kgets looks, and while a key comes. *)
LEMMA ConsoleStays ==
  ASSUME ConsoleInv, UNCHANGED <<vga, booting, blinking, tab_erased, i, s>>, lagged' = FALSE,
         pc = "idle" => pc' = "idle"
  PROVE  ConsoleInv'
<1>1. vga' \in Screens
  BY TypeIsScreens DEF ConsoleInv
<1>2. CASE pc' = "idle"
  BY <1>1, <1>2, ConsoleIdle
<1>3. CASE pc' # "idle"
  <2>1. /\ ~booting /\ blinking = vga_update_cursor(vga) /\ Got \in Seq(KP!Letters)
        /\ ~tab_erased => Stand(PromptAnd(Got), vga)
    BY <1>3, LettersPrint DEF ConsoleInv
  <2>2. Got = [k \in 1 .. i' |-> (s')[k - 1]]
    BY DEF Got
  <2>3. vga' = vga /\ booting' = FALSE /\ blinking' = vga_update_cursor(vga)
    BY <2>1
  <2> QED BY <1>1, <2>1, <2>2, <2>3, ConsoleNow
<1> QED BY <1>2, <1>3

LEMMA ConsoleKeeps ==
  ASSUME KP!KeyboardInv, ConsoleInv, [ConsoleNext]_allVars
  PROVE  ConsoleInv'
<1>1. vga \in Screens /\ lagged = FALSE
  BY TypeIsScreens DEF ConsoleInv
<1>2. CASE DrawLogo
  <2>1. pc = "idle" /\ pc' = "idle" /\ lagged' = FALSE
    BY <1>1, <1>2 DEF DrawLogo, keyboardVars, ConsoleInv
  <2>2. vga' \in Screens
    <3>1. CASE vga' = vga
      BY <1>1, <3>1
    <3>2. CASE \E p \in Logo : vga' = vga_putc(vga, Block, p[1], p[2])
      <4>1. PICK p \in Logo : vga' = vga_putc(vga, Block, p[1], p[2])
        BY <3>2
      <4>2. p[1] \in Xs /\ p[2] \in Ys /\ Block \in Glyphs
        BY ConsoleAssumption
      <4> QED BY <1>1, <4>1, <4>2, DrawShows, ScreenAssumption
    <3> QED BY <1>2, <3>1, <3>2 DEF DrawLogo
  <2> QED BY <2>1, <2>2, ConsoleIdle
<1>3. CASE Output
  <2>1. pc' = "idle" /\ lagged' = FALSE
    BY <1>1, <1>3 DEF Output, keyboardVars
  <2>2. vga' \in Screens
    BY <1>1, <1>3, PrintShows, ClearShows, ScreenAssumption DEF Output, vga_prints, Clear
  <2> QED BY <2>1, <2>2, ConsoleIdle
<1>4. CASE Ask
  BY <1>4, ConsoleAsk
<1>5. CASE Type
  <2>1. PICK key \in CharKeys : Keyboard!PressKey(key)
    BY <1>5 DEF Type
  <2>2. UNCHANGED <<vga, booting, blinking, tab_erased, i, s, pc>>
    BY <1>5, <2>1 DEF Type, Keyboard!PressKey
  <2>3. ~Keyboard!Behind
    BY <1>5 DEF Type, Waiting, Keyboard!Behind, Keyboard!buf, Keyboard!NUL, NUL
  <2>4. lagged' = FALSE
    BY <1>1, <2>1, <2>3 DEF Keyboard!PressKey
  <2> QED BY <2>2, <2>4, ConsoleStays
<1>6. CASE Echo
  BY <1>6, ConsoleEcho
<1>7. CASE EraseEcho
  BY <1>7, ConsoleEraseEcho
<1>8. CASE Look
  <2>1. CASE Keyboard!Done
    <3>1. pc' = "idle" /\ lagged' = FALSE /\ vga' \in Screens
      BY <1>1, <1>8, <2>1 DEF Look, Keyboard!Done, Keyboard!Goto, Keyboard!history
    <3> QED BY <3>1, ConsoleIdle
  <2>2. CASE ~Keyboard!Done
    <3>1. /\ UNCHANGED <<vga, booting, blinking, tab_erased, i, s>> /\ pc # "idle"
          /\ lagged' = FALSE
      BY <1>1, <1>8, <2>2 DEF Look, Keyboard!SeeKey, Keyboard!CheckEnter, Keyboard!CheckBackspace,
        Keyboard!Erase, Keyboard!Goto, Keyboard!history
    <3> QED BY <3>1, ConsoleStays
  <2> QED BY <2>1, <2>2
<1>9. CASE UNCHANGED allVars
  <2>1. UNCHANGED <<vga, booting, blinking, tab_erased, i, s, pc>> /\ lagged' = FALSE
    BY <1>1, <1>9 DEF allVars, keyboardVars
  <2> QED BY <2>1, ConsoleStays
<1> QED BY <1>2, <1>3, <1>4, <1>5, <1>6, <1>7, <1>8, <1>9 DEF ConsoleNext

(* The inductive invariant of kgets and the screen together.               *)
THEOREM ConsoleInvariant == ConsoleSpec => [](KP!KeyboardInv /\ ConsoleInv)
<1>1. ConsoleInit => KP!KeyboardInv /\ ConsoleInv
  BY KeyboardKeeps, ConsoleStart
<1>2. KP!KeyboardInv /\ ConsoleInv /\ [ConsoleNext]_allVars => KP!KeyboardInv' /\ ConsoleInv'
  BY KeyboardKeeps, ConsoleKeeps
<1> QED BY <1>1, <1>2, PTL DEF ConsoleSpec

(* Whenever kgets waits or returns, its prompt and the line that has been  *)
(* edited stand before the cursor, for every size of the screen, every     *)
(* length of the buffer and every keyboard.                                *)
THEOREM ConsoleEchoIsLine == ConsoleSpec => []EchoIsLine
<1>1. KP!KeyboardInv /\ ConsoleInv => EchoIsLine
  <2> SUFFICES ASSUME KP!KeyboardInv, ConsoleInv, Waiting \/ pc = "done", ~tab_erased
               PROVE  blinking = vga_update_cursor(vga) /\ Stand(PromptAnd(typed), vga)
    BY DEF EchoIsLine
  <2>1. Got = typed
    BY GotIsTyped DEF ConsoleInv
  <2>2. pc # "idle"
    BY DEF Waiting
  <2> QED BY <2>1, <2>2 DEF ConsoleInv
<1> QED BY <1>1, ConsoleInvariant, PTL

=============================================================================
