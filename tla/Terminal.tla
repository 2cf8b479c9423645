------------------------------ MODULE Terminal -------------------------------
(***************************************************************************)
(* What a text screen promises: rows of characters and a place where the   *)
(* next one goes. Rows scroll away at the top. No memory, no addresses.    *)
(***************************************************************************)
EXTENDS Integers

CONSTANTS
  Width, Height,     \* at least 1
  Blank, Characters  \* Blank is one of Characters

VARIABLE term  \* rows, and the line and column of the next character

Lines   == 0 .. (Height - 1)
Columns == 0 .. (Width - 1)
BlankRow == [x \in Columns |-> Blank]

(* Line may be one below the last: then the rows move up.                  *)
Scrolled(rows, line, column) ==
  IF line < Height
  THEN [rows |-> rows, line |-> line, column |-> column]
  ELSE [rows |-> [y \in Lines |-> IF y < Height - 1 THEN rows[y + 1] ELSE BlankRow],
        line |-> Height - 1, column |-> 0]

Written(rows, line, column, c) ==
  [rows EXCEPT ![line] = [rows[line] EXCEPT ![column] = c]]

Cleared == [rows |-> [y \in Lines |-> BlankRow], line |-> 0, column |-> 0]

NewLine(t) == Scrolled(t.rows, t.line + 1, 0)

Put(t, c) ==
  LET rows == Written(t.rows, t.line, t.column, c)
  IN  IF t.column < Width - 1 THEN Scrolled(rows, t.line, t.column + 1)
                              ELSE Scrolled(rows, t.line + 1, 0)

(* Erasing goes back to the line above, but not beyond the first.          *)
Erase(t) ==
  LET line   == IF t.column > 0 THEN t.line ELSE t.line - 1
      column == IF t.column > 0 THEN t.column - 1 ELSE Width - 1
  IN  IF t.column = 0 /\ t.line = 0 THEN t
      ELSE [rows |-> Written(t.rows, line, column, Blank), line |-> line, column |-> column]

Tab(t) == Put(Put(Put(Put(t, Blank), Blank), Blank), Blank)

Draw(t, c, x, y) == [t EXCEPT !.rows = Written(t.rows, y, x, c)]

Init == term = Cleared

Next ==
  \/ \E c \in Characters : term' = Put(term, c)
  \/ term' = NewLine(term) \/ term' = Tab(term)
  \/ term' = Erase(term) \/ term' = Cleared
  \/ \E c \in Characters, x \in Columns, y \in Lines : term' = Draw(term, c, x, y)

Spec == Init /\ [][Next]_term

=============================================================================
