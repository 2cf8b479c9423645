--------------------------- MODULE KeyboardProofs ----------------------------
(***************************************************************************)
(* Proofs about Keyboard, for every size of the buffer and every keyboard: *)
(* what kgets returns, when it may be far behind and when it keeps in step.*)
(***************************************************************************)
EXTENDS Keyboard, SequenceTheorems, TLAPS

LEMMA CellsType == Cells \subseteq Nat /\ 0 \in Cells /\ Top \in Nat /\ Top \in Cells /\ 1 <= Top
                   /\ \A k \in Cells : k <= Top /\ (k < Top => k + 1 \in Cells) /\ (k > 0 => k - 1 \in Cells)
  BY KeyboardAssumption DEF Cells, Top

LEMMA Types ==
  ASSUME TypeOK
  PROVE  /\ buf \in [Cells -> Chars] /\ s \in [Cells -> Chars]
         /\ keyboard_buffer_index \in Cells /\ i \in Cells
         /\ typed \in Seq(Letters) /\ Len(typed) \in Nat
         /\ \A k \in 1 .. Len(typed) : typed[k] \in Letters
  <1>1. /\ buf \in [Cells -> Chars] /\ s \in [Cells -> Chars]
        /\ keyboard_buffer_index \in Cells /\ i \in Cells
        /\ typed \in Seq(Letters)
    BY DEF TypeOK, buf
  <1>2. Len(typed) \in Nat /\ \A k \in 1 .. Len(typed) : typed[k] \in Letters
    BY <1>1
  <1>3. QED
    BY <1>1, <1>2

LEMMA KeyboardStart == Init => KeyboardInv
  <1> SUFFICES ASSUME Init PROVE KeyboardInv
    OBVIOUS
  <1>1. TypeOK
    <2>1. Empty \in [Cells -> Chars]
      BY DEF Empty, Chars
    <2>2. typed \in Seq(Letters)
      BY DEF Init
    <2>3. QED
      BY <2>1, <2>2, CellsType DEF Init, TypeOK
  <1>2. Indices
    BY DEF Init, Indices
  <1>3. NoLoss /\ InStep
    BY DEF Init, NoLoss, InStep
  <1>4. QED
    BY <1>1, <1>2, <1>3 DEF KeyboardInv

-----------------------------------------------------------------------------
(* What a key does: a backspace, Enter, or another character.              *)
LEMMA AppendFacts ==
  ASSUME NEW c \in Letters, typed \in Seq(Letters)
  PROVE  /\ Append(typed, c) \in Seq(Letters) /\ Len(Append(typed, c)) = Len(typed) + 1
         /\ Append(typed, c)[Len(typed) + 1] = c
         /\ \A k \in 1 .. Len(typed) : Append(typed, c)[k] = typed[k]
  BY AppendProperties

LEMMA SubSeqFacts ==
  ASSUME NEW S, NEW t \in Seq(S), NEW n \in Nat, n < Len(t)
  PROVE  /\ SubSeq(t, 1, n) \in Seq(S) /\ Len(SubSeq(t, 1, n)) = n
         /\ \A k \in 1 .. n : SubSeq(t, 1, n)[k] = t[k]
  <1>1. 1 \in Int /\ n \in Int /\ \A k \in 1 .. n : t[k] \in S
    OBVIOUS
  <1>2. SubSeq(t, 1, n) \in Seq(S)
    BY <1>1, SubSeqProperties
  <1>3. Len(SubSeq(t, 1, n)) = n
    BY <1>1
  <1>4. \A k \in 1 .. n : SubSeq(t, 1, n)[k] = t[k]
    BY <1>1
  <1>5. QED
    BY <1>2, <1>3, <1>4

LEMMA FrontFacts ==
  ASSUME typed \in Seq(Letters), Len(typed) > 0
  PROVE  /\ Front(typed) \in Seq(Letters) /\ Len(Front(typed)) = Len(typed) - 1
         /\ \A k \in 1 .. (Len(typed) - 1) : Front(typed)[k] = typed[k]
  <1>1. Len(typed) - 1 \in Nat /\ Len(typed) - 1 < Len(typed)
    OBVIOUS
  <1>2. QED
    BY <1>1, SubSeqFacts DEF Front

LEMMA KeyFacts ==
  ASSUME TypeOK, Indices, NEW key \in CharKeys, PressKey(key)
  PROVE  LET c == Ascii(key) IN
         /\ UNCHANGED <<shift_key_pressed, pc, i, s>>
         /\ lagged' = (lagged \/ Behind)
         /\ entered' = (entered \/ c = NL)
         /\ backed' = (backed \/ c = BS)
         /\ \/ /\ c = BS /\ keyboard_buffer_index > 0
               /\ buf' = [buf EXCEPT ![keyboard_buffer_index] = BS]
               /\ keyboard_buffer_index' = keyboard_buffer_index - 1
            \/ /\ c \in Letters \cup {NL} /\ keyboard_buffer_index < Top
               /\ buf' = [buf EXCEPT ![keyboard_buffer_index] = c]
               /\ keyboard_buffer_index' = keyboard_buffer_index + 1
         /\ entered \/ c = NL => typed' = typed
         /\ ~entered /\ c = BS => /\ Len(typed) > 0 /\ typed' \in Seq(Letters)
                                  /\ Len(typed') = Len(typed) - 1
                                  /\ \A k \in 1 .. (Len(typed) - 1) : typed'[k] = typed[k]
         /\ ~entered /\ c \in Letters => /\ typed' \in Seq(Letters) /\ Len(typed') = Len(typed) + 1
                                         /\ typed'[Len(typed) + 1] = c
                                         /\ \A k \in 1 .. Len(typed) : typed'[k] = typed[k]
  <1> DEFINE c == Ascii(key)
  <1>1. c \in Codes
    BY DEF Ascii, Codes
  <1>2. c \in Letters \cup {NL, BS} /\ NL # BS /\ NL \notin Letters /\ BS \notin Letters
    BY <1>1 DEF PressKey, Letters, Chars, NL, BS, NUL
  <1>3. /\ UNCHANGED <<shift_key_pressed, pc, i, s>> /\ lagged' = (lagged \/ Behind)
        /\ entered' = (entered \/ c = NL) /\ backed' = (backed \/ c = BS)
    BY DEF PressKey, Edit
  <1>4. typed' = IF entered \/ c = NL THEN typed
                 ELSE IF c = BS THEN Front(typed) ELSE Append(typed, c)
    BY DEF PressKey, Edit
  <1>5. \/ c = BS /\ TakesBackspace /\ Backspace
        \/ c # BS /\ TakesChar /\ Character(c)
    BY DEF PressKey
  <1>6. \/ /\ c = BS /\ keyboard_buffer_index > 0
           /\ buf' = [buf EXCEPT ![keyboard_buffer_index] = BS]
           /\ keyboard_buffer_index' = keyboard_buffer_index - 1
        \/ /\ c \in Letters \cup {NL} /\ keyboard_buffer_index < Top
           /\ buf' = [buf EXCEPT ![keyboard_buffer_index] = c]
           /\ keyboard_buffer_index' = keyboard_buffer_index + 1
    BY <1>2, <1>5 DEF TakesBackspace, Backspace, TakesChar, Character, buf
  <1>7. typed \in Seq(Letters) /\ (~entered => keyboard_buffer_index = Len(typed))
    BY DEF TypeOK, Indices
  <1>8. ~entered /\ c = BS => /\ Len(typed) > 0 /\ typed' \in Seq(Letters)
                              /\ Len(typed') = Len(typed) - 1
                              /\ \A k \in 1 .. (Len(typed) - 1) : typed'[k] = typed[k]
    <2> SUFFICES ASSUME ~entered, c = BS
                 PROVE  /\ Len(typed) > 0 /\ typed' \in Seq(Letters)
                        /\ Len(typed') = Len(typed) - 1
                        /\ \A k \in 1 .. (Len(typed) - 1) : typed'[k] = typed[k]
      OBVIOUS
    <2>1. typed' = Front(typed)
      BY <1>2, <1>4
    <2>2. Len(typed) > 0
      BY <1>2, <1>6, <1>7
    <2>3. QED
      BY <1>7, <2>1, <2>2, FrontFacts
  <1>9. ~entered /\ c \in Letters => /\ typed' \in Seq(Letters) /\ Len(typed') = Len(typed) + 1
                                     /\ typed'[Len(typed) + 1] = c
                                     /\ \A k \in 1 .. Len(typed) : typed'[k] = typed[k]
    <2> SUFFICES ASSUME ~entered, c \in Letters PROVE typed' = Append(typed, c)
      BY <1>7, AppendFacts
    <2>1. QED
      BY <1>2, <1>4
  <1>10. entered \/ c = NL => typed' = typed
    BY <1>4
  <1> HIDE DEF c
  <1>11. QED
    BY <1>3, <1>6, <1>8, <1>9, <1>10 DEF c

-----------------------------------------------------------------------------
(* The keyboard interrupt.                                                 *)

LEMMA ShiftKeeps == ASSUME KeyboardInv, NEW down \in BOOLEAN, Shift(down) PROVE KeyboardInv'
  <1>1. /\ UNCHANGED <<keyboard_input_buffer, keyboard_buffer_index, pc, i, s>>
        /\ UNCHANGED <<typed, entered, backed, lagged>> /\ shift_key_pressed' = down
    BY DEF Shift, history
  <1>2. TypeOK' /\ Indices' /\ NoLoss'
    BY <1>1 DEF KeyboardInv, TypeOK, Indices, NoLoss, Buffered, Copied, buf
  <1>3. InStep'
    BY <1>1 DEF KeyboardInv, InStep, Quiet, CharPending, EnterPending, BackPending, Copied, buf
  <1>4. QED
    BY <1>2, <1>3 DEF KeyboardInv

LEMMA KeyTypes == ASSUME TypeOK, Indices, NEW key \in CharKeys, PressKey(key) PROVE TypeOK' /\ Indices'
  <1> DEFINE c == Ascii(key)
  <1>1. /\ UNCHANGED <<shift_key_pressed, pc, i, s>>
        /\ lagged' = (lagged \/ Behind) /\ entered' = (entered \/ c = NL) /\ backed' = (backed \/ c = BS)
    BY KeyFacts
  <1>2. /\ c \in Letters \cup {NL, BS}
        /\ \/ /\ c = BS /\ keyboard_buffer_index > 0
              /\ buf' = [buf EXCEPT ![keyboard_buffer_index] = BS]
              /\ keyboard_buffer_index' = keyboard_buffer_index - 1
           \/ /\ c \in Letters \cup {NL} /\ keyboard_buffer_index < Top
              /\ buf' = [buf EXCEPT ![keyboard_buffer_index] = c]
              /\ keyboard_buffer_index' = keyboard_buffer_index + 1
    BY KeyFacts
  <1>3. /\ entered \/ c = NL => typed' = typed
        /\ ~entered /\ c = BS => typed' \in Seq(Letters) /\ Len(typed') = Len(typed) - 1
        /\ ~entered /\ c \in Letters => typed' \in Seq(Letters) /\ Len(typed') = Len(typed) + 1
    BY KeyFacts
  <1> HIDE DEF c
  <1>4. NL # BS /\ NL \notin Letters /\ BS \notin Letters /\ Letters \cup {NL, BS} \subseteq Chars
    BY DEF Letters, Chars, NL, BS, NUL
  <1>5. typed' \in Seq(Letters)
    BY <1>2, <1>3, Types
  <1>6. keyboard_buffer_index' \in Cells
    BY <1>2, Types, CellsType
  <1>7. buf' \in [Cells -> Chars]
    BY <1>2, <1>4, Types
  <1>8. lagged' \in BOOLEAN /\ entered' \in BOOLEAN /\ backed' \in BOOLEAN
    BY <1>1 DEF TypeOK
  <1>9. TypeOK'
    BY <1>1, <1>5, <1>6, <1>7, <1>8 DEF TypeOK, buf
  <1>10. ~entered' => keyboard_buffer_index' = Len(typed)'
    BY <1>1, <1>2, <1>3, <1>4, Types DEF Indices
  <1>11. QED
    BY <1>1, <1>9, <1>10 DEF Indices

LEMMA KeyNoLoss ==
  ASSUME TypeOK, Indices, NoLoss, NEW key \in CharKeys, PressKey(key) PROVE NoLoss'
  <1> DEFINE c == Ascii(key)
  <1>1. /\ UNCHANGED <<shift_key_pressed, pc, i, s>>
        /\ entered' = (entered \/ c = NL) /\ backed' = (backed \/ c = BS)
    BY KeyFacts
  <1>2. \/ c = BS
        \/ /\ c \in Letters \cup {NL} /\ keyboard_buffer_index < Top
           /\ buf' = [buf EXCEPT ![keyboard_buffer_index] = c]
           /\ keyboard_buffer_index' = keyboard_buffer_index + 1
    BY KeyFacts
  <1>3. /\ entered \/ c = NL => typed' = typed
        /\ ~entered /\ c \in Letters => /\ Len(typed') = Len(typed) + 1 /\ typed'[Len(typed) + 1] = c
                                        /\ \A k \in 1 .. Len(typed) : typed'[k] = typed[k]
    BY KeyFacts
  <1> HIDE DEF c
  <1>4. NL # BS /\ NL \notin Letters /\ BS \notin Letters
    BY DEF Letters, NL, BS, NUL
  <1> SUFFICES ASSUME pc # "idle", ~backed'
               PROVE  /\ Buffered' /\ i <= Len(typed') /\ Copied(i)'
                      /\ pc \in {"backspace?", "store"} => i < Len(typed')
                      /\ pc = "enter?" => i < Len(typed') \/ entered'
                      /\ pc = "done" => i = Len(typed') /\ entered'
                      /\ pc \notin {"erase", "step back"}
    BY <1>1 DEF NoLoss
  <1>5. /\ Buffered /\ i <= Len(typed) /\ Copied(i)
        /\ pc \in {"backspace?", "store"} => i < Len(typed)
        /\ pc = "enter?" => i < Len(typed) \/ entered
        /\ pc = "done" => i = Len(typed) /\ entered
        /\ pc \notin {"erase", "step back"}
    BY <1>1 DEF NoLoss
  <1>6. /\ c \in Letters \cup {NL} /\ keyboard_buffer_index < Top
        /\ buf' = [buf EXCEPT ![keyboard_buffer_index] = c]
        /\ keyboard_buffer_index' = keyboard_buffer_index + 1
    BY <1>1, <1>2
  <1>7. i \in Nat /\ Len(typed) \in Nat /\ keyboard_buffer_index \in Nat
    BY Types, CellsType
  <1>8. /\ \A k \in Cells : k < Len(typed) => buf[k] = typed[k + 1]
        /\ entered => Len(typed) < keyboard_buffer_index /\ buf[Len(typed)] = NL
        /\ ~entered => /\ keyboard_buffer_index = Len(typed)
                       /\ \A k \in Cells : k >= Len(typed) => buf[k] = NUL
    BY <1>5 DEF Buffered, Indices
  <1>9. \A k \in Cells : (buf')[k] = IF k = keyboard_buffer_index THEN c ELSE buf[k]
    BY <1>6, Types
  <1>10. \A k \in Cells : (k < i => s[k] = typed[k + 1]) /\ (k >= i => s[k] = NUL)
    BY <1>5 DEF Copied
  <1>11. CASE entered
    <2>1. typed' = typed /\ entered'
      BY <1>1, <1>3, <1>11
    <2>2. Len(typed) \in Cells
      BY <1>6, <1>7, <1>8, <1>11, CellsType DEF Cells
    <2>3. (buf')[Len(typed)] = NL /\ Len(typed) < keyboard_buffer_index'
      BY <1>6, <1>7, <1>8, <1>9, <1>11, <2>2
    <2>4. \A k \in Cells : k < Len(typed) => (buf')[k] = typed[k + 1]
      <3> SUFFICES ASSUME NEW k \in Cells, k < Len(typed) PROVE (buf')[k] = typed[k + 1]
        OBVIOUS
      <3>1. k # keyboard_buffer_index
        BY <1>7, <1>8, <1>11, CellsType
      <3>2. QED
        BY <1>8, <1>9, <3>1
    <2>5. Buffered' /\ Copied(i)'
      BY <1>1, <1>10, <2>1, <2>3, <2>4 DEF Buffered, Copied
    <2>6. QED
      BY <1>5, <2>1, <2>5
  <1>12. CASE ~entered /\ c = NL
    <2>1. typed' = typed /\ entered'
      BY <1>1, <1>3, <1>12
    <2>2. (buf')[Len(typed)] = NL /\ Len(typed) < keyboard_buffer_index'
      BY <1>6, <1>7, <1>8, <1>9, <1>12, Types
    <2>3. \A k \in Cells : k < Len(typed) => (buf')[k] = typed[k + 1]
      BY <1>7, <1>8, <1>9, <1>12, CellsType
    <2>4. Buffered' /\ Copied(i)'
      BY <1>1, <1>10, <2>1, <2>2, <2>3 DEF Buffered, Copied
    <2>5. QED
      BY <1>5, <2>1, <2>4
  <1>13. CASE ~entered /\ c \in Letters
    <2>1. /\ Len(typed') = Len(typed) + 1 /\ typed'[Len(typed) + 1] = c /\ ~entered'
          /\ \A k \in Cells : k < Len(typed) => typed'[k + 1] = typed[k + 1]
      <3>1. /\ Len(typed') = Len(typed) + 1 /\ typed'[Len(typed) + 1] = c
            /\ \A k \in 1 .. Len(typed) : typed'[k] = typed[k]
        BY <1>3, <1>13
      <3>2. ~entered'
        BY <1>1, <1>4, <1>13
      <3>3. ASSUME NEW k \in Cells, k < Len(typed) PROVE typed'[k + 1] = typed[k + 1]
        <4>1. k + 1 \in 1 .. Len(typed)
          BY <1>7, <3>3, CellsType
        <4>2. QED
          BY <3>1, <4>1
      <3>4. QED
        BY <3>1, <3>2, <3>3
    <2>2. \A k \in Cells : k < Len(typed') => (buf')[k] = typed'[k + 1]
      <3> SUFFICES ASSUME NEW k \in Cells, k < Len(typed') PROVE (buf')[k] = typed'[k + 1]
        OBVIOUS
      <3>1. CASE k = Len(typed)
        BY <1>8, <1>9, <1>13, <2>1, <3>1
      <3>2. CASE k < Len(typed)
        BY <1>7, <1>8, <1>9, <1>13, <2>1, <3>2
      <3>3. QED
        BY <1>7, <2>1, <3>1, <3>2, CellsType
    <2>3. \A k \in Cells : k >= Len(typed') => (buf')[k] = NUL
      <3> SUFFICES ASSUME NEW k \in Cells, k >= Len(typed') PROVE (buf')[k] = NUL
        OBVIOUS
      <3>1. k >= Len(typed) + 1 /\ k \in Nat
        BY <2>1, CellsType
      <3>2. k >= Len(typed) /\ k # Len(typed)
        BY ONLY <1>7, <3>1
      <3>3. keyboard_buffer_index = Len(typed) /\ buf[k] = NUL
        BY <1>8, <1>13, <3>2
      <3>4. QED
        BY <1>9, <3>2, <3>3
    <2>4. Buffered'
      BY <2>1, <2>2, <2>3 DEF Buffered
    <2>5. \A k \in Cells : k < i => s[k] = typed'[k + 1]
      <3> SUFFICES ASSUME NEW k \in Cells, k < i PROVE s[k] = typed'[k + 1]
        OBVIOUS
      <3>1. k \in Nat /\ i <= Len(typed)
        BY <1>5, CellsType
      <3>2. k < Len(typed)
        BY <1>7, <3>1
      <3>3. QED
        BY <1>10, <2>1, <3>2
    <2>6. Copied(i)'
      BY <1>1, <1>10, <2>5 DEF Copied
    <2>7. pc # "done" /\ i <= Len(typed) /\ Len(typed') = Len(typed) + 1
      BY <1>5, <1>13, <2>1
    <2>8. i < Len(typed') /\ i <= Len(typed')
      BY ONLY <1>7, <2>7
    <2>9. QED
      BY <1>5, <2>4, <2>6, <2>7, <2>8
  <1>14. QED
    BY <1>6, <1>11, <1>12, <1>13

LEMMA KeyInStep ==
  ASSUME TypeOK, Indices, InStep, NEW key \in CharKeys, PressKey(key) PROVE InStep'
  <1> DEFINE c == Ascii(key)
  <1>1. /\ UNCHANGED <<shift_key_pressed, pc, i, s>>
        /\ lagged' = (lagged \/ Behind) /\ entered' = (entered \/ c = NL)
    BY KeyFacts
  <1>2. \/ /\ c = BS /\ keyboard_buffer_index > 0
           /\ buf' = [buf EXCEPT ![keyboard_buffer_index] = BS]
        \/ /\ c \in Letters \cup {NL} /\ keyboard_buffer_index < Top
           /\ buf' = [buf EXCEPT ![keyboard_buffer_index] = c]
    BY KeyFacts
  <1>3. /\ entered \/ c = NL => typed' = typed
        /\ ~entered /\ c = BS => /\ Len(typed') = Len(typed) - 1
                                 /\ \A k \in 1 .. (Len(typed) - 1) : typed'[k] = typed[k]
        /\ ~entered /\ c \in Letters => /\ Len(typed') = Len(typed) + 1 /\ typed'[Len(typed) + 1] = c
                                        /\ \A k \in 1 .. Len(typed) : typed'[k] = typed[k]
    BY KeyFacts
  <1> HIDE DEF c
  <1>4. NL # BS /\ NL \notin Letters /\ BS \notin Letters /\ NUL \notin Letters /\ NL # NUL /\ BS # NUL
    BY DEF Letters, NL, BS, NUL
  <1> SUFFICES ASSUME pc # "idle", ~lagged'
               PROVE  /\ \A k \in Cells : k > i => (buf')[k] = NUL
                      /\ Quiet' \/ CharPending' \/ EnterPending' \/ BackPending'
    BY <1>1 DEF InStep
  <1>5. ~lagged /\ pc = "wait" /\ buf[i] = NUL
    BY <1>1 DEF Behind
  <1>6. /\ \A k \in Cells : k > i => buf[k] = NUL
        /\ Quiet
    BY <1>4, <1>5, Types DEF InStep, CharPending, EnterPending, BackPending
  <1>7. ~entered /\ Len(typed) = i /\ keyboard_buffer_index = i /\ Copied(i) /\ i \in Cells /\ i \in Nat
    BY <1>6, Types, CellsType DEF Quiet, Indices
  <1>8. /\ (buf')[i] = c /\ \A k \in Cells : k > i => (buf')[k] = NUL
    BY <1>2, <1>6, <1>7, Types, CellsType
  <1>9. \A k \in Cells : (k < i => s[k] = typed[k + 1]) /\ (k >= i => s[k] = NUL)
    BY <1>7 DEF Copied
  <1>10. CASE c = NL
    <2>1. typed' = typed /\ entered'
      BY <1>1, <1>3, <1>10
    <2>2. EnterPending'
      BY <1>1, <1>5, <1>7, <1>8, <1>10, <2>1 DEF EnterPending, Copied
    <2>3. QED
      BY <1>8, <2>2
  <1>11. CASE c \in Letters
    <2>1. /\ Len(typed') = i + 1 /\ typed'[i + 1] = c /\ ~entered' /\ i < Top
          /\ \A k \in Cells : k < i => typed'[k + 1] = typed[k + 1]
      <3>1. /\ Len(typed') = i + 1 /\ typed'[i + 1] = c
            /\ \A k \in 1 .. i : typed'[k] = typed[k]
        BY <1>3, <1>7, <1>11
      <3>2. ~entered' /\ i < Top
        BY <1>1, <1>2, <1>4, <1>7, <1>11
      <3>3. ASSUME NEW k \in Cells, k < i PROVE typed'[k + 1] = typed[k + 1]
        <4>1. k + 1 \in 1 .. i
          BY <1>7, <3>3, CellsType
        <4>2. QED
          BY <3>1, <4>1
      <3>4. QED
        BY <3>1, <3>2, <3>3
    <2>2. Copied(i)'
      BY <1>1, <1>9, <2>1 DEF Copied
    <2>3. CharPending'
      BY <1>1, <1>5, <1>8, <2>1, <2>2 DEF CharPending
    <2>4. QED
      BY <1>8, <2>3
  <1>12. CASE c = BS
    <2>1. /\ Len(typed') = i - 1 /\ ~entered' /\ i > 0
          /\ \A k \in Cells : k < i - 1 => typed'[k + 1] = typed[k + 1]
      <3>1. Len(typed') = i - 1 /\ \A k \in 1 .. (i - 1) : typed'[k] = typed[k]
        BY <1>3, <1>7, <1>12
      <3>2. ~entered' /\ i > 0
        BY <1>1, <1>2, <1>4, <1>7, <1>12
      <3>3. ASSUME NEW k \in Cells, k < i - 1 PROVE typed'[k + 1] = typed[k + 1]
        <4>1. k + 1 \in 1 .. (i - 1)
          BY <1>7, <3>3, CellsType
        <4>2. QED
          BY <3>1, <4>1
      <3>4. QED
        BY <3>1, <3>2, <3>3
    <2>2. Copied(i - 1)'
      <3>1. ASSUME NEW k \in Cells, k < i - 1 PROVE s[k] = typed'[k + 1]
        <4>1. k < i
          BY <1>7, <3>1, CellsType
        <4>2. QED
          BY <1>9, <2>1, <3>1, <4>1
      <3>2. QED
        BY <1>1, <1>9, <3>1 DEF Copied
    <2>3. BackPending'
      BY <1>1, <1>5, <1>8, <1>12, <2>1, <2>2 DEF BackPending
    <2>4. QED
      BY <1>8, <2>3
  <1>13. QED
    BY <1>2, <1>10, <1>11, <1>12

-----------------------------------------------------------------------------
(* kgets.                                                                  *)

LEMMA BeginKeeps == ASSUME KeyboardInv, Begin PROVE KeyboardInv'
  <1>1. /\ pc = "idle" /\ pc' = "wait" /\ keyboard_buffer_index' = 0 /\ buf' = Empty
        /\ UNCHANGED <<i, s, shift_key_pressed>>
        /\ typed' = <<>> /\ entered' = FALSE /\ backed' = FALSE /\ lagged' = FALSE
    BY DEF Begin, Goto, Reset, buf
  <1>2. i = 0 /\ s = Empty /\ Len(typed') = 0 /\ typed' \in Seq(Letters)
    BY <1>1 DEF KeyboardInv, Indices
  <1>3. Empty \in [Cells -> Chars] /\ \A k \in Cells : Empty[k] = NUL
    BY DEF Empty, Chars
  <1>4. TypeOK' /\ Indices'
    BY <1>1, <1>2, <1>3, CellsType DEF KeyboardInv, TypeOK, Indices, buf
  <1>5. \A k \in Cells : ~(k < 0)
    BY CellsType
  <1>6. Copied(0)' /\ Quiet'
    BY <1>1, <1>2, <1>3, <1>5, CellsType DEF Copied, Quiet
  <1>7. InStep'
    BY <1>1, <1>2, <1>3, <1>6 DEF InStep
  <1>8. Buffered'
    BY <1>1, <1>2, <1>3, <1>5 DEF Buffered
  <1>9. NoLoss'
    BY <1>1, <1>2, <1>6, <1>8 DEF NoLoss
  <1>10. QED
    BY <1>4, <1>7, <1>9 DEF KeyboardInv

(* The steps that only look at the buffer.                                 *)
LEMMA LookKeeps ==
  ASSUME KeyboardInv, SeeKey \/ CheckEnter \/ CheckBackspace
  PROVE  KeyboardInv'
  <1>1. /\ UNCHANGED <<buf, keyboard_buffer_index, shift_key_pressed, i, s>>
        /\ UNCHANGED <<typed, entered, backed, lagged>>
        /\ pc # "idle" /\ pc' # "idle"
    BY DEF SeeKey, CheckEnter, CheckBackspace, Goto, driver, history, buf
  <1>2. \/ pc = "wait" /\ pc' = "enter?" /\ buf[i] # NUL
        \/ pc = "enter?" /\ pc' = "done" /\ buf[i] = NL
        \/ pc = "enter?" /\ pc' = "backspace?" /\ buf[i] # NL
        \/ pc = "backspace?" /\ pc' = "erase" /\ buf[i] = BS /\ i > 0
        \/ pc = "backspace?" /\ pc' = "wait" /\ buf[i] = BS /\ i = 0
        \/ pc = "backspace?" /\ pc' = "store" /\ buf[i] # BS
    BY DEF SeeKey, CheckEnter, CheckBackspace, Goto
  <1>3. TypeOK' /\ Indices'
    BY <1>1, <1>2 DEF KeyboardInv, TypeOK, Indices, buf
  <1>4. NL # BS /\ NL # NUL /\ BS # NUL /\ \A c \in Letters : c \notin {NL, BS, NUL}
    BY DEF Letters, NL, BS, NUL
  <1>5. NoLoss'
    <2> SUFFICES ASSUME ~backed
                 PROVE  /\ Buffered' /\ i <= Len(typed) /\ Copied(i)'
                        /\ pc' \in {"backspace?", "store"} => i < Len(typed)
                        /\ pc' = "enter?" => i < Len(typed) \/ entered
                        /\ pc' = "done" => i = Len(typed) /\ entered
                        /\ pc' \notin {"erase", "step back"}
      BY <1>1 DEF NoLoss
    <2>1. /\ Buffered /\ i <= Len(typed) /\ Copied(i)
          /\ pc \in {"backspace?", "store"} => i < Len(typed)
          /\ pc = "enter?" => i < Len(typed) \/ entered
      BY <1>1 DEF KeyboardInv, NoLoss
    <2>2. Buffered' /\ Copied(i)'
      BY <1>1, <2>1 DEF Buffered, Copied
    <2>3. i \in Cells /\ i \in Nat /\ Len(typed) \in Nat
      BY Types, CellsType DEF KeyboardInv
    <2>4. i < Len(typed) => buf[i] \notin {NL, BS, NUL}
      <3> SUFFICES ASSUME i < Len(typed) PROVE buf[i] \in Letters
        BY <1>4
      <3>1. i + 1 \in 1 .. Len(typed)
        BY <2>3
      <3>2. QED
        BY <2>1, <2>3, <3>1, Types DEF KeyboardInv, Buffered
    <2>5. i = Len(typed) => buf[i] = IF entered THEN NL ELSE NUL
      BY <2>1, <2>3 DEF Buffered
    <2>6. i < Len(typed) \/ i = Len(typed)
      BY <2>1, <2>3
    <2>7. QED
      BY <1>2, <1>4, <2>1, <2>2, <2>4, <2>5, <2>6
  <1>6. InStep'
    <2> SUFFICES ASSUME ~lagged
                 PROVE  /\ \A k \in Cells : k > i => (buf')[k] = NUL
                        /\ Quiet' \/ CharPending' \/ EnterPending' \/ BackPending'
      BY <1>1 DEF InStep
    <2>1. \A k \in Cells : k > i => (buf')[k] = NUL
      BY <1>1 DEF KeyboardInv, InStep
    <2>2. Quiet \/ CharPending \/ EnterPending \/ BackPending
      BY <1>1 DEF KeyboardInv, InStep
    <2>3. ~Quiet
      BY <1>2 DEF Quiet
    <2>4. CASE CharPending
      <3>1. buf[i] \in Letters
        <4>1. Len(typed) = i + 1 /\ i \in Nat /\ buf[i] = typed[i + 1]
          BY <2>4, Types, CellsType DEF CharPending, KeyboardInv
        <4>2. i + 1 \in 1 .. Len(typed)
          BY <4>1
        <4>3. QED
          BY <4>1, <4>2, Types DEF KeyboardInv
      <3>2. pc' \in {"enter?", "backspace?", "store"}
        BY <1>2, <1>4, <2>4, <3>1 DEF CharPending
      <3>3. CharPending'
        BY <1>1, <2>4, <3>2 DEF CharPending, Copied
      <3>4. QED
        BY <2>1, <3>3
    <2>5. CASE EnterPending
      <3>1. pc' \in {"enter?", "done"}
        BY <1>2, <1>4, <2>5 DEF EnterPending
      <3>2. EnterPending'
        BY <1>1, <2>5, <3>1 DEF EnterPending, Copied
      <3>3. QED
        BY <2>1, <3>2
    <2>6. CASE BackPending
      <3>1. pc' \in {"enter?", "backspace?", "erase"}
        <4>1. i \in Nat
          BY Types, CellsType DEF KeyboardInv
        <4>2. buf[i] = IF pc = "step back" THEN NUL ELSE BS
          BY <2>6 DEF BackPending
        <4>3. i # 0
          <5>1. i > 0
            BY <2>6 DEF BackPending
          <5>2. QED
            BY ONLY <4>1, <5>1
        <4>4. pc # "step back"
          BY <1>2
        <4>5. QED
          BY <1>2, <1>4, <4>2, <4>3, <4>4
      <3>2. pc # "step back"
        BY <1>2
      <3>3. BackPending'
        BY <1>1, <2>6, <3>1, <3>2 DEF BackPending, Copied
      <3>4. QED
        BY <2>1, <3>3
    <2>7. QED
      BY <2>2, <2>3, <2>4, <2>5, <2>6
  <1>7. QED
    BY <1>3, <1>5, <1>6 DEF KeyboardInv

LEMMA EraseKeeps == ASSUME KeyboardInv, Erase PROVE KeyboardInv'
  <1>1. /\ pc = "erase" /\ pc' = "step back" /\ buf' = [buf EXCEPT ![i] = NUL]
        /\ UNCHANGED <<keyboard_buffer_index, shift_key_pressed, i, s>>
        /\ UNCHANGED <<typed, entered, backed, lagged>>
    BY DEF Erase, Goto, history, buf
  <1>2. buf \in [Cells -> Chars] /\ i \in Cells /\ NUL \in Chars
    BY Types DEF KeyboardInv, Chars
  <1>3. buf' \in [Cells -> Chars]
    BY <1>1, <1>2
  <1>4. TypeOK' /\ Indices'
    BY <1>1, <1>3 DEF KeyboardInv, TypeOK, Indices, buf
  <1>5. NoLoss'
    BY <1>1 DEF KeyboardInv, NoLoss
  <1>6. InStep'
    <2> SUFFICES ASSUME ~lagged
                 PROVE  (\A k \in Cells : k > i => (buf')[k] = NUL) /\ BackPending'
      BY <1>1 DEF InStep
    <2>1. (\A k \in Cells : k > i => buf[k] = NUL) /\ BackPending
      BY <1>1 DEF KeyboardInv, InStep, Quiet, CharPending, EnterPending
    <2>2. \A k \in Cells : k > i => (buf')[k] = NUL
      BY <1>1, <1>2, <2>1
    <2>3. BackPending'
      BY <1>1, <1>2, <2>1 DEF BackPending, Copied
    <2>4. QED
      BY <2>2, <2>3
  <1>7. QED
    BY <1>4, <1>5, <1>6 DEF KeyboardInv

LEMMA StepBackKeeps == ASSUME KeyboardInv, StepBack PROVE KeyboardInv'
  <1>1. /\ pc = "step back" /\ pc' = "wait" /\ i' = i - 1
        /\ buf' = [buf EXCEPT ![i'] = NUL] /\ s' = [s EXCEPT ![i'] = NUL]
        /\ UNCHANGED <<keyboard_buffer_index, shift_key_pressed>>
        /\ UNCHANGED <<typed, entered, backed, lagged>>
    BY DEF StepBack, Goto, history, buf
  <1>2. /\ buf \in [Cells -> Chars] /\ s \in [Cells -> Chars] /\ NUL \in Chars
        /\ i \in Cells /\ i > 0 /\ i \in Nat
    BY <1>1, Types, CellsType DEF KeyboardInv, Chars, Indices
  <1>3. i' \in Cells
    BY <1>1, <1>2, CellsType
  <1>4. buf' \in [Cells -> Chars] /\ s' \in [Cells -> Chars]
    BY <1>1, <1>2, <1>3
  <1>5. TypeOK' /\ Indices'
    BY <1>1, <1>3, <1>4 DEF KeyboardInv, TypeOK, Indices, buf
  <1>6. NoLoss'
    BY <1>1 DEF KeyboardInv, NoLoss
  <1>7. InStep'
    <2> SUFFICES ASSUME ~lagged
                 PROVE  (\A k \in Cells : k > i' => (buf')[k] = NUL) /\ Quiet'
      BY <1>1 DEF InStep
    <2>1. (\A k \in Cells : k > i => buf[k] = NUL) /\ BackPending
      BY <1>1 DEF KeyboardInv, InStep, Quiet, CharPending, EnterPending
    <2>2. /\ ~entered /\ Len(typed) = i - 1 /\ buf[i] = NUL
          /\ \A k \in Cells : (k < i - 1 => s[k] = typed[k + 1]) /\ (k >= i => s[k] = NUL)
      BY <1>1, <2>1 DEF BackPending, Copied
    <2>3. \A k \in Cells : k > i' => (buf')[k] = NUL
      <3> SUFFICES ASSUME NEW k \in Cells, k > i' PROVE (buf')[k] = NUL
        OBVIOUS
      <3>1. k \in Nat /\ i' \in Nat
        BY <1>3, CellsType
      <3>2. k > i - 1
        BY <1>1
      <3>3. k = i \/ k > i
        BY ONLY <1>2, <3>1, <3>2
      <3>4. QED
        BY <1>1, <1>2, <1>3, <2>1, <2>2, <3>3
    <2>4. ASSUME NEW k \in Cells
          PROVE  (k < i - 1 => (s')[k] = typed[k + 1]) /\ (k >= i - 1 => (s')[k] = NUL)
      <3>1. k \in Nat
        BY CellsType
      <3>2. (k < i - 1 => k # i - 1) /\ (k >= i - 1 => k = i - 1 \/ k >= i)
        BY ONLY <1>2, <3>1
      <3>3. (s')[k] = IF k = i - 1 THEN NUL ELSE s[k]
        BY <1>1, <1>2, <1>3
      <3>4. QED
        BY <2>2, <3>2, <3>3
    <2>5. Quiet'
      BY <1>1, <1>2, <1>3, <2>2, <2>4 DEF Quiet, Copied
    <2>6. QED
      BY <2>3, <2>5
  <1>8. QED
    BY <1>5, <1>6, <1>7 DEF KeyboardInv

LEMMA StoreKeeps == ASSUME KeyboardInv, Store PROVE KeyboardInv'
  <1>1. /\ pc = "store" /\ pc' = "wait" /\ s' = [s EXCEPT ![i] = buf[i]]
        /\ i' = IF i < Top THEN i + 1 ELSE i
        /\ UNCHANGED <<buf, keyboard_buffer_index, shift_key_pressed>>
        /\ UNCHANGED <<typed, entered, backed, lagged>>
    BY DEF Store, Goto, driver, history, buf
  <1>2. /\ buf \in [Cells -> Chars] /\ s \in [Cells -> Chars]
        /\ i \in Cells /\ i \in Nat /\ Len(typed) \in Nat /\ keyboard_buffer_index \in Cells
    BY Types, CellsType DEF KeyboardInv
  <1>3. i' \in Cells
    BY <1>1, <1>2, CellsType
  <1>4. s' \in [Cells -> Chars]
    BY <1>1, <1>2
  <1>5. TypeOK' /\ Indices'
    BY <1>1, <1>3, <1>4 DEF KeyboardInv, TypeOK, Indices, buf
  <1>6. ASSUME Copied(i), i < Top, buf[i] = typed[i + 1], i < Len(typed)
        PROVE  i' = i + 1 /\ i' <= Len(typed) /\ Copied(i)'
    <2>1. i' = i + 1 /\ i' <= Len(typed)
      BY <1>1, <1>2, <1>6
    <2>2. \A k \in Cells : (k < i => s[k] = typed[k + 1]) /\ (k >= i => s[k] = NUL)
      BY <1>6 DEF Copied
    <2>3. ASSUME NEW k \in Cells
          PROVE  (k < i' => (s')[k] = typed[k + 1]) /\ (k >= i' => (s')[k] = NUL)
      <3>1. CASE k = i
        BY <1>1, <1>2, <1>6, <2>1, <3>1
      <3>2. CASE k # i
        <4>1. (s')[k] = s[k] /\ (k < i' => k < i) /\ (k >= i' => k >= i)
          BY <1>1, <1>2, <2>1, <3>2, CellsType
        <4>2. QED
          BY <2>2, <4>1
      <3>3. QED
        BY <3>1, <3>2
    <2>4. QED
      BY <1>1, <2>1, <2>3 DEF Copied
  <1>7. NoLoss'
    <2> SUFFICES ASSUME ~backed PROVE Buffered' /\ i' <= Len(typed) /\ Copied(i)'
      BY <1>1 DEF NoLoss
    <2>1. Buffered /\ i < Len(typed) /\ Copied(i)
      BY <1>1 DEF KeyboardInv, NoLoss
    <2>2. buf[i] = typed[i + 1]
      BY <1>2, <2>1 DEF Buffered
    <2>3. Len(typed) <= keyboard_buffer_index
      <3>1. CASE entered
        BY <1>2, <2>1, <3>1, CellsType DEF Buffered
      <3>2. CASE ~entered
        <4>1. keyboard_buffer_index = Len(typed)
          BY <3>2 DEF KeyboardInv, Indices
        <4>2. QED
          BY ONLY <1>2, <4>1
      <3>3. QED
        BY <3>1, <3>2
    <2>4. i < Top
      BY <1>2, <2>1, <2>3, CellsType
    <2>5. Buffered'
      BY <1>1, <2>1 DEF Buffered
    <2>6. QED
      BY <1>6, <2>1, <2>2, <2>4, <2>5
  <1>8. InStep'
    <2> SUFFICES ASSUME ~lagged
                 PROVE  (\A k \in Cells : k > i' => (buf')[k] = NUL) /\ Quiet'
      BY <1>1 DEF InStep
    <2>1. (\A k \in Cells : k > i => buf[k] = NUL) /\ CharPending
      BY <1>1 DEF KeyboardInv, InStep, Quiet, BackPending, EnterPending
    <2>2. i < Top /\ ~entered /\ Len(typed) = i + 1 /\ buf[i] = typed[i + 1] /\ Copied(i)
      BY <2>1 DEF CharPending
    <2>3. i' = i + 1 /\ Copied(i)'
      BY <1>2, <1>6, <2>2
    <2>4. \A k \in Cells : k > i' => (buf')[k] = NUL
      BY <1>1, <1>2, <2>1, <2>3, CellsType
    <2>5. (buf')[i'] = NUL
      BY <1>1, <1>2, <1>3, <2>1, <2>3
    <2>6. Quiet'
      BY <1>1, <2>2, <2>3, <2>5 DEF Quiet
    <2>7. QED
      BY <2>4, <2>6
  <1>9. QED
    BY <1>5, <1>7, <1>8 DEF KeyboardInv

LEMMA DoneKeeps == ASSUME KeyboardInv, Done PROVE KeyboardInv'
  <1>1. /\ pc' = "idle" /\ i' = 0 /\ s' = Empty
        /\ UNCHANGED <<buf, keyboard_buffer_index, shift_key_pressed>>
        /\ UNCHANGED <<typed, entered, backed, lagged>>
    BY DEF Done, Goto, driver, history, buf
  <1>2. Empty \in [Cells -> Chars]
    BY DEF Empty, Chars
  <1>3. TypeOK' /\ Indices'
    BY <1>1, <1>2, CellsType DEF KeyboardInv, TypeOK, Indices, buf
  <1>4. NoLoss' /\ InStep'
    BY <1>1 DEF NoLoss, InStep
  <1>5. QED
    BY <1>3, <1>4 DEF KeyboardInv

LEMMA KeyboardNext == KeyboardInv /\ [Next]_vars => KeyboardInv'
  <1> SUFFICES ASSUME KeyboardInv, [Next]_vars PROVE KeyboardInv'
    OBVIOUS
  <1>1. ASSUME NEW down \in BOOLEAN, Shift(down) PROVE KeyboardInv'
    BY <1>1, ShiftKeeps
  <1>2. ASSUME NEW key \in CharKeys, PressKey(key) PROVE KeyboardInv'
    BY <1>2, KeyTypes, KeyNoLoss, KeyInStep DEF KeyboardInv
  <1>3. CASE Begin \/ Done
    BY <1>3, BeginKeeps, DoneKeeps
  <1>4. CASE kgets
    BY <1>4, LookKeeps, EraseKeeps, StepBackKeeps, StoreKeeps DEF kgets
  <1>5. CASE UNCHANGED vars
    <2>1. /\ UNCHANGED <<keyboard_input_buffer, keyboard_buffer_index, shift_key_pressed>>
          /\ UNCHANGED <<pc, i, s, typed, entered, backed, lagged>>
      BY <1>5 DEF vars, driver, history
    <2>2. TypeOK' /\ Indices' /\ NoLoss'
      BY <2>1 DEF KeyboardInv, TypeOK, Indices, NoLoss, Buffered, Copied, buf
    <2>3. InStep'
      BY <2>1 DEF KeyboardInv, InStep, Quiet, CharPending, EnterPending, BackPending, Copied, buf
    <2>4. QED
      BY <2>2, <2>3 DEF KeyboardInv
  <1>6. QED
    BY <1>1, <1>2, <1>3, <1>4, <1>5 DEF Next, Interrupt

-----------------------------------------------------------------------------
(* The inductive invariant of the keyboard and kgets.                      *)
THEOREM KeyboardInvariant == Spec => []KeyboardInv
  BY KeyboardStart, KeyboardNext, PTL DEF Spec

LEMMA CopiedLine ==
  ASSUME TypeOK, i = Len(typed), Copied(i)
  PROVE  Line = typed /\ s[Len(typed)] = NUL
  <1>1. i \in Cells /\ i \in Nat /\ typed \in Seq(Letters) /\ s \in [Cells -> Chars]
    BY Types, CellsType
  <1>2. ASSUME NEW k \in 1 .. Len(typed) PROVE s[k - 1] = typed[k]
    <2>1. k - 1 \in Cells /\ k - 1 < i /\ (k - 1) + 1 = k
      <3>1. k \in Int /\ 1 <= k /\ k <= i
        BY <1>1
      <3>2. i \in 0 .. Top /\ Top \in Nat
        BY <1>1, CellsType DEF Cells
      <3>3. k - 1 \in 0 .. Top /\ k - 1 < i /\ (k - 1) + 1 = k
        BY ONLY <3>1, <3>2
      <3>4. QED
        BY <3>3 DEF Cells
    <2>2. s[k - 1] = typed[(k - 1) + 1]
      BY <2>1 DEF Copied
    <2>3. QED
      BY <2>1, <2>2
  <1>3. Line = typed
    BY <1>1, <1>2 DEF Line
  <1>4. QED
    BY <1>1, <1>3 DEF Copied

(* Without backspaces kgets returns what was typed, however far behind it  *)
(* is (keyboard_interrupt_handler, kgets).                                 *)
THEOREM KeyboardNoBackspaceNoLoss == Spec => []NoBackspaceNoLoss
  <1>1. KeyboardInv => NoBackspaceNoLoss
    BY CopiedLine DEF KeyboardInv, NoLoss, NoBackspaceNoLoss, LineIsTyped
  <1>2. QED
    BY <1>1, KeyboardInvariant, PTL

(* With backspaces too, if it is done with each key before the next.       *)
THEOREM KeyboardLineIsTypedInStep == Spec => []LineIsTypedInStep
  <1>1. KeyboardInv => LineIsTypedInStep
    BY CopiedLine DEF KeyboardInv, InStep, Quiet, CharPending, EnterPending, BackPending,
                      LineIsTypedInStep, LineIsTyped
  <1>2. QED
    BY <1>1, KeyboardInvariant, PTL

=============================================================================
