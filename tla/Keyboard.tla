------------------------------ MODULE Keyboard -------------------------------
(***************************************************************************)
(* The keyboard interrupt handler (drivers/keyboard.c), which fills        *)
(* keyboard_input_buffer, and kgets (lib/io.c), which reads a line from it *)
(* in a task. The handler has interrupts off and is one step; it may come  *)
(* between any two accesses of kgets to the buffer, which has no lock. The *)
(* two sides keep an index each, and both move it back for a backspace.    *)
(* The F12 key, which only sets a flag for kernel_task, is in KernelShell. *)
(***************************************************************************)
EXTENDS Integers, SequencesExt

CONSTANTS
  BufferSize,               \* 1024
  CharKeys,                 \* the scancodes of pressed keys other than shift and F12
  scancode_to_ascii,        \* their characters, and
  scancode_to_ascii_shifted \* those with shift

NUL == "\\0"
BS  == "\\b"
NL  == "\\n"
Codes == UNION {{scancode_to_ascii[k], scancode_to_ascii_shifted[k]} : k \in CharKeys}
Chars == Codes \cup {NUL, BS, NL}
Letters == Chars \ {NUL, BS, NL}

ASSUME KeyboardAssumption ==
  /\ BufferSize \in Nat /\ BufferSize >= 2
  /\ scancode_to_ascii \in [CharKeys -> STRING]
  /\ scancode_to_ascii_shifted \in [CharKeys -> STRING]

Top == BufferSize - 1
Cells == 0 .. Top

VARIABLES
  keyboard_input_buffer, keyboard_buffer_index, shift_key_pressed,
  pc,      \* where kgets is; "idle" when its caller is elsewhere
  i, s,    \* its index and the caller's string
  \* History, since kgets emptied the buffer:
  typed,   \* the line as the user has edited it, up to Enter
  entered, \* was Enter taken?
  backed,  \* was backspace pressed?
  lagged   \* did a key arrive before kgets was done with the one before it?

driver  == <<keyboard_input_buffer, keyboard_buffer_index, shift_key_pressed>>
history == <<typed, entered, backed, lagged>>
vars == <<driver, pc, i, s, history>>

buf == keyboard_input_buffer

Empty == [c \in Cells |-> NUL]

(* keyboard_init, in the boot code.                                        *)
Init ==
  /\ keyboard_input_buffer = Empty /\ keyboard_buffer_index = 0
  /\ shift_key_pressed = FALSE
  /\ pc = "idle" /\ i = 0 /\ s = Empty
  /\ typed = <<>> /\ entered = FALSE /\ backed = FALSE /\ lagged = FALSE

-----------------------------------------------------------------------------
(* keyboard_interrupt_handler                                              *)

(* Definitions named ...Slip are the one that follows with a mistake in it;*)
(* the properties are checked to notice it.                                *)

(* Shift only changes the table.                                           *)
Shift(down) ==
  /\ shift_key_pressed' = down
  /\ UNCHANGED <<keyboard_input_buffer, keyboard_buffer_index, pc, i, s, history>>

Ascii(key) ==
  IF shift_key_pressed THEN scancode_to_ascii_shifted[key] ELSE scancode_to_ascii[key]

(* A backspace is left in the buffer for the reader and steps back, so that*)
(* the next key overwrites the last character.                             *)
TakesBackspace == keyboard_buffer_index > 0
Backspace ==
  /\ keyboard_input_buffer' = [buf EXCEPT ![keyboard_buffer_index] = BS]
  /\ keyboard_buffer_index' = keyboard_buffer_index - 1

(* When the buffer is full the key is dropped, Enter too.                  *)
TakesChar == keyboard_buffer_index < Top
Character(c) ==
  /\ keyboard_input_buffer' = [buf EXCEPT ![keyboard_buffer_index] = c]
  /\ keyboard_buffer_index' = keyboard_buffer_index + 1

(* kgets is behind: it has not yet come to wait for the next key.          *)
Behind == pc # "idle" /\ ~(pc = "wait" /\ buf[i] = NUL)

Edit(c) ==
  /\ typed' = IF entered \/ c = NL THEN typed
              ELSE IF c = BS THEN Front(typed) ELSE Append(typed, c)
  /\ entered' = (entered \/ c = NL)
  /\ backed' = (backed \/ c = BS)

(* Any other key that is pressed. Keys without a character do nothing, nor *)
(* do 0xE0 and the release of a key.                                       *)
PressKey(key) ==
  LET c == Ascii(key) IN
  /\ c # NUL
  /\ \/ c = BS /\ TakesBackspace /\ Backspace
     \/ c # BS /\ TakesChar /\ Character(c)
  /\ Edit(c)
  /\ lagged' = (lagged \/ Behind)
  /\ UNCHANGED <<shift_key_pressed, pc, i, s>>

Interrupt ==
  \/ \E down \in BOOLEAN : Shift(down)
  \/ \E key \in CharKeys : PressKey(key)

-----------------------------------------------------------------------------
(* kgets                                                                   *)

Goto(from, to) == pc = from /\ pc' = to

ResetSlip == keyboard_buffer_index' = 0 /\ UNCHANGED keyboard_input_buffer
Reset == keyboard_buffer_index' = 0 /\ keyboard_input_buffer' = Empty

(* kgets, called with a cleared string, empties the buffer.                *)
Begin ==
  /\ Goto("idle", "wait")
  /\ Reset
  /\ UNCHANGED <<i, s>>
  /\ typed' = <<>> /\ entered' = FALSE /\ backed' = FALSE /\ lagged' = FALSE
  /\ UNCHANGED shift_key_pressed

(* Each look at the buffer is a step.                                      *)
SeeKey ==
  /\ buf[i] # NUL
  /\ Goto("wait", "enter?")
  /\ UNCHANGED <<driver, i, s, history>>

CheckEnter ==
  /\ \/ buf[i] = NL /\ Goto("enter?", "done")
     \/ buf[i] # NL /\ Goto("enter?", "backspace?")
  /\ UNCHANGED <<driver, i, s, history>>

CheckBackspace ==
  /\ \/ buf[i] = BS /\ i > 0 /\ Goto("backspace?", "erase")
     \/ buf[i] = BS /\ i = 0 /\ Goto("backspace?", "wait")
     \/ buf[i] # BS /\ Goto("backspace?", "store")
  /\ UNCHANGED <<driver, i, s, history>>

Erase ==
  /\ Goto("erase", "step back")
  /\ keyboard_input_buffer' = [buf EXCEPT ![i] = NUL]
  /\ UNCHANGED <<keyboard_buffer_index, shift_key_pressed, i, s, history>>

StepBackSlip ==
  /\ Goto("step back", "wait")
  /\ i' = i - 1
  /\ s' = [s EXCEPT ![i'] = NUL]
  /\ UNCHANGED <<driver, history>>
StepBack ==
  /\ Goto("step back", "wait")
  /\ i' = i - 1
  /\ keyboard_input_buffer' = [buf EXCEPT ![i'] = NUL]
  /\ s' = [s EXCEPT ![i'] = NUL]
  /\ UNCHANGED <<keyboard_buffer_index, shift_key_pressed, history>>

Store ==
  /\ Goto("store", "wait")
  /\ s' = [s EXCEPT ![i] = buf[i]]
  /\ i' = IF i < Top THEN i + 1 ELSE i
  /\ UNCHANGED <<driver, history>>

(* The caller acts on the line and forgets it.                             *)
Done ==
  /\ Goto("done", "idle")
  /\ i' = 0 /\ s' = Empty
  /\ UNCHANGED <<driver, history>>

kgets == SeeKey \/ CheckEnter \/ CheckBackspace \/ Erase \/ StepBack \/ Store

Next == Interrupt \/ Begin \/ kgets \/ Done

Spec == Init /\ [][Next]_vars

(* The scheduler gives the task that calls kgets the CPU again and again.  *)
FairSpec == Spec /\ WF_vars(kgets)

-----------------------------------------------------------------------------
(* Properties                                                              *)

(* Every variable has its type; the two indices stay in the buffer.        *)
TypeOK ==
  /\ keyboard_input_buffer \in [Cells -> Chars]
  /\ keyboard_buffer_index \in Cells
  /\ shift_key_pressed \in BOOLEAN
  /\ pc \in {"idle", "wait", "enter?", "backspace?", "erase", "step back", "store", "done"}
  /\ i \in Cells
  /\ s \in [Cells -> Chars]
  /\ typed \in Seq(Letters)
  /\ entered \in BOOLEAN /\ backed \in BOOLEAN /\ lagged \in BOOLEAN

Line == [k \in 1 .. Len(typed) |-> s[k - 1]]

(* The string kgets returns is what the user typed and edited.             *)
LineIsTyped ==
  pc = "done" => Line = typed /\ s[Len(typed)] = NUL

(* That holds as long as kgets is done with each key before the next.      *)
LineIsTypedInStep == ~lagged => LineIsTyped

(* Without backspaces a line is never garbled nor cut, however far kgets is*)
(* behind.                                                                 *)
NoBackspaceNoLoss == ~backed => LineIsTyped

(* What holds of the indices however far kgets is behind.                  *)
Indices ==
  /\ ~entered => keyboard_buffer_index = Len(typed)
  /\ pc \in {"erase", "step back"} => i > 0
  /\ pc = "idle" => i = 0 /\ s = Empty

(* The string holds the first n characters of the line, and what is behind *)
(* i is clear.                                                             *)
Copied(n) == \A k \in Cells : (k < n => s[k] = typed[k + 1]) /\ (k >= i => s[k] = NUL)

(* Without backspaces the buffer holds the line, and its end if Enter was  *)
(* taken; kgets has copied a part of it.                                   *)
Buffered ==
  /\ \A k \in Cells : k < Len(typed) => buf[k] = typed[k + 1]
  /\ IF entered THEN Len(typed) < keyboard_buffer_index /\ buf[Len(typed)] = NL
     ELSE \A k \in Cells : k >= Len(typed) => buf[k] = NUL

NoLoss ==
  pc # "idle" /\ ~backed =>
    /\ Buffered /\ i <= Len(typed) /\ Copied(i)
    /\ pc \in {"backspace?", "store"} => i < Len(typed)
    /\ pc = "enter?" => i < Len(typed) \/ entered
    /\ pc = "done" => i = Len(typed) /\ entered
    /\ pc \notin {"erase", "step back"}

(* In step, at most one key is in the buffer that kgets is not done with.  *)
Quiet == pc = "wait" /\ buf[i] = NUL /\ ~entered /\ Len(typed) = i /\ Copied(i)

CharPending ==
  /\ pc \in {"wait", "enter?", "backspace?", "store"}
  /\ ~entered /\ Len(typed) = i + 1 /\ i < Top /\ buf[i] = typed[i + 1] /\ Copied(i)

EnterPending ==
  pc \in {"wait", "enter?", "done"} /\ entered /\ Len(typed) = i /\ buf[i] = NL /\ Copied(i)

BackPending ==
  /\ pc \in {"wait", "enter?", "backspace?", "erase", "step back"}
  /\ ~entered /\ i > 0 /\ Len(typed) = i - 1 /\ Copied(i - 1)
  /\ buf[i] = IF pc = "step back" THEN NUL ELSE BS

InStep ==
  pc # "idle" /\ ~lagged =>
    /\ \A k \in Cells : k > i => buf[k] = NUL
    /\ Quiet \/ CharPending \/ EnterPending \/ BackPending

(* The inductive invariant.                                                *)
KeyboardInv == TypeOK /\ Indices /\ NoLoss /\ InStep

(* Once Enter is in the buffer, kgets returns, if it keeps in step.        *)
EnterReturns == pc = "wait" /\ entered ~> pc = "done" \/ lagged

=============================================================================
