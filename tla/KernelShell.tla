----------------------------- MODULE KernelShell -----------------------------
(***************************************************************************)
(* The two tasks of the kernel on top of the scheduler of Tasking:         *)
(* kernel_task (kernel.c), which starts the shell when F12 is pressed and  *)
(* reaps ended tasks, and kshell (kshell.c), which allocates and frees     *)
(* memory, sleeps while it shows a file, and ends. They share f12_pressed, *)
(* kshell_activated and the task table, without a lock: the timer may      *)
(* switch between any two of the steps below.                              *)
(***************************************************************************)
EXTENDS Tasking

CONSTANT ShellName  \* "kshell"

ASSUME ShellAssumption == ShellName \in Names /\ ShellName # KernelName /\ 1 \in Durations

VARIABLES
  f12_pressed, kshell_activated,
  kpc,    \* the next step of kernel_task
  spc,    \* spc[i]: the next step of kshell in slot i
  blocks  \* blocks[i]: the memory the shell in slot i has allocated

shellVars == <<kshell_activated, spc, blocks>>
allVars == <<vars, f12_pressed, kpc, shellVars>>

ShellInit ==
  /\ Init
  /\ f12_pressed = FALSE /\ kshell_activated = FALSE
  /\ kpc = "boot"
  /\ spc = [j \in Slots |-> "none"]
  /\ blocks = [j \in Slots |-> {}]

-----------------------------------------------------------------------------
(* The keyboard interrupt on F12.                                          *)
PressF12 ==
  /\ ~f12_pressed
  /\ f12_pressed' = TRUE
  /\ UNCHANGED <<vars, kpc, shellVars>>

(* The timer interrupt.                                                    *)
Switch == Tick /\ UNCHANGED <<f12_pressed, kpc, shellVars>>

-----------------------------------------------------------------------------
(* kernel_task                                                             *)

Kernel(from, to) ==
  /\ Running("code") /\ current_task = 0
  /\ kpc = from /\ kpc' = to

(* The boot code enables the scheduler and calls kernel_task.              *)
Boot ==
  /\ kpc = "boot" /\ kpc' = "f12?"
  /\ tasking_init
  /\ kshell_activated' = FALSE
  /\ UNCHANGED <<f12_pressed, spc, blocks>>

CheckF12 ==
  /\ \/ f12_pressed /\ Kernel("f12?", "clear")
     \/ ~f12_pressed /\ Kernel("f12?", "reap")
  /\ UNCHANGED <<vars, f12_pressed, shellVars>>

ClearF12 ==
  /\ Kernel("clear", "active?")
  /\ f12_pressed' = FALSE
  /\ UNCHANGED <<vars, shellVars>>

CheckActive ==
  /\ \/ ~kshell_activated /\ Kernel("active?", "exec")
     \/ kshell_activated /\ Kernel("active?", "reap")
  /\ UNCHANGED <<vars, f12_pressed, shellVars>>

(* Stacks stands for the room in the heap: malloc returns NULL only when   *)
(* all are in use. kernel_task does not look at the result.                *)
CannotExec ==
  \/ NameTaken(ShellName)
  \/ \A j \in Slots : ~FirstFree(j)
  \/ Stacks \subseteq allocated

StartShell ==
  /\ Kernel("exec", "reap")
  /\ \/ \E j \in Slots :
          /\ FirstFree(j)
          /\ task_exec(ShellName)
          /\ spc' = [spc EXCEPT ![j] = "start"]
     \/ CannotExec /\ UNCHANGED <<vars, spc>>
  /\ UNCHANGED <<f12_pressed, kshell_activated, blocks>>

(* Then kernel_task halts until an interrupt, and looks again.             *)
Clean ==
  /\ Kernel("reap", "f12?")
  /\ reaper
  /\ UNCHANGED <<f12_pressed, shellVars>>

KernelTask == CheckF12 \/ ClearF12 \/ CheckActive \/ StartShell \/ Clean

-----------------------------------------------------------------------------
(* kshell                                                                  *)

Shell(from, to) ==
  /\ Running("code") /\ current_task # 0
  /\ spc[current_task] = from
  /\ spc' = [spc EXCEPT ![current_task] = to]
  /\ UNCHANGED <<f12_pressed, kpc>>

Holds(held) == blocks' = [blocks EXCEPT ![current_task] = held]
Mine == blocks[current_task]

(* malloc and free of the shell's own buffers. The shell does not look     *)
(* whether malloc returned NULL, and that it does is left out here.        *)
Alloc(b, from, to) ==
  /\ Shell(from, to)
  /\ Holds(Mine \cup {b})
  /\ UNCHANGED <<vars, kshell_activated>>

Free(b, from, to) ==
  /\ Shell(from, to)
  /\ Holds(Mine \ {b})
  /\ UNCHANGED <<vars, kshell_activated>>

SetActivated(flag, from, to) ==
  /\ Shell(from, to)
  /\ kshell_activated' = flag
  /\ UNCHANGED <<vars, blocks>>

Start == Alloc("s", "start", "activate") \/ SetActivated(TRUE, "activate", "command")

(* kgets returns a command. All but read and exit leave this state alone.  *)
Command ==
  /\ Shell("command", "file name") \/ Shell("command", "exit")
  /\ UNCHANGED <<vars, kshell_activated, blocks>>

(* The read command: fat32_read returns a file or NULL.                    *)
LoadFileSlip ==
  \/ Alloc("fp", "load", "show")
  \/ Shell("load", "command") /\ UNCHANGED <<vars, kshell_activated, blocks>>
LoadFile ==
  \/ Alloc("fp", "load", "show")
  \/ Shell("load", "free name") /\ UNCHANGED <<vars, kshell_activated, blocks>>

(* A character is printed, and the shell sleeps for a tick after each.     *)
ShowFile ==
  \/ Shell("show", "show") /\ task_sleep(1) /\ UNCHANGED <<kshell_activated, blocks>>
  \/ Shell("show", "free file") /\ UNCHANGED <<vars, kshell_activated, blocks>>

Read ==
  \/ Alloc("file_name", "file name", "load")
  \/ LoadFile
  \/ ShowFile
  \/ Free("fp", "free file", "free name")
  \/ Free("file_name", "free name", "command")

WakeUp == task_sleep_return /\ UNCHANGED <<f12_pressed, kpc, shellVars>>

(* The exit command.                                                       *)
ExitSlip ==
  \/ SetActivated(kshell_activated, "exit", "free line")
  \/ Free("s", "free line", "kill")
  \/ Shell("kill", "killed") /\ task_kill /\ UNCHANGED <<kshell_activated, blocks>>
Exit ==
  \/ SetActivated(FALSE, "exit", "free line")
  \/ Free("s", "free line", "kill")
  \/ Shell("kill", "killed") /\ task_kill /\ UNCHANGED <<kshell_activated, blocks>>

ShellNext ==
  \/ PressF12 \/ Switch
  \/ Boot \/ KernelTask
  \/ Start \/ Command \/ Read \/ WakeUp \/ Exit

ShellSpec == ShellInit /\ [][ShellNext]_allVars

(* Timer interrupts do not stop coming, and every 10 ms slice is enough    *)
(* for kernel_task, and for a shell that starts, to get on.                *)
ShellFairSpec ==
  /\ ShellSpec
  /\ WF_allVars(Boot) /\ WF_allVars(Switch)
  /\ SF_allVars(KernelTask) /\ SF_allVars(Start)

-----------------------------------------------------------------------------
(* Properties                                                              *)

IsShell(j) == name[j] = ShellName /\ state[j] # "FREE"
Alive(j) == IsShell(j) /\ state[j] \in {"RUNNING", "SLEEPING"}

(* kshell_activated means that there is a shell, and it has not ended: the *)
(* flag is not left set by a shell that is gone, which would make F12 dead *)
(* for ever.                                                               *)
ActivatedIsAlive == kshell_activated => \E j \in Slots : Alive(j)

(* Memory is held only by a live shell: when it ends, by whatever path     *)
(* through its commands, it has freed all it allocated, which nobody else  *)
(* could (reaper frees the stack only).                                    *)
ShellFreesAll == \A j \in Slots : blocks[j] # {} => Alive(j)

(* What a shell holds before the step it is at.                            *)
Reading == {"load", "show", "free file", "free name"}
Prompting == {"command", "file name", "exit"} \cup Reading
Started == {"start", "activate", "free line", "kill"} \cup Prompting
HeldAt(place) ==
  (IF place \in {"activate", "free line"} \cup Prompting THEN {"s"} ELSE {})
    \cup (IF place \in Reading THEN {"file_name"} ELSE {})
    \cup (IF place \in {"show", "free file"} THEN {"fp"} ELSE {})

(* The inductive invariant, on top of TaskInv: the slot where a shell is   *)
(* between its first step and its last is that of a live shell; what it    *)
(* holds follows from the step it is at; and the flag is set only while a  *)
(* shell is between setting and clearing it.                               *)
ShellInv ==
  /\ kshell_activated \in BOOLEAN
  /\ spc \in [Slots -> Started \cup {"none", "killed"}]
  /\ blocks \in [Slots -> SUBSET {"s", "file_name", "fp"}]
  /\ \A j \in Slots : blocks[j] = HeldAt(spc[j])
  /\ \A j \in Slots : spc[j] \in Started => j # 0 /\ Alive(j)
  /\ kshell_activated => \E j \in Slots : spc[j] \in Prompting

(* When no shell is in the task table, F12 starts one.                     *)
F12StartsShell ==
  f12_pressed /\ (\A j \in Slots : ~IsShell(j)) ~> \E j \in Slots : Alive(j)

=============================================================================
