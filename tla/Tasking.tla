------------------------------- MODULE Tasking -------------------------------
(***************************************************************************)
(* kernel/sys/tasking.c with the timer interrupt that drives it (irq.asm,  *)
(* pit.c): the task table, the round robin scheduler and the tasks that    *)
(* call task_exec, task_sleep, task_kill and reaper.                       *)
(*                                                                         *)
(* One CPU: a task runs until the timer interrupt switches to another. The *)
(* code between cli and sti is one step, and so is the interrupt handler,  *)
(* which runs with interrupts off. timer_wait and wait_for_task have no    *)
(* caller and are left out, so timer_counter stays 0.                      *)
(***************************************************************************)
EXTENDS Integers

CONSTANTS
  MAX_TASKS,  \* slots of the task table
  Stacks,     \* the blocks malloc may return for a task's stack
  BootStack,  \* the stack kernel.asm set up, on which task 0 runs
  Names,      \* the names tasks are given
  KernelName, \* "kernel_main"
  NoName,     \* the empty name of a slot that is free
  Prefixes,   \* the pairs <<a, b>> of names where a is a prefix of b
  Durations,  \* the arguments of task_sleep
  NULL

ASSUME TaskingAssumption ==
  /\ MAX_TASKS \in Nat /\ MAX_TASKS >= 2
  /\ NULL \notin Stacks \cup {BootStack} /\ BootStack \notin Stacks
  /\ KernelName \in Names /\ NoName \notin Names
  /\ \A n \in Names : <<n, n>> \in Prefixes
  /\ \A p \in Prefixes : p \in Names \X Names
  /\ Durations \subseteq Nat

VARIABLES
  tasking_enabled,
  current_task,
  \* task_table, a function on the slots for each field:
  name, state, sleep_ticks, stack_base,
  esp,        \* the frame on the stack that esp points to
  allocated,  \* the stacks malloc has given out
  cpu,        \* the stack the CPU runs on and the place in the code
  hung,       \* the scheduler loops for ever with interrupts off
  \* History:
  at,         \* at[s]: where the thread on stack s is, saved or not
  waited      \* waited[i]: ticks since task i could run but was not picked,
              \* counted up to MAX_TASKS

table   == <<name, state, sleep_ticks, stack_base, esp>>
history == <<at, waited>>
vars == <<tasking_enabled, current_task, table, allocated, cpu, hung, history>>

Slots == 0 .. (MAX_TASKS - 1)

(* A frame: the registers an interrupt pushes or task_exec preloads. Of    *)
(* them only EIP matters: in the task's own code, in the loop of           *)
(* task_sleep or in the loop of task_kill.                                 *)
Places == {"code", "sleep", "kill"}
Frame(s, place) == [stack |-> s, place |-> place]
NoFrame == Frame(NULL, "code")
Frames == [stack : Stacks \cup {BootStack, NULL}, place : Places]

-----------------------------------------------------------------------------
Init ==
  /\ tasking_enabled = FALSE
  /\ current_task = 0
  /\ name = [i \in Slots |-> NoName]
  /\ state = [i \in Slots |-> "FREE"]
  /\ sleep_ticks = [i \in Slots |-> 0]
  /\ stack_base = [i \in Slots |-> NULL]
  /\ esp = [i \in Slots |-> NoFrame]
  /\ allocated = {}
  /\ cpu = Frame(BootStack, "code")
  /\ hung = FALSE
  /\ at = [s \in Stacks \cup {BootStack} |-> "code"]
  /\ waited = [i \in Slots |-> 0]

(* Definitions named ...Slip are the one that follows with a mistake in it;*)
(* the properties are checked to notice it.                                *)

(* The boot code becomes task 0.                                           *)
tasking_init ==
  /\ ~tasking_enabled
  /\ tasking_enabled' = TRUE
  /\ state' = [state EXCEPT ![0] = "RUNNING"]
  /\ name' = [name EXCEPT ![0] = KernelName]
  /\ UNCHANGED <<current_task, sleep_ticks, stack_base, esp, allocated, cpu, hung, history>>

-----------------------------------------------------------------------------
(* What the running task may call.                                         *)

Running(place) == tasking_enabled /\ ~hung /\ cpu.place = place

(* The thread on the CPU is now at this place.                             *)
GoTo(place) ==
  /\ cpu' = [cpu EXCEPT !.place = place]
  /\ at' = [at EXCEPT ![cpu.stack] = place]

(* The name is refused if it is a prefix of any task's, a zombie's too.    *)
NameTakenSlip(n) == \E i \in Slots : state[i] = "RUNNING" /\ <<n, name[i]>> \in Prefixes
NameTaken(n) == \E i \in Slots : <<n, name[i]>> \in Prefixes

FirstFreeSlip(i) ==
  /\ state[i] # "RUNNING"
  /\ \A j \in Slots : j < i => state[j] = "RUNNING"
FirstFree(i) ==
  /\ state[i] = "FREE"
  /\ \A j \in Slots : j < i => state[j] # "FREE"

(* malloc may return any block that is not in use. Its other outcome, NULL,*)
(* changes nothing, nor do the other failures of task_exec.                *)
task_exec(n) ==
  /\ Running("code")
  /\ ~NameTaken(n)
  /\ \E i \in Slots, s \in Stacks \ allocated :
       /\ FirstFree(i)
       /\ allocated' = allocated \cup {s}
       /\ esp' = [esp EXCEPT ![i] = Frame(s, "code")]
       /\ stack_base' = [stack_base EXCEPT ![i] = s]
       /\ state' = [state EXCEPT ![i] = "RUNNING"]
       /\ name' = [name EXCEPT ![i] = n]
       /\ at' = [at EXCEPT ![s] = "code"]
       /\ waited' = [waited EXCEPT ![i] = 0]
  /\ UNCHANGED <<tasking_enabled, current_task, sleep_ticks, cpu, hung>>

task_sleepSlip(ticks) ==
  /\ Running("code")
  /\ sleep_ticks' = [sleep_ticks EXCEPT ![current_task] = ticks]
  /\ state' = [state EXCEPT ![current_task] = "SLEEPING"]
  /\ GoTo("sleep")
  /\ UNCHANGED <<tasking_enabled, current_task, name, stack_base, esp, allocated, hung, waited>>

(* task_sleep up to its loop. kernel_task does not sleep: it halts.        *)
task_sleep(ticks) ==
  /\ Running("code")
  /\ current_task # 0
  /\ sleep_ticks' = [sleep_ticks EXCEPT ![current_task] = ticks]
  /\ state' = [state EXCEPT ![current_task] = "SLEEPING"]
  /\ GoTo("sleep")
  /\ UNCHANGED <<tasking_enabled, current_task, name, stack_base, esp, allocated, hung, waited>>

(* The loop of task_sleep ends.                                            *)
task_sleep_return ==
  /\ Running("sleep")
  /\ state[current_task] # "SLEEPING"
  /\ GoTo("code")
  /\ UNCHANGED <<tasking_enabled, current_task, table, allocated, hung, waited>>

task_killSlip ==
  /\ Running("code")
  /\ current_task # 0
  /\ state' = [state EXCEPT ![current_task] = "FREE"]
  /\ allocated' = allocated \ {stack_base[current_task]}
  /\ GoTo("kill")
  /\ UNCHANGED <<tasking_enabled, current_task, name, sleep_ticks, stack_base, esp, hung, waited>>

(* The task halts for ever in a loop. kernel_task does not end.            *)
task_kill ==
  /\ Running("code")
  /\ current_task # 0
  /\ state' = [state EXCEPT ![current_task] = "ZOMBIE"]
  /\ GoTo("kill")
  /\ UNCHANGED <<tasking_enabled, current_task, name, sleep_ticks, stack_base, esp, allocated, hung, waited>>

(* Called by kernel_task in every turn of its loop.                        *)
ReapsSlip(i) == state[i] = "ZOMBIE" /\ i < MAX_TASKS - 1
Reaps(i) == state[i] = "ZOMBIE"
reaper ==
  /\ Running("code")
  /\ current_task = 0
  /\ allocated' = allocated \ {stack_base[i] : i \in {j \in Slots : Reaps(j)}}
  /\ state'      = [i \in Slots |-> IF Reaps(i) THEN "FREE"  ELSE state[i]]
  /\ stack_base' = [i \in Slots |-> IF Reaps(i) THEN NULL    ELSE stack_base[i]]
  /\ esp'        = [i \in Slots |-> IF Reaps(i) THEN NoFrame ELSE esp[i]]
  /\ name'       = [i \in Slots |-> IF Reaps(i) THEN NoName  ELSE name[i]]
  /\ UNCHANGED <<tasking_enabled, current_task, sleep_ticks, cpu, hung, history>>

-----------------------------------------------------------------------------
(* The timer interrupt: IRQ0_HANDLER, timer_interrupt_handler, task_tick   *)
(* and schedule.                                                           *)

(* task_tick. A task that sleeps for 0 ticks wakes at the next tick, like  *)
(* one that sleeps for 1.                                                  *)
WakesNeverSlip(i) == state[i] = "SLEEPING" /\ sleep_ticks[i] = 1
Wakes(i) == state[i] = "SLEEPING" /\ sleep_ticks[i] <= 1

task_tick ==
  /\ sleep_ticks' = [i \in Slots |->
       IF state[i] = "SLEEPING" /\ sleep_ticks[i] > 0 THEN sleep_ticks[i] - 1 ELSE sleep_ticks[i]]
  /\ state' = [i \in Slots |-> IF Wakes(i) THEN "RUNNING" ELSE state[i]]

(* The slots in the order the do-while loop of schedule tries them: 1 for  *)
(* the one after current_task, MAX_TASKS for current_task itself.          *)
DistanceFromZeroSlip(c, i) == i
Distance(c, i) == IF i > c THEN i - c ELSE i - c + MAX_TASKS

IsNext(n) ==
  /\ state'[n] = "RUNNING"
  /\ \A i \in Slots : state'[i] = "RUNNING" => Distance(current_task, n) <= Distance(current_task, i)

(* The interrupted task's frame is saved, unless it is a zombie.           *)
SavesFrameSlip == state'[current_task] = "RUNNING"
SavesFrame == state'[current_task] \in {"RUNNING", "SLEEPING"}

schedule ==
  /\ esp' = IF SavesFrame THEN [esp EXCEPT ![current_task] = cpu] ELSE esp
  /\ \/ \E n \in Slots :
          /\ IsNext(n)
          /\ current_task' = n
          /\ cpu' = esp'[n]
          /\ waited' = [i \in Slots |->
               IF i \in {n, current_task} \/ state'[i] # "RUNNING" THEN 0
               ELSE IF waited[i] < MAX_TASKS THEN waited[i] + 1 ELSE MAX_TASKS]
          /\ UNCHANGED hung
     \/ /\ \A i \in Slots : state'[i] # "RUNNING"
        /\ hung' = TRUE
        /\ UNCHANGED <<current_task, cpu, waited>>

Tick ==
  /\ tasking_enabled /\ ~hung
  /\ task_tick
  /\ schedule
  /\ UNCHANGED <<tasking_enabled, name, stack_base, allocated, at>>

-----------------------------------------------------------------------------
Call ==
  \/ \E n \in Names : task_exec(n)
  \/ \E t \in Durations : task_sleep(t)
  \/ task_sleep_return
  \/ task_kill

Next == tasking_init \/ Call \/ reaper \/ Tick

Spec == Init /\ [][Next]_vars

(* The boot code runs on, the timer ticks for ever, and kernel_task, which *)
(* is given the CPU for 10 ms again and again, gets round its loop.        *)
Fairness == WF_vars(tasking_init) /\ WF_vars(Tick) /\ SF_vars(reaper)

FairSpec == Spec /\ Fairness

-----------------------------------------------------------------------------
(* Properties                                                              *)

StackOf(i) == IF i = 0 THEN BootStack ELSE stack_base[i]

(* Every variable has its type.                                            *)
TypeOK ==
  /\ tasking_enabled \in BOOLEAN /\ hung \in BOOLEAN
  /\ current_task \in Slots
  /\ name \in [Slots -> Names \cup {NoName}]
  /\ state \in [Slots -> {"FREE", "RUNNING", "ZOMBIE", "SLEEPING"}]
  /\ sleep_ticks \in [Slots -> Nat]
  /\ stack_base \in [Slots -> Stacks \cup {NULL}]
  /\ esp \in [Slots -> Frames]
  /\ allocated \subseteq Stacks
  /\ cpu \in Frames
  /\ at \in [Stacks \cup {BootStack} -> Places]
  /\ waited \in [Slots -> Nat]

(* The stacks malloc gave out are those of the slots in use, each in one   *)
(* slot: task_exec and reaper neither leak a stack nor share or free one   *)
(* twice, and a slot that is not in use holds no pointer to one.           *)
StacksOwned ==
  /\ \A i \in Slots \ {0} : state[i] # "FREE" <=> stack_base[i] # NULL
  /\ \A i \in Slots \ {0} : stack_base[i] # NULL => stack_base[i] \in allocated
  /\ \A s \in allocated : \E i \in Slots \ {0} : stack_base[i] = s
  /\ \A i, j \in Slots \ {0} : stack_base[i] = stack_base[j] /\ stack_base[i] # NULL => i = j
  /\ stack_base[0] = NULL

(* The CPU runs on the stack of current_task, where that task's own thread *)
(* is: never on a stack that was freed, not even a zombie's (tasking.c     *)
(* 238-239), and never with the frame of another task.                     *)
CpuOnOwnStack ==
  /\ cpu = Frame(StackOf(current_task), at[StackOf(current_task)])
  /\ current_task # 0 => cpu.stack \in allocated

(* A task that was switched out resumes exactly where it was interrupted:  *)
(* its esp points to the last frame saved on its own stack.                *)
ResumesInPlace ==
  \A i \in Slots : i # current_task /\ state[i] \in {"RUNNING", "SLEEPING"} =>
    esp[i] = Frame(StackOf(i), at[StackOf(i)])

(* The state in the table is that of the thread: a task in the table as    *)
(* SLEEPING is in the loop of task_sleep, a zombie is in the loop of       *)
(* task_kill, and no task that can be picked is.                           *)
StateMatchesPlace ==
  \A i \in Slots :
    /\ state[i] = "SLEEPING" => at[StackOf(i)] = "sleep"
    /\ state[i] = "ZOMBIE"   => at[StackOf(i)] = "kill"
    /\ state[i] = "RUNNING"  => at[StackOf(i)] \in {"code", "sleep"}

(* The scheduler always finds a task to run: its loop over the slots, with *)
(* interrupts off, comes to an end (tasking.c:214-217).                    *)
NeverHung == ~hung

(* No two tasks have the same name, though a zombie's stays in the table   *)
(* until it is reaped. It is what keeps F12 from starting two shells.      *)
UniqueNames ==
  \A i, j \in Slots : state[i] # "FREE" /\ state[j] # "FREE" /\ name[i] = name[j] => i = j

(* Round robin: a task that can run is passed over at most MAX_TASKS - 2   *)
(* times in a row, whatever the others do: sleep, wake, end and be         *)
(* replaced by new tasks in slots between.                                 *)
BoundedWait == \A i \in Slots : waited[i] <= MAX_TASKS - 2

(* Task 0 is there from tasking_init on, and neither sleeps nor ends.      *)
Booted ==
  /\ IF tasking_enabled THEN state[0] = "RUNNING"
     ELSE current_task = 0 /\ \A i \in Slots : state[i] = "FREE"
  /\ at[BootStack] = "code"

(* A task that waits is reached by the scheduler before its count gets too *)
(* high: each tick brings the scheduler nearer to it.                      *)
Waiting ==
  \A i \in Slots :
    IF state[i] = "RUNNING" /\ i # current_task
    THEN waited[i] + Distance(current_task, i) <= MAX_TASKS - 1
    ELSE waited[i] = 0

(* The inductive invariant.                                                *)
TaskInv ==
  /\ TypeOK /\ Booted
  /\ StacksOwned /\ CpuOnOwnStack /\ ResumesInPlace /\ StateMatchesPlace
  /\ NeverHung /\ UniqueNames /\ Waiting

(* Every sleeper wakes up.                                                 *)
SleepersWake == \A i \in Slots : state[i] = "SLEEPING" ~> state[i] = "RUNNING"

(* Every zombie's slot and stack can be used again (tasking.c:238-239).    *)
ZombiesReaped == \A i \in Slots : state[i] = "ZOMBIE" ~> state[i] = "FREE"

=============================================================================
