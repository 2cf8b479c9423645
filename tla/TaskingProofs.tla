--------------------------- MODULE TaskingProofs ----------------------------
(***************************************************************************)
(* The task table, for every number of slots, stacks and names and for     *)
(* every order in which tasks are started, sleep, end and are reaped; then *)
(* the shell and what it starts, on top of it.                             *)
(***************************************************************************)
EXTENDS KernelShell, TLAPS

USE DEF NoFrame, Frame

LEMMA SlotsType ==
  /\ Slots \subseteq Nat /\ 0 \in Slots /\ MAX_TASKS \in Nat /\ MAX_TASKS >= 2
  /\ \A i \in Slots : 0 <= i /\ i < MAX_TASKS
  BY TaskingAssumption DEF Slots

LEMMA StackTypes ==
  /\ NULL # BootStack /\ NULL \notin Stacks /\ BootStack \notin Stacks
  BY TaskingAssumption

LEMMA FrameFields ==
  ASSUME NEW f \in Frames
  PROVE  /\ f.place \in Places /\ f = Frame(f.stack, f.place)
         /\ \A place \in Places : [f EXCEPT !.place = place] = Frame(f.stack, place)
                                  /\ [f EXCEPT !.place = place] \in Frames
  BY DEF Frames

LEMMA DistanceFacts ==
  ASSUME NEW c \in Slots, NEW i \in Slots
  PROVE  /\ Distance(c, i) \in 1 .. MAX_TASKS
         /\ i # c => Distance(c, i) <= MAX_TASKS - 1
         /\ Distance(c, c) = MAX_TASKS
         /\ \A n \in Slots : Distance(c, n) = Distance(c, i) => n = i
         /\ \A n \in Slots : Distance(c, n) < Distance(c, i) =>
              Distance(n, i) = Distance(c, i) - Distance(c, n)
  BY SlotsType DEF Distance

LEMMA TaskInit == Init => TaskInv
  <1> SUFFICES ASSUME Init PROVE TaskInv
    OBVIOUS
  <1> USE SlotsType, StackTypes DEF Init
  <1>1. TypeOK
    BY TaskingAssumption DEF TypeOK, Frames, Places
  <1>2. Booted /\ StacksOwned /\ ResumesInPlace /\ NeverHung /\ UniqueNames /\ Waiting
    BY DEF Booted, StacksOwned, ResumesInPlace, NeverHung, UniqueNames, Waiting
  <1>3. CpuOnOwnStack /\ StateMatchesPlace
    BY DEF CpuOnOwnStack, StateMatchesPlace, StackOf
  <1>4. QED
    BY <1>1, <1>2, <1>3 DEF TaskInv

(* The task on the CPU is in the table, and runs on its own stack.         *)
LEMMA CurrentTask ==
  ASSUME TaskInv
  PROVE  /\ current_task \in Slots /\ cpu \in Frames /\ cpu.stack = StackOf(current_task)
         /\ cpu.place = at[cpu.stack] /\ cpu.stack \in Stacks \cup {BootStack}
         /\ current_task # 0 => cpu.stack \in allocated /\ state[current_task] # "FREE"
                                /\ cpu.stack # BootStack
  <1> USE StackTypes DEF TaskInv, TypeOK
  <1>1. cpu.stack = StackOf(current_task) /\ cpu.place = at[cpu.stack]
    BY DEF CpuOnOwnStack
  <1>2. current_task # 0 => cpu.stack \in allocated
    BY DEF CpuOnOwnStack
  <1>3. cpu.stack \in Stacks \cup {BootStack}
    BY <1>1, <1>2 DEF StackOf
  <1>4. current_task # 0 => state[current_task] # "FREE" /\ cpu.stack # BootStack
    BY <1>1, <1>2 DEF StacksOwned, StackOf
  <1>5. QED
    BY <1>1, <1>2, <1>3, <1>4

(* Stacks of tasks in the table are apart.                                 *)
LEMMA StacksApart ==
  ASSUME TaskInv, NEW i \in Slots, NEW j \in Slots, i # j, state[i] # "FREE", state[j] # "FREE"
  PROVE  /\ StackOf(i) # StackOf(j)
         /\ StackOf(i) \in Stacks \cup {BootStack}
         /\ i # 0 => StackOf(i) \in allocated
  BY SlotsType, StackTypes DEF TaskInv, TypeOK, StacksOwned, StackOf

LEMMA InitTasking == TaskInv /\ tasking_init => TaskInv'
  <1> SUFFICES ASSUME TaskInv, tasking_init PROVE TaskInv'
    OBVIOUS
  <1> USE SlotsType, StackTypes DEF TaskInv, tasking_init, history
  <1>1. TypeOK'
    BY TaskingAssumption DEF TypeOK
  <1>2. Booted'
    BY DEF Booted, TypeOK
  <1>3. StacksOwned'
    BY DEF StacksOwned, TypeOK
  <1>4. CpuOnOwnStack' /\ ResumesInPlace' /\ NeverHung'
    BY DEF CpuOnOwnStack, ResumesInPlace, NeverHung, StackOf, Booted, TypeOK
  <1>5. StateMatchesPlace'
    BY DEF StateMatchesPlace, StackOf, Booted, TypeOK
  <1>6. UniqueNames'
    BY DEF UniqueNames, Booted, TypeOK
  <1>7. Waiting'
    BY DEF Waiting, Booted, TypeOK
  <1>8. QED
    BY <1>1, <1>2, <1>3, <1>4, <1>5, <1>6, <1>7

(* task_exec                                                               *)
LEMMA ExecTask == ASSUME NEW n \in Names PROVE TaskInv /\ task_exec(n) => TaskInv'
  <1> SUFFICES ASSUME TaskInv, task_exec(n) PROVE TaskInv'
    OBVIOUS
  <1> USE SlotsType, StackTypes
  <1>1. PICK k \in Slots, s \in Stacks \ allocated :
          /\ FirstFree(k)
          /\ allocated' = allocated \cup {s}
          /\ esp' = [esp EXCEPT ![k] = Frame(s, "code")]
          /\ stack_base' = [stack_base EXCEPT ![k] = s]
          /\ state' = [state EXCEPT ![k] = "RUNNING"]
          /\ name' = [name EXCEPT ![k] = n]
          /\ at' = [at EXCEPT ![s] = "code"]
          /\ waited' = [waited EXCEPT ![k] = 0]
    BY DEF task_exec
  <1>2. /\ tasking_enabled /\ state[0] = "RUNNING" /\ state[k] = "FREE" /\ k # 0 /\ k # current_task
        /\ ~NameTaken(n)
        /\ UNCHANGED <<tasking_enabled, current_task, sleep_ticks, cpu, hung>>
    BY <1>1, CurrentTask DEF task_exec, Running, FirstFree, TaskInv, Booted, TypeOK
  <1>3. \A i \in Slots : state[i] # "FREE" => StackOf(i) # s /\ StackOf(i)' = StackOf(i)
    BY <1>1, <1>2 DEF TaskInv, StacksOwned, StackOf, TypeOK
  <1>4. TypeOK'
    BY <1>1, <1>2 DEF TaskInv, TypeOK, Frames, Places
  <1>5. Booted'
    BY <1>1, <1>2 DEF TaskInv, Booted, TypeOK
  <1>6. StacksOwned'
    BY <1>1, <1>2 DEF TaskInv, StacksOwned, TypeOK
  <1>7. CpuOnOwnStack'
    <2>1. state[current_task] # "FREE"
      BY <1>2, CurrentTask
    <2>2. StackOf(current_task)' = StackOf(current_task) /\ cpu.stack # s
      BY <1>2, <1>3, <2>1, CurrentTask
    <2>3. at'[StackOf(current_task)] = at[StackOf(current_task)]
      BY <1>1, <1>3, <2>1, CurrentTask DEF TaskInv, TypeOK
    <2>4. QED
      BY <1>1, <1>2, <2>2, <2>3 DEF TaskInv, CpuOnOwnStack
  <1>8. \A i \in Slots : state[i] # "FREE" => at'[StackOf(i)] = at[StackOf(i)]
    BY <1>1, <1>3 DEF TaskInv, TypeOK
  <1>9. StackOf(k)' = s /\ at'[s] = "code"
    BY <1>1, <1>2 DEF TaskInv, TypeOK, StackOf
  <1>10. ResumesInPlace'
    BY <1>1, <1>2, <1>3, <1>8, <1>9 DEF TaskInv, TypeOK, ResumesInPlace
  <1>11. StateMatchesPlace'
    BY <1>1, <1>2, <1>3, <1>8, <1>9 DEF TaskInv, TypeOK, StateMatchesPlace
  <1>12. NeverHung'
    BY <1>2 DEF TaskInv, NeverHung
  <1>13. UniqueNames'
    <2>1. \A i \in Slots : name[i] # n
      BY <1>2, TaskingAssumption DEF NameTaken
    <2>2. QED
      BY <1>1, <1>2, <2>1 DEF TaskInv, TypeOK, UniqueNames
  <1>14. Waiting'
    BY <1>1, <1>2, DistanceFacts DEF TaskInv, TypeOK, Waiting
  <1>15. QED
    BY <1>4, <1>5, <1>6, <1>7, <1>10, <1>11, <1>12, <1>13, <1>14 DEF TaskInv

(* The task on the CPU moves to another place, in a state that fits it, and*)
(* touches nothing of the other tasks.                                     *)
LEMMA CurrentMoves ==
  ASSUME TaskInv, NEW place \in Places, GoTo(place), tasking_enabled,
         NEW st \in {"RUNNING", "ZOMBIE", "SLEEPING"},
         state' = [state EXCEPT ![current_task] = st],
         current_task = 0 => st = "RUNNING" /\ place = "code",
         st = "SLEEPING" => place = "sleep",
         st = "ZOMBIE" => place = "kill",
         st = "RUNNING" => place \in {"code", "sleep"},
         sleep_ticks' \in [Slots -> Nat],
         UNCHANGED <<tasking_enabled, current_task, name, stack_base, esp, allocated, hung, waited>>
  PROVE  TaskInv'
  <1> USE SlotsType, StackTypes
  <1>1. state[current_task] # "FREE"
    BY CurrentTask DEF TaskInv, Booted
  <1>2. \A i \in Slots : StackOf(i)' = StackOf(i)
    BY DEF StackOf
  <1>3. /\ at' = [at EXCEPT ![cpu.stack] = place] /\ cpu' = Frame(cpu.stack, place)
        /\ cpu' \in Frames
    BY CurrentTask, FrameFields DEF GoTo
  <1>4. at'[StackOf(current_task)] = place /\ cpu' = Frame(StackOf(current_task), place)
    BY <1>3, CurrentTask DEF TaskInv, TypeOK
  <1>5. \A i \in Slots : i # current_task /\ state[i] # "FREE" => at'[StackOf(i)] = at[StackOf(i)]
    BY <1>1, <1>3, CurrentTask, StacksApart DEF TaskInv, TypeOK
  <1>6. TypeOK'
    BY <1>3 DEF TaskInv, TypeOK
  <1>7. Booted'
    BY <1>3, CurrentTask DEF TaskInv, TypeOK, Booted
  <1>8. StacksOwned'
    BY <1>1, CurrentTask DEF TaskInv, TypeOK, StacksOwned
  <1>9. CpuOnOwnStack'
    BY <1>2, <1>4, CurrentTask DEF TaskInv, CpuOnOwnStack
  <1>10. ResumesInPlace'
    BY <1>2, <1>5 DEF TaskInv, TypeOK, ResumesInPlace
  <1>11. StateMatchesPlace'
    BY <1>2, <1>4, <1>5, CurrentTask DEF TaskInv, TypeOK, StateMatchesPlace
  <1>12. NeverHung' /\ UniqueNames'
    BY <1>1, CurrentTask DEF TaskInv, TypeOK, NeverHung, UniqueNames
  <1>13. Waiting'
    BY CurrentTask DEF TaskInv, TypeOK, Waiting
  <1>14. QED
    BY <1>6, <1>7, <1>8, <1>9, <1>10, <1>11, <1>12, <1>13 DEF TaskInv

LEMMA SleepTask == ASSUME NEW t \in Durations PROVE TaskInv /\ task_sleep(t) => TaskInv'
  <1> SUFFICES ASSUME TaskInv, task_sleep(t) PROVE TaskInv'
    OBVIOUS
  <1>1. sleep_ticks' \in [Slots -> Nat]
    BY CurrentTask, TaskingAssumption DEF TaskInv, TypeOK, task_sleep
  <1>2. QED
    BY <1>1, CurrentMoves DEF task_sleep, Running, Places

LEMMA SleepReturns == TaskInv /\ task_sleep_return => TaskInv'
  <1> SUFFICES ASSUME TaskInv, task_sleep_return PROVE TaskInv'
    OBVIOUS
  <1>1. cpu.place = "sleep" /\ at[StackOf(current_task)] = "sleep"
    BY CurrentTask DEF task_sleep_return, Running
  <1>2. state[current_task] = "RUNNING"
    BY <1>1, CurrentTask DEF TaskInv, TypeOK, task_sleep_return, StateMatchesPlace, Booted, Running
  <1>3. state' = [state EXCEPT ![current_task] = "RUNNING"]
    BY <1>2, CurrentTask DEF TaskInv, TypeOK, task_sleep_return, table
  <1>4. sleep_ticks' \in [Slots -> Nat]
    BY DEF TaskInv, TypeOK, task_sleep_return, table
  <1>5. QED
    BY <1>3, <1>4, CurrentMoves DEF task_sleep_return, Running, Places, table

LEMMA KillTask == TaskInv /\ task_kill => TaskInv'
  <1> SUFFICES ASSUME TaskInv, task_kill PROVE TaskInv'
    OBVIOUS
  <1>1. sleep_ticks' \in [Slots -> Nat]
    BY DEF TaskInv, TypeOK, task_kill
  <1>2. QED
    BY <1>1, CurrentMoves DEF task_kill, Running, Places

LEMMA Reap == TaskInv /\ reaper => TaskInv'
  <1> SUFFICES ASSUME TaskInv, reaper PROVE TaskInv'
    OBVIOUS
  <1> USE SlotsType, StackTypes
  <1>1. /\ tasking_enabled /\ current_task = 0 /\ state[0] = "RUNNING"
        /\ UNCHANGED <<tasking_enabled, current_task, sleep_ticks, cpu, hung, at, waited>>
    BY DEF reaper, Running, TaskInv, Booted, history
  <1>2. \A i \in Slots :
          /\ state'[i] = IF Reaps(i) THEN "FREE" ELSE state[i]
          /\ stack_base'[i] = IF Reaps(i) THEN NULL ELSE stack_base[i]
          /\ esp'[i] = IF Reaps(i) THEN NoFrame ELSE esp[i]
          /\ name'[i] = IF Reaps(i) THEN NoName ELSE name[i]
    BY DEF reaper
  <1>3. allocated' = allocated \ {stack_base[i] : i \in {j \in Slots : Reaps(j)}}
    BY DEF reaper
  <1>4. \A i \in Slots : state'[i] # "FREE" => state'[i] = state[i] /\ ~Reaps(i) /\ StackOf(i)' = StackOf(i)
    BY <1>2 DEF Reaps, StackOf
  <1>5. TypeOK'
    <2>1. name' \in [Slots -> Names \cup {NoName}] /\ stack_base' \in [Slots -> Stacks \cup {NULL}]
      BY DEF TaskInv, TypeOK, reaper
    <2>2. state' \in [Slots -> {"FREE", "RUNNING", "ZOMBIE", "SLEEPING"}]
      BY DEF TaskInv, TypeOK, reaper
    <2>3. esp' \in [Slots -> Frames]
      <3>1. NoFrame \in Frames
        BY DEF Frames, Places
      <3>2. QED
        BY <3>1 DEF TaskInv, TypeOK, reaper
    <2>4. QED
      BY <1>1, <1>3, <2>1, <2>2, <2>3 DEF TaskInv, TypeOK
  <1>6. Booted' /\ NeverHung'
    BY <1>1, <1>2 DEF TaskInv, Booted, NeverHung, Reaps
  <1>7. StacksOwned'
    <2>1. \A i \in Slots \ {0} : state'[i] # "FREE" <=> stack_base'[i] # NULL
      BY <1>2 DEF TaskInv, StacksOwned, Reaps
    <2>2. \A i \in Slots \ {0} : stack_base'[i] # NULL => stack_base'[i] \in allocated'
      <3> SUFFICES ASSUME NEW i \in Slots \ {0}, stack_base'[i] # NULL
                   PROVE  stack_base'[i] \in allocated'
        OBVIOUS
      <3>1. stack_base'[i] = stack_base[i] /\ ~Reaps(i) /\ stack_base[i] \in allocated
        BY <1>2 DEF TaskInv, StacksOwned
      <3>2. \A j \in Slots : Reaps(j) => j # 0 /\ stack_base[j] # stack_base[i]
        BY <1>1, <3>1 DEF TaskInv, StacksOwned, Reaps
      <3>3. QED
        BY <1>3, <3>1, <3>2
    <2>3. \A s \in allocated' : \E i \in Slots \ {0} : stack_base'[i] = s
      BY <1>2, <1>3 DEF TaskInv, StacksOwned
    <2>4. \A i, j \in Slots \ {0} : stack_base'[i] = stack_base'[j] /\ stack_base'[i] # NULL => i = j
      BY <1>2 DEF TaskInv, StacksOwned
    <2>5. stack_base'[0] = NULL
      BY <1>2 DEF TaskInv, StacksOwned
    <2>6. QED
      BY <2>1, <2>2, <2>3, <2>4, <2>5 DEF StacksOwned
  <1>8. CpuOnOwnStack'
    BY <1>1 DEF TaskInv, CpuOnOwnStack, StackOf
  <1>9. ResumesInPlace'
    BY <1>1, <1>2, <1>4 DEF TaskInv, ResumesInPlace
  <1>10. StateMatchesPlace'
    BY <1>1, <1>4 DEF TaskInv, StateMatchesPlace
  <1>11. UniqueNames'
    BY <1>2, <1>4 DEF TaskInv, UniqueNames
  <1>12. Waiting'
    BY <1>1, <1>2 DEF TaskInv, Waiting, Reaps
  <1>13. QED
    BY <1>5, <1>6, <1>7, <1>8, <1>9, <1>10, <1>11, <1>12 DEF TaskInv

(* What task_tick does to the states, and the choice schedule makes: task 0*)
(* can always run, so the loop of the scheduler finds a task.              *)
LEMMA TickFacts ==
  ASSUME TaskInv, Tick
  PROVE  /\ tasking_enabled /\ state'[0] = "RUNNING"
         /\ \A i \in Slots : state'[i] = state[i] \/ (state[i] = "SLEEPING" /\ state'[i] = "RUNNING")
         /\ IsNext(current_task') /\ current_task' \in Slots
         /\ cpu' = esp'[current_task'] /\ UNCHANGED hung
         /\ waited' = [i \in Slots |->
              IF i \in {current_task', current_task} \/ state'[i] # "RUNNING" THEN 0
              ELSE IF waited[i] < MAX_TASKS THEN waited[i] + 1 ELSE MAX_TASKS]
  <1> USE SlotsType
  <1>1. tasking_enabled /\ state'[0] = "RUNNING"
    BY DEF Tick, task_tick, Wakes, TaskInv, Booted, TypeOK
  <1>2. \A i \in Slots : state'[i] = state[i] \/ (state[i] = "SLEEPING" /\ state'[i] = "RUNNING")
    <2> SUFFICES ASSUME NEW i \in Slots
                 PROVE  state'[i] = state[i] \/ (state[i] = "SLEEPING" /\ state'[i] = "RUNNING")
      OBVIOUS
    <2>1. state'[i] = IF Wakes(i) THEN "RUNNING" ELSE state[i]
      BY DEF Tick, task_tick
    <2>2. QED
      BY <2>1 DEF Wakes
  <1>3. PICK n \in Slots :
          /\ IsNext(n) /\ current_task' = n /\ cpu' = esp'[n] /\ UNCHANGED hung
          /\ waited' = [i \in Slots |->
               IF i \in {n, current_task} \/ state'[i] # "RUNNING" THEN 0
               ELSE IF waited[i] < MAX_TASKS THEN waited[i] + 1 ELSE MAX_TASKS]
    BY <1>1 DEF Tick, schedule
  <1>4. QED
    BY <1>1, <1>2, <1>3

LEMMA TickTasks == TaskInv /\ Tick => TaskInv'
  <1> SUFFICES ASSUME TaskInv, Tick PROVE TaskInv'
    OBVIOUS
  <1> USE SlotsType, StackTypes
  <1>1. UNCHANGED <<tasking_enabled, name, stack_base, allocated, at>>
    BY DEF Tick
  <1>2. \A i \in Slots : /\ StackOf(i)' = StackOf(i)
                         /\ state'[i] = "FREE" <=> state[i] = "FREE"
                         /\ state'[i] = "ZOMBIE" <=> state[i] = "ZOMBIE"
    BY <1>1, TickFacts DEF StackOf
  <1>3. state'[current_task'] = "RUNNING"
    BY TickFacts DEF IsNext
  <1>4. \A i \in Slots : state'[i] \in {"RUNNING", "SLEEPING"} =>
          esp'[i] = Frame(StackOf(i), at[StackOf(i)])
    <2> SUFFICES ASSUME NEW i \in Slots, state'[i] \in {"RUNNING", "SLEEPING"}
                 PROVE  esp'[i] = Frame(StackOf(i), at[StackOf(i)])
      OBVIOUS
    <2>1. CASE i = current_task
      <3>1. esp'[i] = cpu
        BY <2>1 DEF Tick, schedule, SavesFrame, TaskInv, TypeOK
      <3>2. QED
        BY <2>1, <3>1 DEF TaskInv, CpuOnOwnStack
    <2>2. CASE i # current_task
      <3>1. esp'[i] = esp[i] /\ state[i] \in {"RUNNING", "SLEEPING"}
        BY <2>2, TickFacts DEF Tick, schedule, TaskInv, TypeOK
      <3>2. QED
        BY <2>2, <3>1 DEF TaskInv, ResumesInPlace
    <2>3. QED
      BY <2>1, <2>2
  <1>5. TypeOK'
    <2>1. state' \in [Slots -> {"FREE", "RUNNING", "ZOMBIE", "SLEEPING"}]
      BY DEF Tick, task_tick, TaskInv, TypeOK
    <2>2. sleep_ticks' \in [Slots -> Nat]
      BY DEF Tick, task_tick, TaskInv, TypeOK
    <2>3. esp' \in [Slots -> Frames]
      BY DEF Tick, schedule, TaskInv, TypeOK
    <2>4. waited' \in [Slots -> Nat]
      BY TickFacts DEF TaskInv, TypeOK
    <2>5. current_task' \in Slots /\ cpu' \in Frames
      <3>1. current_task' \in Slots /\ cpu' = esp'[current_task']
        BY TickFacts
      <3>2. QED
        BY <2>3, <3>1
    <2>6. QED
      BY <1>1, <2>1, <2>2, <2>3, <2>4, <2>5, TickFacts DEF TaskInv, TypeOK
  <1>6. Booted'
    BY <1>1, TickFacts DEF TaskInv, Booted
  <1>7. StacksOwned'
    BY <1>1, <1>2 DEF TaskInv, StacksOwned
  <1>8. CpuOnOwnStack'
    <2>1. cpu' = Frame(StackOf(current_task'), at[StackOf(current_task')])
      BY <1>3, <1>4, TickFacts
    <2>2. current_task' # 0 => StackOf(current_task') \in allocated
      BY <1>2, <1>3, TickFacts DEF TaskInv, StacksOwned, StackOf
    <2>3. StackOf(current_task)' = StackOf(current_task')
      BY <1>1 DEF StackOf
    <2>4. QED
      BY <1>1, <2>1, <2>2, <2>3 DEF CpuOnOwnStack
  <1>9. ResumesInPlace'
    BY <1>1, <1>2, <1>4 DEF ResumesInPlace
  <1>10. StateMatchesPlace'
    BY <1>1, <1>2, TickFacts DEF TaskInv, StateMatchesPlace
  <1>11. NeverHung' /\ UniqueNames'
    BY <1>1, <1>2, TickFacts DEF TaskInv, NeverHung, UniqueNames
  <1>12. Waiting'
    <2> SUFFICES ASSUME NEW i \in Slots
                 PROVE  IF state'[i] = "RUNNING" /\ i # current_task'
                        THEN waited'[i] + Distance(current_task', i) <= MAX_TASKS - 1
                        ELSE waited'[i] = 0
      BY DEF Waiting, Distance
    <2>1. CASE ~(state'[i] = "RUNNING" /\ i # current_task')
      BY <2>1, TickFacts
    <2>2. CASE state'[i] = "RUNNING" /\ i # current_task' /\ i = current_task
      <3>1. current_task \in Slots /\ current_task' \in Slots /\ waited'[i] = 0
        BY <2>2, TickFacts DEF TaskInv, TypeOK
      <3>2. /\ Distance(current_task', i) <= MAX_TASKS - 1
            /\ Distance(current_task', i) \in 1 .. MAX_TASKS
        BY <2>2, <3>1, DistanceFacts
      <3>3. QED
        BY <2>2, <3>1, <3>2
    <2>3. CASE state'[i] = "RUNNING" /\ i # current_task' /\ i # current_task
      <3>1. current_task \in Slots /\ current_task' \in Slots /\ waited[i] \in Nat
        BY TickFacts DEF TaskInv, TypeOK
      <3>2. waited[i] + Distance(current_task, i) <= MAX_TASKS - 1
        BY <2>3, <3>1, DistanceFacts DEF TaskInv, Waiting
      <3>3. Distance(current_task, current_task') < Distance(current_task, i)
        BY <2>3, <3>1, TickFacts, DistanceFacts DEF IsNext
      <3>4. /\ Distance(current_task', i) = Distance(current_task, i) - Distance(current_task, current_task')
            /\ Distance(current_task, current_task') \in 1 .. MAX_TASKS
            /\ Distance(current_task, i) \in 1 .. MAX_TASKS
        BY <3>1, <3>3, DistanceFacts
      <3>5. waited'[i] <= waited[i] + 1 /\ waited'[i] \in Nat
        BY <2>3, <3>1, TickFacts
      <3>6. QED
        BY <2>3, <3>1, <3>2, <3>4, <3>5
    <2>4. QED
      BY <2>1, <2>2, <2>3
  <1>13. QED
    BY <1>5, <1>6, <1>7, <1>8, <1>9, <1>10, <1>11, <1>12 DEF TaskInv

LEMMA TaskNext == TaskInv /\ [Next]_vars => TaskInv'
  <1> SUFFICES ASSUME TaskInv, [Next]_vars PROVE TaskInv'
    OBVIOUS
  <1>1. CASE tasking_init
    BY <1>1, InitTasking
  <1>2. ASSUME NEW n \in Names, task_exec(n) PROVE TaskInv'
    BY <1>2, ExecTask
  <1>3. ASSUME NEW t \in Durations, task_sleep(t) PROVE TaskInv'
    BY <1>3, SleepTask
  <1>4. CASE task_sleep_return
    BY <1>4, SleepReturns
  <1>5. CASE task_kill
    BY <1>5, KillTask
  <1>6. CASE reaper
    BY <1>6, Reap
  <1>7. CASE Tick
    BY <1>7, TickTasks
  <1>8. CASE UNCHANGED vars
    BY <1>8 DEF vars, table, history, TaskInv, TypeOK, Booted, StacksOwned, CpuOnOwnStack, ResumesInPlace,
         StateMatchesPlace, NeverHung, UniqueNames, Waiting, StackOf, Distance
  <1>9. QED
    BY <1>1, <1>2, <1>3, <1>4, <1>5, <1>6, <1>7, <1>8 DEF Next, Call

(* The invariant of the task table holds in every state of every run.      *)
THEOREM TaskInvariant == Spec => []TaskInv
  BY TaskInit, TaskNext, PTL DEF Spec

(* Every variable keeps its type: no index of the table is out of bounds.  *)
THEOREM TaskTypeOK == Spec => []TypeOK
  BY TaskInvariant, PTL DEF TaskInv

(* No stack is leaked, shared or freed twice (task_exec, reaper).          *)
THEOREM TaskStacksOwned == Spec => []StacksOwned
  BY TaskInvariant, PTL DEF TaskInv

(* The CPU is never on a freed stack or in another task's frame (schedule, *)
(* task_kill, reaper).                                                     *)
THEOREM TaskCpuOnOwnStack == Spec => []CpuOnOwnStack
  BY TaskInvariant, PTL DEF TaskInv

(* A task that was switched out resumes where it was interrupted.          *)
THEOREM TaskResumesInPlace == Spec => []ResumesInPlace
  BY TaskInvariant, PTL DEF TaskInv

(* The state in the table fits the place the thread is in.                 *)
THEOREM TaskStateMatchesPlace == Spec => []StateMatchesPlace
  BY TaskInvariant, PTL DEF TaskInv

(* The loop of schedule always finds a task, for task 0 can always run.    *)
THEOREM TaskNeverHung == Spec => []NeverHung
  BY TaskInvariant, PTL DEF TaskInv

(* No two tasks in the table have the same name (task_exec).               *)
THEOREM TaskUniqueNames == Spec => []UniqueNames
  BY TaskInvariant, PTL DEF TaskInv

(* Round robin: no task that can run is passed over MAX_TASKS - 1 times.   *)
THEOREM TaskBoundedWait == Spec => []BoundedWait
  <1>1. TaskInv => BoundedWait
    <2> SUFFICES ASSUME TaskInv, NEW i \in Slots PROVE waited[i] <= MAX_TASKS - 2
      BY DEF BoundedWait
    <2>1. current_task \in Slots /\ waited[i] \in Nat
      BY DEF TaskInv, TypeOK
    <2>2. CASE state[i] = "RUNNING" /\ i # current_task
      BY <2>1, <2>2, SlotsType, DistanceFacts DEF TaskInv, Waiting
    <2>3. CASE ~(state[i] = "RUNNING" /\ i # current_task)
      BY <2>3, SlotsType DEF TaskInv, Waiting
    <2>4. QED
      BY <2>2, <2>3
  <1>2. QED
    BY <1>1, TaskInvariant, PTL

-----------------------------------------------------------------------------
(* KernelShell: its steps are steps of Tasking, so TaskInv holds; ShellInv *)
(* is inductive with it.                                                   *)


LEMMA ShellStart == ShellInit => Init /\ ShellInv
  <1> SUFFICES ASSUME ShellInit PROVE Init /\ ShellInv
    OBVIOUS
  <1>1. Init /\ kshell_activated = FALSE
    BY DEF ShellInit
  <1>2. \A j \in Slots : spc[j] = "none" /\ blocks[j] = {}
    BY DEF ShellInit
  <1>3. spc \in [Slots -> Started \cup {"none", "killed"}]
    BY DEF ShellInit
  <1>4. blocks \in [Slots -> SUBSET {"s", "file_name", "fp"}]
    BY DEF ShellInit
  <1>5. QED
    BY <1>1, <1>2, <1>3, <1>4 DEF ShellInv, HeldAt, Started, Prompting, Reading

-----------------------------------------------------------------------------
(* Every step is a step of Tasking, or leaves its variables alone.         *)
LEMMA StepOfTasking == [ShellNext]_allVars => [Next]_vars
  <1> SUFFICES ASSUME [ShellNext]_allVars PROVE [Next]_vars
    OBVIOUS
  <1>1. CASE UNCHANGED allVars \/ PressF12
    BY <1>1 DEF allVars, PressF12
  <1>2. CASE Switch
    BY <1>2 DEF Switch, Next
  <1>3. CASE Boot
    BY <1>3 DEF Boot, Next
  <1>4. CASE KernelTask
    <2>1. CASE CheckF12 \/ ClearF12 \/ CheckActive
      BY <2>1 DEF CheckF12, ClearF12, CheckActive
    <2>2. CASE StartShell
      <3>1. UNCHANGED vars \/ task_exec(ShellName)
        BY <2>2 DEF StartShell
      <3>2. QED
        BY <3>1, ShellAssumption DEF Next, Call
    <2>3. CASE Clean
      BY <2>3 DEF Clean, Next
    <2>4. QED
      BY <1>4, <2>1, <2>2, <2>3 DEF KernelTask
  <1>5. CASE Start \/ Command
    BY <1>5 DEF Start, Alloc, SetActivated, Command
  <1>6. CASE Read
    <2>1. UNCHANGED vars \/ task_sleep(1)
      BY <1>6 DEF Read, Alloc, LoadFile, ShowFile, Free
    <2>2. QED
      BY <2>1, ShellAssumption DEF Next, Call
  <1>7. CASE WakeUp
    BY <1>7 DEF WakeUp, Next, Call
  <1>8. CASE Exit
    BY <1>8 DEF Exit, SetActivated, Free, Next, Call
  <1>9. QED
    BY <1>1, <1>2, <1>3, <1>4, <1>5, <1>6, <1>7, <1>8 DEF ShellNext

-----------------------------------------------------------------------------
(* A step that leaves the shells where they are keeps ShellInv, if no live *)
(* shell disappears.                                                       *)
LEMMA ShellsStay ==
  ASSUME ShellInv, UNCHANGED shellVars, \A j \in Slots : Alive(j) => Alive(j)'
  PROVE  ShellInv'
  BY DEF ShellInv, shellVars

(* A step of the shell that runs, from one place to another.               *)
LEMMA ShellMoves ==
  ASSUME TaskInv, ShellInv, NEW from \in Started, NEW to \in Started \cup {"killed"},
         Shell(from, to),
         \A j \in Slots : j # current_task \/ to # "killed" => (Alive(j) => Alive(j)'),
         blocks' = [blocks EXCEPT ![current_task] = HeldAt(to)],
         kshell_activated' \in BOOLEAN,
         kshell_activated' => to \in Prompting \/ (kshell_activated /\ from \notin Prompting)
  PROVE  ShellInv'
  <1>1. /\ current_task \in Slots /\ spc[current_task] = from
        /\ spc' = [spc EXCEPT ![current_task] = to]
    BY CurrentTask DEF Shell
  <1>2. /\ spc \in [Slots -> Started \cup {"none", "killed"}]
        /\ blocks \in [Slots -> SUBSET {"s", "file_name", "fp"}]
        /\ \A j \in Slots : blocks[j] = HeldAt(spc[j])
        /\ \A j \in Slots : spc[j] \in Started => j # 0 /\ Alive(j)
        /\ kshell_activated => \E j \in Slots : spc[j] \in Prompting
    BY DEF ShellInv
  <1>3. spc' \in [Slots -> Started \cup {"none", "killed"}]
    BY <1>1, <1>2
  <1>4. HeldAt(to) \in SUBSET {"s", "file_name", "fp"}
    BY DEF HeldAt
  <1>5. blocks' \in [Slots -> SUBSET {"s", "file_name", "fp"}]
    BY <1>2, <1>4
  <1>6. \A j \in Slots : (blocks')[j] = HeldAt((spc')[j])
    BY <1>1, <1>2
  <1>7. \A j \in Slots : (spc')[j] \in Started => j # 0 /\ Alive(j)'
    <2> SUFFICES ASSUME NEW j \in Slots, (spc')[j] \in Started PROVE j # 0 /\ Alive(j)'
      OBVIOUS
    <2>1. spc[j] \in Started
      BY <1>1, <1>2
    <2>2. j # current_task \/ to # "killed"
      BY <1>1, <1>2 DEF Started, Prompting, Reading
    <2>3. QED
      BY <1>2, <2>1, <2>2
  <1>8. kshell_activated' => \E j \in Slots : (spc')[j] \in Prompting
    <2>1. CASE to \in Prompting
      BY <1>1, <1>2, <2>1
    <2>2. CASE kshell_activated' /\ kshell_activated /\ from \notin Prompting
      <3>1. PICK j \in Slots : spc[j] \in Prompting
        BY <1>2, <2>2
      <3>2. (spc')[j] \in Prompting
        BY <1>1, <1>2, <2>2, <3>1
      <3>3. QED
        BY <3>2
    <2>3. QED
      BY <2>1, <2>2
  <1>9. QED
    BY <1>3, <1>5, <1>6, <1>7, <1>8 DEF ShellInv

(* The steps of the shell that leave the task table alone.                 *)
LEMMA ShellKeepsTasks ==
  ASSUME UNCHANGED vars
  PROVE  \A j \in Slots : Alive(j) => Alive(j)'
  BY DEF vars, table, Alive, IsShell

(* What the shell holds where it is, and where it runs.                    *)
LEMMA ShellAt ==
  ASSUME TaskInv, ShellInv, NEW from \in Started, NEW to, Shell(from, to)
  PROVE  /\ current_task \in Slots /\ Mine = HeldAt(from)
         /\ blocks = [blocks EXCEPT ![current_task] = HeldAt(from)]
         /\ kshell_activated \in BOOLEAN
  BY CurrentTask DEF ShellInv, Shell, Mine

-----------------------------------------------------------------------------
(* kernel_task                                                             *)

LEMMA SwitchShell == TaskInv /\ ShellInv /\ Switch => ShellInv'
  <1> SUFFICES ASSUME TaskInv, ShellInv, Switch PROVE ShellInv'
    OBVIOUS
  <1>1. /\ \A j \in Slots : state'[j] = state[j] \/ (state[j] = "SLEEPING" /\ state'[j] = "RUNNING")
        /\ UNCHANGED <<name, shellVars>>
    BY TickFacts DEF Switch, Tick
  <1>2. \A j \in Slots : Alive(j) => Alive(j)'
    BY <1>1 DEF Alive, IsShell
  <1>3. QED
    BY <1>1, <1>2, ShellsStay

LEMMA BootShell == TaskInv /\ ShellInv /\ Boot => ShellInv'
  <1> SUFFICES ASSUME TaskInv, ShellInv, Boot PROVE ShellInv'
    OBVIOUS
  <1>1. /\ \A j \in Slots : state[j] = "FREE"
        /\ kshell_activated' = FALSE /\ UNCHANGED <<spc, blocks>>
    BY DEF Boot, tasking_init, TaskInv, Booted
  <1>2. \A j \in Slots : spc[j] \notin Started
    BY <1>1 DEF ShellInv, Alive, IsShell
  <1>3. QED
    BY <1>1, <1>2 DEF ShellInv

(* The slot of a new shell held nothing and no shell.                      *)
LEMMA StartsShell == TaskInv /\ ShellInv /\ StartShell => ShellInv'
  <1> SUFFICES ASSUME TaskInv, ShellInv, StartShell PROVE ShellInv'
    OBVIOUS
  <1>1. UNCHANGED <<kshell_activated, blocks>>
    BY DEF StartShell
  <1>2. CASE UNCHANGED <<vars, spc>>
    BY <1>1, <1>2, ShellKeepsTasks, ShellsStay DEF shellVars
  <1>3. CASE \E j \in Slots : FirstFree(j) /\ task_exec(ShellName) /\ spc' = [spc EXCEPT ![j] = "start"]
    <2>1. PICK j \in Slots : FirstFree(j) /\ task_exec(ShellName) /\ spc' = [spc EXCEPT ![j] = "start"]
      BY <1>3
    <2>2. PICK k \in Slots :
            /\ FirstFree(k)
            /\ state' = [state EXCEPT ![k] = "RUNNING"] /\ name' = [name EXCEPT ![k] = ShellName]
      BY <2>1 DEF task_exec
    <2>3. k = j /\ state[j] = "FREE"
      BY <2>1, <2>2, SlotsType DEF FirstFree
    <2>4. state[0] = "RUNNING" /\ j # 0
      BY <2>1, <2>3 DEF task_exec, Running, TaskInv, Booted
    <2>5. state \in [Slots -> {"FREE", "RUNNING", "ZOMBIE", "SLEEPING"}] /\ DOMAIN name = Slots
      BY DEF TaskInv, TypeOK
    <2>6. \A i \in Slots : i # j => (Alive(i) => Alive(i)')
      BY <2>2, <2>3, <2>5 DEF Alive, IsShell
    <2>7. Alive(j)'
      BY <2>2, <2>3, <2>5 DEF Alive, IsShell
    <2>8. /\ spc \in [Slots -> Started \cup {"none", "killed"}]
          /\ blocks \in [Slots -> SUBSET {"s", "file_name", "fp"}]
          /\ \A i \in Slots : blocks[i] = HeldAt(spc[i])
          /\ \A i \in Slots : spc[i] \in Started => i # 0 /\ Alive(i)
          /\ kshell_activated \in BOOLEAN
          /\ kshell_activated => \E i \in Slots : spc[i] \in Prompting
      BY DEF ShellInv
    <2>9. spc[j] \in {"none", "killed"}
      BY <2>3, <2>8 DEF Alive, IsShell
    <2>10. HeldAt(spc[j]) = {} /\ HeldAt("start") = {} /\ spc[j] \notin Prompting /\ "start" \in Started
      BY <2>9 DEF HeldAt, Started, Prompting, Reading
    <2>11. spc' \in [Slots -> Started \cup {"none", "killed"}]
      BY <2>1, <2>8, <2>10
    <2>12. \A i \in Slots : (blocks')[i] = HeldAt((spc')[i])
      BY <1>1, <2>1, <2>8, <2>10
    <2>13. \A i \in Slots : (spc')[i] \in Started => i # 0 /\ Alive(i)'
      BY <2>1, <2>4, <2>6, <2>7, <2>8
    <2>14. kshell_activated' => \E i \in Slots : (spc')[i] \in Prompting
      BY <1>1, <2>1, <2>8, <2>10
    <2>15. QED
      BY <1>1, <2>8, <2>11, <2>12, <2>13, <2>14 DEF ShellInv
  <1>4. QED
    BY <1>2, <1>3 DEF StartShell

LEMMA ReapsShell == TaskInv /\ ShellInv /\ Clean => ShellInv'
  <1> SUFFICES ASSUME TaskInv, ShellInv, Clean PROVE ShellInv'
    OBVIOUS
  <1>1. UNCHANGED shellVars
    BY DEF Clean
  <1>2. \A j \in Slots : Alive(j) => Alive(j)'
    BY DEF Clean, reaper, Reaps, Alive, IsShell
  <1>3. QED
    BY <1>1, <1>2, ShellsStay

-----------------------------------------------------------------------------
(* kshell                                                                  *)

LEMMA AllocMoves ==
  ASSUME TaskInv, ShellInv, NEW b, NEW from \in Started, NEW to \in Started, Alloc(b, from, to),
         HeldAt(to) = HeldAt(from) \cup {b}, to \in Prompting \/ from \notin Prompting
  PROVE  ShellInv'
  <1>1. Shell(from, to) /\ UNCHANGED <<vars, kshell_activated>>
    BY DEF Alloc
  <1>2. blocks' = [blocks EXCEPT ![current_task] = HeldAt(to)] /\ kshell_activated \in BOOLEAN
    BY <1>1, ShellAt DEF Alloc, Holds
  <1>3. QED
    BY <1>1, <1>2, ShellKeepsTasks, ShellMoves

LEMMA FreeMoves ==
  ASSUME TaskInv, ShellInv, NEW b, NEW from \in Started, NEW to \in Started, Free(b, from, to),
         HeldAt(to) = HeldAt(from) \ {b}, to \in Prompting \/ from \notin Prompting
  PROVE  ShellInv'
  <1>1. Shell(from, to) /\ UNCHANGED <<vars, kshell_activated>>
    BY DEF Free
  <1>2. blocks' = [blocks EXCEPT ![current_task] = HeldAt(to)] /\ kshell_activated \in BOOLEAN
    BY <1>1, ShellAt DEF Free, Holds
  <1>3. QED
    BY <1>1, <1>2, ShellKeepsTasks, ShellMoves

LEMMA KeepsBlocks ==
  ASSUME TaskInv, ShellInv, NEW from \in Started, NEW to \in Started \cup {"killed"},
         Shell(from, to), UNCHANGED blocks, HeldAt(to) = HeldAt(from),
         \A j \in Slots : j # current_task \/ to # "killed" => (Alive(j) => Alive(j)'),
         kshell_activated' \in BOOLEAN,
         kshell_activated' => to \in Prompting \/ (kshell_activated /\ from \notin Prompting)
  PROVE  ShellInv'
  <1>1. blocks' = [blocks EXCEPT ![current_task] = HeldAt(to)]
    BY ShellAt
  <1>2. QED
    BY <1>1, ShellMoves

LEMMA StartMoves == TaskInv /\ ShellInv /\ Start => ShellInv'
  <1> SUFFICES ASSUME TaskInv, ShellInv, Start PROVE ShellInv'
    OBVIOUS
  <1> USE DEF HeldAt, Started, Prompting, Reading
  <1>1. CASE Alloc("s", "start", "activate")
    BY <1>1, AllocMoves
  <1>2. CASE SetActivated(TRUE, "activate", "command")
    BY <1>2, KeepsBlocks, ShellKeepsTasks DEF SetActivated
  <1>3. QED
    BY <1>1, <1>2 DEF Start

LEMMA CommandMoves == TaskInv /\ ShellInv /\ Command => ShellInv'
  <1> SUFFICES ASSUME TaskInv, ShellInv, Command PROVE ShellInv'
    OBVIOUS
  <1>1. kshell_activated' \in BOOLEAN
    BY DEF Command, ShellInv
  <1> USE DEF HeldAt, Started, Prompting, Reading
  <1>2. PICK to \in {"file name", "exit"} : Shell("command", to)
    BY DEF Command
  <1>3. QED
    BY <1>1, <1>2, KeepsBlocks, ShellKeepsTasks DEF Command

LEMMA ReadMoves == TaskInv /\ ShellInv /\ Read => ShellInv'
  <1> SUFFICES ASSUME TaskInv, ShellInv, Read PROVE ShellInv'
    OBVIOUS
  <1>1. kshell_activated \in BOOLEAN
    BY DEF ShellInv
  <1> USE DEF HeldAt, Started, Prompting, Reading
  <1>2. CASE Alloc("file_name", "file name", "load")
    BY <1>2, AllocMoves
  <1>3. CASE Alloc("fp", "load", "show")
    BY <1>3, AllocMoves
  <1>4. CASE Shell("load", "free name") /\ UNCHANGED <<vars, kshell_activated, blocks>>
    BY <1>1, <1>4, KeepsBlocks, ShellKeepsTasks
  <1>5. CASE Shell("show", "show") /\ task_sleep(1) /\ UNCHANGED <<kshell_activated, blocks>>
    <2>1. \A j \in Slots : Alive(j) => Alive(j)'
      BY <1>5 DEF task_sleep, Alive, IsShell, TaskInv, TypeOK
    <2>2. QED
      BY <1>1, <1>5, <2>1, KeepsBlocks
  <1>6. CASE Shell("show", "free file") /\ UNCHANGED <<vars, kshell_activated, blocks>>
    BY <1>1, <1>6, KeepsBlocks, ShellKeepsTasks
  <1>7. CASE Free("fp", "free file", "free name")
    BY <1>7, FreeMoves
  <1>8. CASE Free("file_name", "free name", "command")
    BY <1>8, FreeMoves
  <1>9. QED
    BY <1>2, <1>3, <1>4, <1>5, <1>6, <1>7, <1>8 DEF Read, LoadFile, ShowFile

LEMMA WakeUpMoves == TaskInv /\ ShellInv /\ WakeUp => ShellInv'
  <1> SUFFICES ASSUME TaskInv, ShellInv, WakeUp PROVE ShellInv'
    OBVIOUS
  <1>1. UNCHANGED <<name, state, shellVars>>
    BY DEF WakeUp, task_sleep_return, table
  <1>2. \A j \in Slots : Alive(j) => Alive(j)'
    BY <1>1 DEF Alive, IsShell
  <1>3. QED
    BY <1>1, <1>2, ShellsStay

LEMMA ExitMoves == TaskInv /\ ShellInv /\ Exit => ShellInv'
  <1> SUFFICES ASSUME TaskInv, ShellInv, Exit PROVE ShellInv'
    OBVIOUS
  <1>1. kshell_activated \in BOOLEAN
    BY DEF ShellInv
  <1> USE DEF HeldAt, Started, Prompting, Reading
  <1>2. CASE SetActivated(FALSE, "exit", "free line")
    BY <1>2, KeepsBlocks, ShellKeepsTasks DEF SetActivated
  <1>3. CASE Free("s", "free line", "kill")
    BY <1>3, FreeMoves
  <1>4. CASE Shell("kill", "killed") /\ task_kill /\ UNCHANGED <<kshell_activated, blocks>>
    <2>1. \A j \in Slots : j # current_task => (Alive(j) => Alive(j)')
      BY <1>4 DEF task_kill, Alive, IsShell
    <2>2. QED
      BY <1>1, <1>4, <2>1, KeepsBlocks
  <1>5. QED
    BY <1>2, <1>3, <1>4 DEF Exit

LEMMA ShellKept == TaskInv /\ ShellInv /\ [ShellNext]_allVars => ShellInv'
  <1> SUFFICES ASSUME TaskInv, ShellInv, [ShellNext]_allVars PROVE ShellInv'
    OBVIOUS
  <1>1. CASE UNCHANGED allVars \/ PressF12 \/ CheckF12 \/ ClearF12 \/ CheckActive
    <2>1. UNCHANGED <<vars, shellVars>>
      BY <1>1 DEF allVars, PressF12, CheckF12, ClearF12, CheckActive
    <2>2. QED
      BY <2>1, ShellKeepsTasks, ShellsStay
  <1>2. CASE Switch \/ Boot \/ StartShell \/ Clean
    BY <1>2, SwitchShell, BootShell, StartsShell, ReapsShell
  <1>3. CASE Start \/ Command \/ Read \/ WakeUp \/ Exit
    BY <1>3, StartMoves, CommandMoves, ReadMoves, WakeUpMoves, ExitMoves
  <1>4. QED
    BY <1>1, <1>2, <1>3 DEF ShellNext, KernelTask

-----------------------------------------------------------------------------
(* kernel_task and kshell use the scheduler as Tasking says its tasks may: *)
(* what is proved of Tasking holds of the kernel with its shell.           *)
THEOREM ShellTasking == ShellSpec => Spec
  BY ShellStart, StepOfTasking, PTL DEF ShellSpec, Spec

(* TaskInv and ShellInv hold together.                                     *)
THEOREM ShellInvariant == ShellSpec => [](TaskInv /\ ShellInv)
  BY ShellStart, TaskInit, StepOfTasking, TaskNext, ShellKept, PTL DEF ShellSpec

(* F12 is never dead: kshell_activated is not left set by a shell that is  *)
(* gone (kernel.c, kshell.c).                                              *)
THEOREM ShellActivatedIsAlive == ShellSpec => []ActivatedIsAlive
  <1>1. ShellInv => ActivatedIsAlive
    BY DEF ShellInv, ActivatedIsAlive, Started
  <1>2. QED
    BY <1>1, ShellInvariant, PTL

(* A shell that ends has freed what it allocated (kshell.c).               *)
THEOREM ShellFreesMemory == ShellSpec => []ShellFreesAll
  <1>1. ASSUME ShellInv, NEW j \in Slots, blocks[j] # {} PROVE Alive(j)
    <2>1. spc[j] \in Started \cup {"none", "killed"} /\ HeldAt(spc[j]) # {}
      BY <1>1 DEF ShellInv
    <2>2. spc[j] \in Started
      BY <2>1 DEF HeldAt, Prompting, Reading
    <2>3. QED
      BY <1>1, <2>2 DEF ShellInv
  <1>2. ShellInv => ShellFreesAll
    BY <1>1 DEF ShellFreesAll
  <1>3. QED
    BY <1>2, ShellInvariant, PTL

=============================================================================
