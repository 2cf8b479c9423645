-------------------------- MODULE KernelEntryProofs --------------------------
(***************************************************************************)
(* For every drive, memory map, bus and size of the pages: the heap and    *)
(* the interrupts, from stage2's questions to the BIOS to kernel_task; the *)
(* table of the devices; the kernel, from its clusters to its place; and   *)
(* that nothing but a failure stops a machine that has what it takes.      *)
(***************************************************************************)
EXTENDS KernelEntry, NatLemmas, FiniteSetTheorems

LEMMA Constants ==
  /\ KERNEL_PHYSICAL_BASE \in Nat /\ Megabyte \in Nat /\ LongSize \in Nat
  /\ PAGE_SIZE \in Nat /\ PAGE_SIZE > 0 /\ TableSize \in Nat /\ TableSize > 0 /\ PTI_COUNT \in Nat
  /\ KERNEL_PHYSICAL_BASE + 2 * Megabyte <= PTI_COUNT * TableSize * PAGE_SIZE
  BY KernelAssumption

(* The list of the BIOS.                                                   *)
LEMMA Answers ==
  ASSUME NEW i \in Installations
  PROVE  /\ Len(i.e820) \in Nat /\ Len(i.e820) > 0
         /\ i.e820 \in Seq(Range(i.e820))
         /\ \A answer \in Range(i.e820) :
              /\ answer.base \in Nat /\ answer.high \in Nat /\ answer.low \in Nat
              /\ answer.size \in 0 .. 24
         /\ i.lines \subseteq 0 .. 15 /\ 2 \notin i.lines
  <1> DEFINE A == [base : Nat, base_high : Nat, high : Nat, low : Nat, type : Nat,
                   size : 0 .. 24, valid : BOOLEAN]
             s == i.e820
  <1>1. s # <<>> /\ s \in Seq(A) /\ i.lines \subseteq (0 .. 15) \ {2}
    BY KernelAssumption
  <1>2. \A a \in A : a.base \in Nat /\ a.high \in Nat /\ a.low \in Nat /\ a.size \in 0 .. 24
    OBVIOUS
  <1> HIDE DEF A, s
  <1>3. Len(s) \in Nat /\ Len(s) > 0
    BY <1>1, EmptySeq
  <1>4. s \in [1 .. Len(s) -> A]
    BY <1>1
  <1>5. Range(s) \subseteq A /\ s \in [1 .. Len(s) -> Range(s)]
    BY <1>4 DEF Range
  <1>6. s \in Seq(Range(s))
    BY <1>3, <1>5, SeqDef
  <1>7. QED
    BY <1>1, <1>2, <1>3, <1>5, <1>6 DEF s

LEMMA EntryStart == KernelInit => EntryInv
  <1> SUFFICES ASSUME KernelInit PROVE EntryInv
    OBVIOUS
  <1>1. /\ installed \in Installations /\ pc = "mbr" /\ ebx = 0 /\ mmap_desc = <<>>
        /\ pic = BiosPic /\ int_flag = FALSE /\ system_heap = None
        /\ task_table = FALSE /\ tasking_enabled = FALSE
    BY DEF KernelInit, Init
  <1>2. ebx \in 0 .. (Len(installed.e820) - 1)
    BY <1>1, Answers
  <1>3. pic.irr \subseteq installed.lines
    BY <1>1 DEF BiosPic
  <1>4. mmap_desc \in Seq(Range(installed.e820))
    BY <1>1, EmptySeq
  <1>5. QED
    BY <1>1, <1>2, <1>3, <1>4 DEF EntryInv, HeapInv, IrqInv, AfterPics, AfterPages, AfterSti, BeforeMap

-----------------------------------------------------------------------------
(* The loader.                                                             *)

(* A step that touches nothing of what HeapInv is about but pc.            *)
LEMMA HeapKept ==
  ASSUME HeapInv, UNCHANGED <<installed, ebx, mmap_desc, page_table_ident, system_heap>>,
         pc' \in AfterPages => pc \in AfterPages,
         pc' \in AfterPics \cup {"interrupts"} => pc \in AfterPics \cup {"interrupts"}
  PROVE  HeapInv'
  <1>1. MainFound' <=> MainFound
    BY DEF MainFound
  <1>2. QED
    BY <1>1 DEF HeapInv

(* One that touches nothing of what IrqInv is about but pc, and perhaps    *)
(* turns interrupts off.                                                   *)
LEMMA IrqKept ==
  ASSUME IrqInv, UNCHANGED <<installed, pic, idt, tasking_enabled, task_table>>,
         pc' \in BeforeMap \cup AfterPics \cup {"interrupts", "halted"},
         pc' \in AfterPics => pc \in AfterPics,
         int_flag' = FALSE \/ (int_flag' = int_flag /\ (pc \in AfterSti => pc' \in AfterSti))
  PROVE  IrqInv'
  <1>1. int_flag' \in BOOLEAN /\ (int_flag' => pc' \in AfterSti)
    <2>1. int_flag \in BOOLEAN /\ (int_flag => pc \in AfterSti)
      BY DEF IrqInv
    <2>2. CASE int_flag' = FALSE
      BY <2>2
    <2>3. CASE int_flag' = int_flag /\ (pc \in AfterSti => pc' \in AfterSti)
      BY <2>1, <2>3, Zenon
    <2>4. QED
      BY <2>2, <2>3
  <1>2. /\ tasking_enabled' \in BOOLEAN /\ task_table' \in BOOLEAN
        /\ tasking_enabled' => task_table'
    BY DEF IrqInv
  <1>3. /\ (pic.irr \subseteq installed.lines)'
        /\ pc' \in AfterPics =>
             (pic.icw2 = <<32, 40>> /\ pic.imr = REMAP_PICS.imr /\ idt = IDT_INIT)'
    BY DEF IrqInv
  <1>4. QED
    BY <1>1, <1>2, <1>3 DEF IrqInv

LEMMA MemoryMapKeeps ==
  ASSUME HeapInv, MemoryMap, UNCHANGED <<page_table_ident, system_heap>>
  PROVE  HeapInv'
  <1> DEFINE list == installed.e820
             answer == list[ebx + 1]
             n == Len(list)
  <1>1. /\ pc = "mmap" /\ pc' \in {"mmap", "find"} /\ installed' = installed
        /\ mmap_desc' = mmap_desc \/ mmap_desc' = Append(mmap_desc, answer)
        /\ ebx' = (ebx + 1) % n
    BY DEF MemoryMap
  <1>2. installed \in Installations /\ ebx \in 0 .. (n - 1) /\ mmap_desc \in Seq(Range(list))
    BY DEF HeapInv
  <1>3. n \in Nat /\ n > 0 /\ list \in Seq(Range(list))
    BY <1>2, Answers
  <1> HIDE DEF n
  <1>4. ebx' \in 0 .. (n - 1)
    BY <1>1, <1>2, <1>3
  <1>5. ebx + 1 \in 1 .. n
    BY <1>2, <1>3
  <1>6. answer \in Range(list)
    BY <1>3, <1>5, ElementOfSeq DEF n
  <1> HIDE DEF list, answer
  <1>7. mmap_desc' \in Seq(Range(list))
    BY <1>1, <1>2, <1>6, AppendProperties
  <1>8. MainFound => MainFound'
    <2>1. CASE mmap_desc' = mmap_desc
      BY <2>1 DEF MainFound
    <2>2. CASE mmap_desc' = Append(mmap_desc, answer)
      <3>1. /\ DOMAIN mmap_desc \subseteq DOMAIN mmap_desc'
            /\ \A i \in DOMAIN mmap_desc : (mmap_desc')[i] = mmap_desc[i]
        BY <1>2, <1>6, <2>2
      <3>2. QED
        BY <3>1 DEF MainFound
    <2>3. QED
      BY <1>1, <2>1, <2>2
  <1>9. list' = list
    BY <1>1 DEF list
  <1>10. pc' \notin AfterPics \cup {"interrupts"} /\ pc' \notin AfterPages
    BY <1>1 DEF AfterPics, AfterPages
  <1>11. (system_heap # None)' =>
           /\ MainFound' /\ page_table_ident' = Identity
           /\ system_heap' = [base |-> KERNEL_PHYSICAL_BASE + Megabyte, size |-> Megabyte]
    BY <1>8 DEF HeapInv, None
  <1>12. QED
    BY <1>1, <1>2, <1>4, <1>7, <1>9, <1>10, <1>11 DEF HeapInv, None, Identity, n, list

(* Where the loader is, and what of the installation it leaves alone.      *)
LEMMA LoaderMoves ==
  ASSUME Next
  PROVE  /\ pc \in BeforeMap \ {"kernel"} /\ pc' \in BeforeMap \cup {"halted"}
         /\ installed' = installed
         /\ MemoryMap \/ UNCHANGED <<ebx, mmap_desc>>
  <1>1. CASE Mbr \/ DiskReset \/ LoadStage2
    BY <1>1 DEF Mbr, DiskReset, LoadStage2, Stop, Halt, mapVars, BeforeMap
  <1>2. CASE MemoryMap
    BY <1>2 DEF MemoryMap, BeforeMap
  <1>3. CASE FAT32_FIND_FILE \/ Load \/ LoadNext
    BY <1>3 DEF FAT32_FIND_FILE, Load, LoadNext, Stop, Halt, mapVars, BeforeMap
  <1>4. CASE ParseElf \/ Relocate \/ ReadFails
    BY <1>4 DEF ParseElf, Relocate, ReadFails, Stop, Halt, mapVars, BeforeMap
  <1>5. QED
    BY <1>1, <1>2, <1>3, <1>4 DEF Next

LEMMA LoaderKeeps == ASSUME EntryInv, Loader PROVE EntryInv'
  <1>1. /\ Next /\ HeapInv /\ IrqInv
        /\ UNCHANGED <<pic, idt, int_flag, page_table_ident, system_heap, task_table, tasking_enabled>>
    BY DEF Loader, EntryInv, kernelVars, irqVars, memoryVars, taskVars
  <1>2. /\ pc \in BeforeMap \ {"kernel"} /\ pc' \in BeforeMap \cup {"halted"}
        /\ installed' = installed
        /\ MemoryMap \/ UNCHANGED <<ebx, mmap_desc>>
    BY <1>1, LoaderMoves
  <1>3. /\ pc \notin AfterPics \cup {"interrupts"} /\ pc \notin AfterSti
        /\ pc' \notin AfterPics \cup {"interrupts"} /\ pc' \notin AfterPages
    BY <1>2 DEF BeforeMap, AfterPics, AfterPages, AfterSti
  <1>4. HeapInv'
    BY <1>1, <1>2, <1>3, HeapKept, MemoryMapKeeps
  <1>5. IrqInv'
    BY <1>1, <1>2, <1>3, IrqKept
  <1>6. QED
    BY <1>4, <1>5 DEF EntryInv

-----------------------------------------------------------------------------
(* The kernel.                                                             *)

LEMMA MemoryMapInitKeeps == ASSUME EntryInv, memory_map_init PROVE EntryInv'
  <1>1. /\ HeapInv /\ IrqInv /\ pc = "kernel"
        /\ available_memory_map' = Available(mmap_desc)
        /\ UNCHANGED <<installed, ebx, mmap_desc, page_table_ident, system_heap, pic, idt, task_table>>
        /\ tasking_enabled' = FALSE
    BY DEF EntryInv, memory_map_init, loaderVars, mapVars
  <1>2. int_flag' = FALSE /\ pc' \in {"interrupts", "halted"}
    BY DEF memory_map_init, SystemHalt
  <1>3. ASSUME pc' = "interrupts" PROVE MainFound
    <2> DEFINE K == {i \in DOMAIN mmap_desc : mmap_desc[i].type = 1}
               found == Selected(mmap_desc, K)
    <2>0. available_memory_map' = found
      BY <1>1 DEF Available
    <2>1. \E i \in DOMAIN found : found[i].base = KERNEL_PHYSICAL_BASE
      <3> HIDE DEF found
      <3>1. /\ main_memory_index' \in DOMAIN available_memory_map'
            /\ (available_memory_map'[main_memory_index']).base = KERNEL_PHYSICAL_BASE
        BY <1>3 DEF memory_map_init, SystemHalt
      <3>2. QED
        BY <2>0, <3>1
    <2>2. PICK i \in DOMAIN found : found[i].base = KERNEL_PHYSICAL_BASE
      BY <2>1
    <2>3. mmap_desc \in Seq(Range(installed.e820))
      BY <1>1 DEF HeapInv
    <2>4. \E k \in K \cap (1 .. Len(mmap_desc)) : found[i] = mmap_desc[k]
      <3> HIDE DEF K
      <3> QED
        BY <2>3, SelectedFrom
    <2>5. QED
      <3> HIDE DEF found
      <3> QED
        BY <2>2, <2>4 DEF MainFound
  <1>4. HeapInv'
    <2>1. pc' \notin AfterPics /\ pc' \notin AfterPages
      BY <1>2 DEF AfterPics, AfterPages
    <2>2. MainFound' <=> MainFound
      BY <1>1 DEF MainFound
    <2>3. (system_heap # None)' =>
            /\ MainFound' /\ page_table_ident' = Identity
            /\ system_heap' = [base |-> KERNEL_PHYSICAL_BASE + Megabyte, size |-> Megabyte]
      BY <1>1, <2>2 DEF HeapInv, None
    <2>4. QED
      BY <1>1, <1>2, <1>3, <2>1, <2>2, <2>3 DEF HeapInv, None, Identity
  <1>5. IrqInv'
    <2>1. pc' \notin AfterPics
      BY <1>2 DEF AfterPics
    <2>2. int_flag' \in BOOLEAN /\ ~(int_flag')
      BY <1>2
    <2>3. tasking_enabled' \in BOOLEAN /\ ~(tasking_enabled') /\ task_table' \in BOOLEAN
      BY <1>1 DEF IrqInv
    <2>4. (pic.irr \subseteq installed.lines)'
      BY <1>1 DEF IrqInv
    <2>5. QED
      BY <1>2, <2>1, <2>2, <2>3, <2>4 DEF IrqInv
  <1>6. QED
    BY <1>4, <1>5 DEF EntryInv

LEMMA InitInterruptsKeeps == ASSUME EntryInv, InitInterrupts PROVE EntryInv'
  <1>1. /\ HeapInv /\ IrqInv /\ pc = "interrupts" /\ pc' = "paging"
        /\ pic' = REMAP_PICS /\ idt' = IDT_INIT
        /\ UNCHANGED <<installed, ebx, mmap_desc, page_table_ident, system_heap, int_flag,
                       task_table, tasking_enabled>>
    BY DEF EntryInv, InitInterrupts, loaderVars, mapVars, memoryVars, taskVars
  <1>2. /\ pc' \notin AfterPages /\ pc' \in AfterPics
        /\ pc \notin AfterSti /\ pc \in AfterPics \cup {"interrupts"}
    BY <1>1 DEF AfterPics, AfterPages, AfterSti
  <1>3. HeapInv'
    BY <1>1, <1>2, HeapKept
  <1>4. int_flag' \in BOOLEAN /\ (int_flag' => pc' \in AfterSti)
    BY <1>1, <1>2, Zenon DEF IrqInv
  <1>5. /\ tasking_enabled' \in BOOLEAN /\ task_table' \in BOOLEAN
        /\ tasking_enabled' => task_table'
    BY <1>1 DEF IrqInv
  <1>6. /\ pic'.irr = {} /\ pic'.icw2 = <<32, 40>> /\ pic'.imr = REMAP_PICS.imr
    BY <1>1 DEF REMAP_PICS
  <1>7. IrqInv'
    BY <1>1, <1>2, <1>4, <1>5, <1>6 DEF IrqInv, REMAP_PICS, IDT_INIT
  <1>8. QED
    BY <1>3, <1>7 DEF EntryInv

LEMMA PagingKeeps == ASSUME EntryInv, paging_init PROVE EntryInv'
  <1>1. /\ HeapInv /\ IrqInv /\ pc = "paging" /\ pc' = "keyboard"
        /\ page_table_ident' = Identity
        /\ UNCHANGED <<installed, ebx, mmap_desc, system_heap, pic, idt, int_flag,
                       task_table, tasking_enabled>>
    BY DEF EntryInv, paging_init, loaderVars, mapVars, irqVars, taskVars
  <1>2. /\ pc \in AfterPics \cup {"interrupts"} /\ pc' \in AfterPics /\ pc \in AfterPics
        /\ pc \notin AfterSti
    BY <1>1 DEF AfterPics, AfterPages, AfterSti
  <1>3. HeapInv'
    <2>1. MainFound /\ (MainFound' <=> MainFound)
      BY <1>1, <1>2 DEF HeapInv, MainFound
    <2>2. QED
      BY <1>1, <2>1 DEF HeapInv, None, Identity
  <1>4. IrqInv'
    BY <1>1, <1>2, IrqKept
  <1>5. QED
    BY <1>3, <1>4 DEF EntryInv

LEMMA HeapInitKeeps == ASSUME EntryInv, heap_init PROVE EntryInv'
  <1>1. /\ HeapInv /\ IrqInv /\ pc = "heap" /\ pc' = "ide" /\ int_flag' = TRUE
        /\ system_heap' = [base |-> KERNEL_PHYSICAL_BASE + Megabyte, size |-> Megabyte]
        /\ UNCHANGED <<installed, ebx, mmap_desc, page_table_ident, pic, idt,
                       task_table, tasking_enabled>>
    BY DEF EntryInv, heap_init, loaderVars, mapVars, taskVars
  <1>2. /\ pc \in AfterPics \cup {"interrupts"} /\ pc \in AfterPages
        /\ pc' \in AfterPics /\ pc' \in AfterSti
    BY <1>1 DEF AfterPics, AfterPages, AfterSti
  <1>3. HeapInv'
    <2>1. MainFound /\ (MainFound' <=> MainFound) /\ page_table_ident = Identity
      BY <1>1, <1>2 DEF HeapInv, MainFound
    <2>2. QED
      BY <1>1, <2>1 DEF HeapInv, Identity
  <1>4. IrqInv'
    <2>1. /\ tasking_enabled' \in BOOLEAN /\ task_table' \in BOOLEAN
          /\ tasking_enabled' => task_table'
      BY <1>1 DEF IrqInv
    <2>2. int_flag' \in BOOLEAN /\ (int_flag' => pc' \in AfterSti)
      BY <1>1, <1>2
    <2>3. /\ (pic.irr \subseteq installed.lines)'
          /\ (pic.icw2 = <<32, 40>> /\ pic.imr = REMAP_PICS.imr /\ idt = IDT_INIT)'
      BY <1>1, <1>2 DEF IrqInv, REMAP_PICS, IDT_INIT, AfterPages
    <2>4. QED
      BY <1>2, <2>1, <2>2, <2>3 DEF IrqInv
  <1>5. QED
    BY <1>3, <1>4 DEF EntryInv

LEMMA KeyboardInitKeeps == ASSUME EntryInv, keyboard_init PROVE EntryInv'
  <1>1. /\ HeapInv /\ IrqInv /\ pc = "keyboard" /\ pc' = "heap" /\ int_flag' = TRUE
        /\ UNCHANGED <<installed, ebx, mmap_desc, page_table_ident, system_heap, pic, idt,
                       task_table, tasking_enabled>>
    BY DEF EntryInv, keyboard_init, loaderVars, mapVars, memoryVars, taskVars
  <1>2. /\ pc \in AfterPics \cup {"interrupts"} /\ pc \in AfterPages /\ pc \in AfterPics
        /\ pc' \in AfterPics /\ pc' \in AfterSti
    BY <1>1 DEF AfterPics, AfterPages, AfterSti
  <1>3. HeapInv'
    BY <1>1, <1>2, HeapKept
  <1>4. IrqInv'
    <2>1. /\ tasking_enabled' \in BOOLEAN /\ task_table' \in BOOLEAN
          /\ tasking_enabled' => task_table'
      BY <1>1 DEF IrqInv
    <2>2. int_flag' \in BOOLEAN /\ (int_flag' => pc' \in AfterSti)
      BY <1>1, <1>2
    <2>3. /\ (pic.irr \subseteq installed.lines)'
          /\ (pic.icw2 = <<32, 40>> /\ pic.imr = REMAP_PICS.imr /\ idt = IDT_INIT)'
      BY <1>1, <1>2 DEF IrqInv, REMAP_PICS, IDT_INIT
    <2>4. QED
      BY <1>2, <2>1, <2>2, <2>3 DEF IrqInv
  <1>5. QED
    BY <1>3, <1>4 DEF EntryInv

LEMMA DevicesKeep == ASSUME EntryInv, ide_init \/ fat32_init PROVE EntryInv'
  <1>1. /\ HeapInv /\ IrqInv /\ pc \in {"ide", "fat32"} /\ pc' \in {"fat32", "tasks", "halted"}
        /\ UNCHANGED <<installed, ebx, mmap_desc, page_table_ident, system_heap, pic, idt,
                       task_table, tasking_enabled>>
    BY DEF EntryInv, ide_init, fat32_init, SystemHalt, loaderVars, mapVars, memoryVars, taskVars
  <1>2. int_flag' = FALSE \/ (int_flag' = int_flag /\ pc' \in {"fat32", "tasks"})
    BY DEF ide_init, fat32_init, SystemHalt
  <1>3. /\ pc \in AfterPics /\ pc \in AfterPages
        /\ pc' \in BeforeMap \cup AfterPics \cup {"interrupts", "halted"}
        /\ pc' \in {"fat32", "tasks"} => pc' \in AfterSti
    BY <1>1 DEF AfterPics, AfterPages, AfterSti
  <1>4. HeapInv' /\ IrqInv'
    BY <1>1, <1>2, <1>3, HeapKept, IrqKept
  <1>5. QED
    BY <1>4 DEF EntryInv

LEMMA TasksKeep == ASSUME EntryInv, FillTaskTable \/ EnableTasking PROVE EntryInv'
  <1>1. /\ HeapInv /\ IrqInv /\ pc \in {"tasks", "tasking"} /\ pc' \in {"tasking", "kernel_task"}
        /\ UNCHANGED <<installed, ebx, mmap_desc, page_table_ident, system_heap, pic, idt, int_flag>>
        /\ task_table' = TRUE /\ tasking_enabled' \in {TRUE, tasking_enabled}
    BY DEF EntryInv, FillTaskTable, EnableTasking, TaskTable, loaderVars, mapVars, memoryVars, irqVars
  <1>2. /\ pc \in AfterPics /\ pc \in AfterPages /\ pc' \in AfterPics /\ pc' \in AfterSti
    BY <1>1 DEF AfterPics, AfterPages, AfterSti
  <1>3. HeapInv'
    BY <1>1, <1>2, HeapKept
  <1>4. IrqInv'
    <2>1. tasking_enabled' \in BOOLEAN /\ task_table' \in BOOLEAN /\ task_table'
      BY <1>1 DEF IrqInv
    <2>2. int_flag' \in BOOLEAN
      BY <1>1 DEF IrqInv
    <2>3. /\ (pic.irr \subseteq installed.lines)'
          /\ (pic.icw2 = <<32, 40>> /\ pic.imr = REMAP_PICS.imr /\ idt = IDT_INIT)'
      BY <1>1, <1>2 DEF IrqInv, REMAP_PICS, IDT_INIT
    <2>4. QED
      BY <1>2, <2>1, <2>2, <2>3 DEF IrqInv
  <1>5. QED
    BY <1>3, <1>4 DEF EntryInv

-----------------------------------------------------------------------------
(* Interrupts.                                                             *)

LEMMA RaiseKeeps == ASSUME EntryInv, Raise PROVE EntryInv'
  <1>1. /\ HeapInv /\ IrqInv
        /\ UNCHANGED <<installed, pc, ebx, mmap_desc, page_table_ident, system_heap, idt, int_flag,
                       task_table, tasking_enabled>>
    BY DEF EntryInv, Raise, vars, mapVars, memoryVars, taskVars
  <1>2. PICK line \in installed.lines : pic' = Raised(line)
    BY DEF Raise
  <1>3. pic'.irr = pic.irr \cup {line} /\ pic'.icw2 = pic.icw2 /\ pic'.imr = pic.imr
    BY <1>2 DEF Raised
  <1>4. HeapInv'
    BY <1>1, HeapKept
  <1>5. IrqInv'
    BY <1>1, <1>2, <1>3 DEF IrqInv, REMAP_PICS, IDT_INIT
  <1>6. QED
    BY <1>4, <1>5 DEF EntryInv

(* A line that interrupts the CPU has a handler, and it returns.           *)
LEMMA InterruptReturns ==
  ASSUME EntryInv, NEW line \in 0 .. 15, Interrupt(line)
  PROVE  pc' = pc /\ int_flag' = TRUE /\ pic' = Served(line) /\ pc \in AfterSti
  <1>1. IrqInv /\ int_flag /\ line \in pic.irr \ pic.imr /\ installed \in Installations
    BY DEF EntryInv, HeapInv, Interrupt, Deliverable
  <1>2. pc \in AfterSti /\ pc \in AfterPics
    BY <1>1, Zenon DEF IrqInv, AfterSti, AfterPages
  <1>3. /\ pic.icw2 = <<32, 40>> /\ idt = IDT_INIT
        /\ pic.imr = (3 .. 7) \cup ((8 .. 15) \ {14})
    BY <1>1, <1>2 DEF IrqInv, REMAP_PICS
  <1>4. line \in {0, 1, 14}
    <2>1. line # 2
      BY <1>1, Answers DEF IrqInv
    <2>2. QED
      BY <1>1, <1>3, <2>1
  <1>5. Vector(line) \in {32, 33, 46}
    BY <1>3, <1>4 DEF Vector
  <1>6. Vector(line) \in DOMAIN idt /\ idt[Vector(line)] \in {0, 1, 14}
    BY <1>3, <1>5 DEF IDT_INIT
  <1>7. idt[Vector(line)] # fault_handler
    BY <1>6 DEF fault_handler
  <1>8. tasking_enabled => task_table
    BY <1>1 DEF IrqInv
  <1> DEFINE handler == IF Vector(line) \in DOMAIN idt THEN idt[Vector(line)] ELSE fault_handler
             end == CASE handler = fault_handler -> "fault"
                      [] handler = 0 /\ tasking_enabled /\ ~task_table -> "hung"
                      [] OTHER -> "returns"
  <1>9. handler # fault_handler /\ ~(handler = 0 /\ tasking_enabled /\ ~task_table)
    BY <1>6, <1>7, <1>8
  <1>10. /\ pc' = IF end = "returns" THEN pc ELSE end
         /\ int_flag' = (end = "returns")
         /\ pic' = IF end = "returns" THEN Served(line) ELSE pic
    BY DEF Interrupt
  <1> HIDE DEF handler
  <1>11. end = "returns"
    BY <1>9
  <1> HIDE DEF end
  <1>12. QED
    BY <1>2, <1>10, <1>11

LEMMA InterruptKeeps ==
  ASSUME EntryInv, NEW line \in 0 .. 15, Interrupt(line)
  PROVE  EntryInv'
  <1>1. /\ HeapInv /\ IrqInv
        /\ UNCHANGED <<installed, ebx, mmap_desc, page_table_ident, system_heap, idt,
                       task_table, tasking_enabled>>
    BY DEF EntryInv, Interrupt, loaderVars, mapVars, memoryVars, taskVars
  <1>2. pc' = pc /\ int_flag' = TRUE /\ pic' = Served(line) /\ pc \in AfterSti
    BY InterruptReturns
  <1>3. pic'.irr = pic.irr \ {line} /\ pic'.icw2 = pic.icw2 /\ pic'.imr = pic.imr
    BY <1>2 DEF Served
  <1>4. HeapInv'
    BY <1>1, <1>2, HeapKept
  <1>5. IrqInv'
    <2>1. int_flag' \in BOOLEAN /\ (int_flag' => pc' \in AfterSti)
      BY <1>2
    <2>2. QED
      BY <1>1, <1>2, <1>3, <2>1 DEF IrqInv, REMAP_PICS, IDT_INIT
  <1>6. QED
    BY <1>4, <1>5 DEF EntryInv

LEMMA EntryNext == EntryInv /\ [KernelNext]_allVars => EntryInv'
  <1> SUFFICES ASSUME EntryInv, [KernelNext]_allVars PROVE EntryInv'
    OBVIOUS
  <1>1. CASE Step
    BY <1>1, LoaderKeeps, MemoryMapInitKeeps, InitInterruptsKeeps, PagingKeeps, KeyboardInitKeeps,
       HeapInitKeeps, DevicesKeep, TasksKeep DEF Step
  <1>2. CASE Raise
    BY <1>2, RaiseKeeps
  <1>3. CASE \E line \in 0 .. 15 : Interrupt(line)
    BY <1>3, InterruptKeeps
  <1>4. CASE UNCHANGED allVars
    <2>1. UNCHANGED <<installed, pc, ebx, mmap_desc, page_table_ident, system_heap, pic, idt,
                      int_flag, task_table, tasking_enabled>>
      BY <1>4 DEF allVars, vars, mapVars, kernelVars, irqVars, memoryVars, taskVars
    <2>2. HeapInv' /\ IrqInv'
      BY <2>1, HeapKept DEF EntryInv, IrqInv, REMAP_PICS, IDT_INIT
    <2>3. QED
      BY <2>2 DEF EntryInv
  <1>5. QED
    BY <1>1, <1>2, <1>3, <1>4 DEF KernelNext

(* The inductive invariant of the way from the boot sector to kernel_task. *)
THEOREM EntryInvariant == KernelSpec => []EntryInv
  BY EntryStart, EntryNext, PTL DEF KernelSpec

(* From the keyboard's initialisation on, each interrupt that the masks    *)
(* let through has its handler (irq.asm, idt.asm), and schedule, which the *)
(* timer calls, finds a task if it looks for one (tasking_init).           *)
THEOREM EntryHandlersReady == KernelSpec => []HandlersReady
  <1>1. EntryInv => HandlersReady
    BY DEF EntryInv, IrqInv, HandlersReady, BeforeMap, AfterPics
  <1>2. QED
    BY <1>1, EntryInvariant, PTL

-----------------------------------------------------------------------------
(* The heap.                                                               *)

(* Every address that the tables cover is mapped to itself.                *)
LEMMA IdentityMaps ==
  ASSUME page_table_ident = Identity, NEW a \in Nat, a < PTI_COUNT * TableSize * PAGE_SIZE
  PROVE  Physical(a) = a
  <1> DEFINE p == PAGE_SIZE
             t == TableSize
             page == a \div p
             n == page \div t
             i == page % t
  <1>1. p \in Nat /\ p > 0 /\ t \in Nat /\ t > 0 /\ PTI_COUNT \in Nat
    BY Constants
  <1> HIDE DEF p, t
  <1>2. page \in Nat /\ page * p <= a /\ a < page * p + p /\ a % p = a - page * p
    BY <1>1, Quotient
  <1>3. n \in Nat /\ n * t <= page /\ page < n * t + t /\ i = page - n * t
    <2> HIDE DEF page
    <2>1. QED
      BY <1>1, <1>2, Quotient DEF page
  <1> HIDE DEF page, n, i
  <1>4. page < PTI_COUNT * t
    <2> SUFFICES ASSUME ~(page < PTI_COUNT * t) PROVE FALSE
      OBVIOUS
    <2>1. PTI_COUNT * t \in Nat /\ PTI_COUNT * t <= page
      BY <1>1, <1>2
    <2>2. (PTI_COUNT * t) * p <= page * p
      BY <1>1, <1>2, <2>1, MonoLeq
    <2>3. a < (PTI_COUNT * t) * p /\ (PTI_COUNT * t) * p \in Nat /\ page * p \in Nat
      BY <1>1, <1>2 DEF p, t
    <2>4. QED
      BY <1>2, <2>2, <2>3
  <1>5. n < PTI_COUNT
    <2> SUFFICES ASSUME ~(n < PTI_COUNT) PROVE FALSE
      OBVIOUS
    <2>1. PTI_COUNT <= n
      BY <1>1, <1>3
    <2>2. PTI_COUNT * t <= n * t
      BY <1>1, <1>3, <2>1, MonoLeq
    <2>3. PTI_COUNT * t \in Nat /\ n * t \in Nat
      BY <1>1, <1>3
    <2>4. QED
      BY <1>2, <1>3, <1>4, <2>2, <2>3
  <1>6. n \in 0 .. (PTI_COUNT - 1) /\ i \in 0 .. (t - 1)
    <2>1. n * t \in Nat
      BY <1>1, <1>3
    <2>2. QED
      BY <1>1, <1>2, <1>3, <1>5, <2>1
  <1>7. page_table_ident[n][i] = n * t * p + i * p
    BY <1>6 DEF Identity, t, p
  <1>8. n * t * p + i * p = page * p
    <2>1. n * t \in Nat /\ i \in Nat /\ n * t + i = page
      BY <1>1, <1>2, <1>3, <1>6
    <2> DEFINE m == n * t
    <2> HIDE DEF m
    <2>2. m \in Nat /\ m + i = page
      BY <2>1 DEF m
    <2>3. m * p + i * p = (m + i) * p
      BY <1>1, <2>1, <2>2
    <2>4. QED
      BY <2>2, <2>3 DEF m
  <1>9. Physical(a) = page_table_ident[n][i] + (a % p)
    BY DEF Physical, p, t, page, n, i
  <1>10. page * p \in Nat
    BY <1>1, <1>2
  <1>11. QED
    BY <1>2, <1>7, <1>8, <1>9, <1>10

LEMMA EntryGivesHeap == EntryInv => HeapUsable
  <1> SUFFICES ASSUME EntryInv, system_heap # None, IgnoredIsSkipped,
                      \A answer \in Range(installed.e820) :
                        answer.type = 1 /\ answer.base = KERNEL_PHYSICAL_BASE =>
                          Length(answer) >= 2 * Megabyte /\ answer.base_high = 0,
                      NEW a \in system_heap.base .. (system_heap.base + system_heap.size - 1)
               PROVE  /\ Physical(a) = a
                      /\ \E answer \in Range(installed.e820) : Usable(answer) /\ Inside(a, answer)
    BY DEF HeapUsable
  <1>1. /\ MainFound /\ page_table_ident = Identity
        /\ system_heap = [base |-> KERNEL_PHYSICAL_BASE + Megabyte, size |-> Megabyte]
        /\ mmap_desc \in Seq(Range(installed.e820)) /\ installed \in Installations
    BY DEF EntryInv, HeapInv
  <1>2. system_heap.base = KERNEL_PHYSICAL_BASE + Megabyte /\ system_heap.size = Megabyte
    BY <1>1
  <1>3. /\ a \in Nat /\ KERNEL_PHYSICAL_BASE <= a /\ a < KERNEL_PHYSICAL_BASE + 2 * Megabyte
    BY <1>2, Constants
  <1>4. Physical(a) = a
    <2>1. PTI_COUNT * TableSize * PAGE_SIZE \in Nat
      BY Constants
    <2>2. a < PTI_COUNT * TableSize * PAGE_SIZE
      BY <1>3, <2>1, Constants
    <2>3. QED
      BY <1>1, <1>3, <2>2, IdentityMaps
  <1>5. PICK i \in DOMAIN mmap_desc :
          mmap_desc[i].type = 1 /\ mmap_desc[i].base = KERNEL_PHYSICAL_BASE
    BY <1>1 DEF MainFound
  <1> DEFINE main == mmap_desc[i]
  <1>6. main \in Range(installed.e820) /\ main.type = 1 /\ main.base = KERNEL_PHYSICAL_BASE
    BY <1>1, <1>5
  <1>7. ~ToIgnore(main)
    BY <1>5 DEF IgnoredIsSkipped
  <1> HIDE DEF main
  <1>8. Length(main) >= 2 * Megabyte /\ main.base_high = 0
    BY <1>6
  <1>9. main.high \in Nat /\ main.low \in Nat
    BY <1>1, <1>6, Answers
  <1>10. Length(main) \in Nat
    BY <1>9, Constants DEF Length
  <1>11. Inside(a, main)
    <2>1. a < KERNEL_PHYSICAL_BASE + Length(main)
      BY <1>3, <1>8, <1>10, Constants
    <2>2. QED
      BY <1>3, <1>6, <1>8, <2>1 DEF Inside
  <1>12. QED
    BY <1>4, <1>6, <1>7, <1>11 DEF Usable

(* The heap lies in memory that the BIOS says may be used, and the pages   *)
(* lead there: from BIOS_MEMORY_MAP over memory_map_init and paging_init   *)
(* to heap_init, with the exceptions that HeapUsable names.                *)
THEOREM EntryHeapUsable == KernelSpec => []HeapUsable
  BY EntryInvariant, EntryGivesHeap, PTL

-----------------------------------------------------------------------------
(* The table of the devices, and the loops that fill it.                   *)

Tables == Seq({installed.bus[at] : at \in DOMAIN installed.bus})

SlotRounds(f, table, bus, slot) ==
  /\ f \in [0 .. FuncLimit(table, bus, slot) -> Tables] /\ f[0] = table
  /\ \A k \in 1 .. FuncLimit(table, bus, slot) : f[k] = Probe(f[k - 1], <<bus, slot, k - 1>>)
  /\ ProbeSlot(table, bus, slot) = f[FuncLimit(table, bus, slot)]

BusRounds(f, table, bus) ==
  /\ f \in [0 .. Slots -> Tables] /\ f[0] = table
  /\ \A k \in 1 .. Slots : f[k] = ProbeSlot(f[k - 1], bus, k - 1)
  /\ ProbeBus(table, bus) = f[Slots]

AllRounds(f) ==
  /\ f \in [0 .. Buses -> Tables] /\ f[0] = <<>>
  /\ \A k \in 1 .. Buses : f[k] = ProbeBus(f[k - 1], k - 1)
  /\ pci_probe_devices = f[Buses]

LEMMA Counts ==
  /\ Buses \in Nat /\ Slots \in Nat /\ Functions \in Nat /\ Functions >= 1 /\ MaxDevices \in Nat
  BY KernelAssumption

LEMMA ProbeType == ASSUME NEW t \in Tables, NEW at PROVE Probe(t, at) \in Tables
  BY DEF Probe, Present, Tables

(* The functions of a slot.                                                *)
LEMMA ProbeSlotRuns ==
  ASSUME NEW table \in Tables, NEW bus \in Nat, NEW slot \in Nat
  PROVE  \E f : SlotRounds(f, table, bus, slot)
  <1> DEFINE n == FuncLimit(table, bus, slot)
             F == [p \in (1 .. n) \X Tables |-> Probe(p[2], <<bus, slot, p[1] - 1>>)]
             Eq(h) == h = [k \in 0 .. n |-> IF k = 0 THEN table ELSE Probe(h[k - 1], <<bus, slot, k - 1>>)]
             f == CHOOSE h : Eq(h)
             N == {k \in Nat : k <= n => f[k] \in Tables}
  <1>1. n \in Nat /\ table \in Tables
    BY Counts DEF FuncLimit
  <1>2. ProbeSlot(table, bus, slot) = f[n]
    BY DEF ProbeSlot
  <1> HIDE DEF n
  <1>3. ASSUME NEW k \in 1 .. n, NEW v \in Tables
        PROVE  F[<<k, v>>] = Probe(v, <<bus, slot, k - 1>>) /\ F[<<k, v>>] \in Tables
    <2>1. F[<<k, v>>] = Probe(v, <<bus, slot, k - 1>>)
      OBVIOUS
    <2>2. k - 1 \in Nat
      BY <1>1
    <2>3. Probe(v, <<bus, slot, k - 1>>) \in Tables
      BY <2>2, ProbeType
    <2>4. QED
      BY <2>1, <2>3
  <1> HIDE DEF F
  <1>4. Steps(F, 1 .. n, Tables)
    BY <1>3 DEF Steps
  <1>5. PICK g : Bounded(g, n, Tables, table, F)
    BY <1>1, <1>4, BoundedRecursion
  <1>6. /\ g \in [0 .. n -> Tables]
        /\ g = [k \in 0 .. n |-> IF k = 0 THEN table ELSE F[<<k, g[k - 1]>>]]
    BY <1>5 DEF Bounded
  <1>7. ASSUME NEW k \in 0 .. n, k # 0
        PROVE  F[<<k, g[k - 1]>>] = Probe(g[k - 1], <<bus, slot, k - 1>>)
    <2>1. k \in 1 .. n /\ k - 1 \in 0 .. n
      BY <1>1, <1>7
    <2>2. g[k - 1] \in Tables
      BY <1>6, <2>1
    <2>3. QED
      BY <1>3, <2>1, <2>2
  <1>8. Eq(g)
    BY <1>6, <1>7
  <1> HIDE DEF Eq
  <1>9. Eq(f)
    BY <1>8
  <1> HIDE DEF f
  <1> USE DEF Eq
  <1>10. f[0] = table /\ DOMAIN f = 0 .. n
    BY <1>1, <1>9
  <1>11. ASSUME NEW k \in 1 .. n
         PROVE  f[k] = Probe(f[k - 1], <<bus, slot, k - 1>>)
    <2>1. k \in 0 .. n /\ k # 0
      BY <1>1
    <2>2. QED
      BY <1>9, <2>1
  <1>12. f = [k \in 0 .. n |-> f[k]]
    BY <1>9
  <1> HIDE DEF Eq
  <1>13. 0 \in N
    BY <1>1, <1>10
  <1>14. ASSUME NEW k \in Nat, k \in N PROVE k + 1 \in N
    <2> SUFFICES ASSUME k + 1 <= n PROVE f[k + 1] \in Tables
      OBVIOUS
    <2>1. k + 1 \in 1 .. n /\ k + 1 - 1 = k /\ k <= n
      BY <1>1
    <2>2. f[k] \in Tables
      BY <1>14, <2>1
    <2>3. f[k + 1] = Probe(f[k], <<bus, slot, (k + 1) - 1>>)
      BY <1>11, <2>1
    <2>4. QED
      BY <2>1, <2>2, <2>3, ProbeType
  <1> HIDE DEF N
  <1>15. Nat \subseteq N
    BY <1>13, <1>14, InductionNat
  <1>16. \A k \in 0 .. n : f[k] \in Tables
    BY <1>1, <1>15 DEF N
  <1>17. f \in [0 .. n -> Tables]
    BY <1>12, <1>16
  <1>18. QED
    BY <1>2, <1>10, <1>11, <1>17 DEF n, SlotRounds

LEMMA ProbeSlotType ==
  ASSUME NEW table \in Tables, NEW bus \in Nat, NEW slot \in Nat
  PROVE  ProbeSlot(table, bus, slot) \in Tables
  <1>1. FuncLimit(table, bus, slot) \in Nat
    BY Counts DEF FuncLimit
  <1>2. PICK f : SlotRounds(f, table, bus, slot)
    BY ProbeSlotRuns
  <1>3. QED
    BY <1>1, <1>2 DEF SlotRounds

(* The slots of a bus.                                                     *)
LEMMA ProbeBusRuns ==
  ASSUME NEW table \in Tables, NEW bus \in Nat
  PROVE  \E f : BusRounds(f, table, bus)
  <1> DEFINE n == Slots
             F == [p \in (1 .. n) \X Tables |-> ProbeSlot(p[2], bus, p[1] - 1)]
             Eq(h) == h = [k \in 0 .. n |-> IF k = 0 THEN table ELSE ProbeSlot(h[k - 1], bus, k - 1)]
             f == CHOOSE h : Eq(h)
             N == {k \in Nat : k <= n => f[k] \in Tables}
  <1>1. n \in Nat /\ table \in Tables
    BY Counts
  <1>2. ProbeBus(table, bus) = f[n]
    BY DEF ProbeBus
  <1> HIDE DEF n
  <1>3. ASSUME NEW k \in 1 .. n, NEW v \in Tables
        PROVE  F[<<k, v>>] = ProbeSlot(v, bus, k - 1) /\ F[<<k, v>>] \in Tables
    <2>1. F[<<k, v>>] = ProbeSlot(v, bus, k - 1)
      OBVIOUS
    <2>2. k - 1 \in Nat
      BY <1>1
    <2>3. ProbeSlot(v, bus, k - 1) \in Tables
      BY <2>2, ProbeSlotType
    <2>4. QED
      BY <2>1, <2>3
  <1> HIDE DEF F
  <1>4. Steps(F, 1 .. n, Tables)
    BY <1>3 DEF Steps
  <1>5. PICK g : Bounded(g, n, Tables, table, F)
    BY <1>1, <1>4, BoundedRecursion
  <1>6. /\ g \in [0 .. n -> Tables]
        /\ g = [k \in 0 .. n |-> IF k = 0 THEN table ELSE F[<<k, g[k - 1]>>]]
    BY <1>5 DEF Bounded
  <1>7. ASSUME NEW k \in 0 .. n, k # 0
        PROVE  F[<<k, g[k - 1]>>] = ProbeSlot(g[k - 1], bus, k - 1)
    <2>1. k \in 1 .. n /\ k - 1 \in 0 .. n
      BY <1>1, <1>7
    <2>2. g[k - 1] \in Tables
      BY <1>6, <2>1
    <2>3. QED
      BY <1>3, <2>1, <2>2
  <1>8. Eq(g)
    BY <1>6, <1>7
  <1> HIDE DEF Eq
  <1>9. Eq(f)
    BY <1>8
  <1> HIDE DEF f
  <1> USE DEF Eq
  <1>10. f[0] = table /\ DOMAIN f = 0 .. n
    BY <1>1, <1>9
  <1>11. ASSUME NEW k \in 1 .. n
         PROVE  f[k] = ProbeSlot(f[k - 1], bus, k - 1)
    <2>1. k \in 0 .. n /\ k # 0
      BY <1>1
    <2>2. QED
      BY <1>9, <2>1
  <1>12. f = [k \in 0 .. n |-> f[k]]
    BY <1>9
  <1> HIDE DEF Eq
  <1>13. 0 \in N
    BY <1>1, <1>10
  <1>14. ASSUME NEW k \in Nat, k \in N PROVE k + 1 \in N
    <2> SUFFICES ASSUME k + 1 <= n PROVE f[k + 1] \in Tables
      OBVIOUS
    <2>1. k + 1 \in 1 .. n /\ k + 1 - 1 = k /\ k <= n
      BY <1>1
    <2>2. f[k] \in Tables
      BY <1>14, <2>1
    <2>3. f[k + 1] = ProbeSlot(f[k], bus, (k + 1) - 1)
      BY <1>11, <2>1
    <2>4. QED
      BY <2>1, <2>2, <2>3, ProbeSlotType
  <1> HIDE DEF N
  <1>15. Nat \subseteq N
    BY <1>13, <1>14, InductionNat
  <1>16. \A k \in 0 .. n : f[k] \in Tables
    BY <1>1, <1>15 DEF N
  <1>17. f \in [0 .. n -> Tables]
    BY <1>12, <1>16
  <1>18. QED
    BY <1>2, <1>10, <1>11, <1>17 DEF n, BusRounds

LEMMA ProbeBusType ==
  ASSUME NEW table \in Tables, NEW bus \in Nat PROVE ProbeBus(table, bus) \in Tables
  <1>1. PICK f : BusRounds(f, table, bus)
    BY ProbeBusRuns
  <1>2. QED
    BY <1>1, Counts DEF BusRounds

(* All buses.                                                              *)
LEMMA ProbeRuns ==
         \E f : AllRounds(f)
  <1> DEFINE n == Buses
             F == [p \in (1 .. n) \X Tables |-> ProbeBus(p[2], p[1] - 1)]
             Eq(h) == h = [k \in 0 .. n |-> IF k = 0 THEN <<>> ELSE ProbeBus(h[k - 1], k - 1)]
             f == CHOOSE h : Eq(h)
             N == {k \in Nat : k <= n => f[k] \in Tables}
  <1>1. n \in Nat /\ <<>> \in Tables
    BY Counts, EmptySeq DEF Tables
  <1>2. pci_probe_devices = f[n]
    BY DEF pci_probe_devices
  <1> HIDE DEF n
  <1>3. ASSUME NEW k \in 1 .. n, NEW v \in Tables
        PROVE  F[<<k, v>>] = ProbeBus(v, k - 1) /\ F[<<k, v>>] \in Tables
    <2>1. F[<<k, v>>] = ProbeBus(v, k - 1)
      OBVIOUS
    <2>2. k - 1 \in Nat
      BY <1>1
    <2>3. ProbeBus(v, k - 1) \in Tables
      BY <2>2, ProbeBusType
    <2>4. QED
      BY <2>1, <2>3
  <1> HIDE DEF F
  <1>4. Steps(F, 1 .. n, Tables)
    BY <1>3 DEF Steps
  <1>5. PICK g : Bounded(g, n, Tables, <<>>, F)
    BY <1>1, <1>4, BoundedRecursion
  <1>6. /\ g \in [0 .. n -> Tables]
        /\ g = [k \in 0 .. n |-> IF k = 0 THEN <<>> ELSE F[<<k, g[k - 1]>>]]
    BY <1>5 DEF Bounded
  <1>7. ASSUME NEW k \in 0 .. n, k # 0
        PROVE  F[<<k, g[k - 1]>>] = ProbeBus(g[k - 1], k - 1)
    <2>1. k \in 1 .. n /\ k - 1 \in 0 .. n
      BY <1>1, <1>7
    <2>2. g[k - 1] \in Tables
      BY <1>6, <2>1
    <2>3. QED
      BY <1>3, <2>1, <2>2
  <1>8. Eq(g)
    BY <1>6, <1>7
  <1> HIDE DEF Eq
  <1>9. Eq(f)
    BY <1>8
  <1> HIDE DEF f
  <1> USE DEF Eq
  <1>10. f[0] = <<>> /\ DOMAIN f = 0 .. n
    BY <1>1, <1>9
  <1>11. ASSUME NEW k \in 1 .. n
         PROVE  f[k] = ProbeBus(f[k - 1], k - 1)
    <2>1. k \in 0 .. n /\ k # 0
      BY <1>1
    <2>2. QED
      BY <1>9, <2>1
  <1>12. f = [k \in 0 .. n |-> f[k]]
    BY <1>9
  <1> HIDE DEF Eq
  <1>13. 0 \in N
    BY <1>1, <1>10
  <1>14. ASSUME NEW k \in Nat, k \in N PROVE k + 1 \in N
    <2> SUFFICES ASSUME k + 1 <= n PROVE f[k + 1] \in Tables
      OBVIOUS
    <2>1. k + 1 \in 1 .. n /\ k + 1 - 1 = k /\ k <= n
      BY <1>1
    <2>2. f[k] \in Tables
      BY <1>14, <2>1
    <2>3. f[k + 1] = ProbeBus(f[k], (k + 1) - 1)
      BY <1>11, <2>1
    <2>4. QED
      BY <2>1, <2>2, <2>3, ProbeBusType
  <1> HIDE DEF N
  <1>15. Nat \subseteq N
    BY <1>13, <1>14, InductionNat
  <1>16. \A k \in 0 .. n : f[k] \in Tables
    BY <1>1, <1>15 DEF N
  <1>17. f \in [0 .. n -> Tables]
    BY <1>12, <1>16
  <1>18. QED
    BY <1>2, <1>10, <1>11, <1>17 DEF n, AllRounds

-----------------------------------------------------------------------------
(* The table of a set E of devices, in the order of their addresses.       *)

Place(at, E) == Cardinality({other \in E : Before(other, at)}) + 1

Lists(t, E) ==
  /\ Len(t) = IF Cardinality(E) < MaxDevices THEN Cardinality(E) ELSE MaxDevices
  /\ \A at \in E : Place(at, E) <= MaxDevices => t[Place(at, E)] = installed.bus[at]

LEMMA PlaceIsNat ==
  ASSUME NEW E, IsFiniteSet(E), NEW at
  PROVE  /\ {other \in E : Before(other, at)} \in SUBSET E
         /\ Place(at, E) \in Nat /\ Place(at, E) >= 1 /\ Place(at, E) <= Cardinality(E) + 1
  <1> DEFINE T == {other \in E : Before(other, at)}
  <1>1. T \in SUBSET E
    OBVIOUS
  <1> HIDE DEF T
  <1>2. IsFiniteSet(T) /\ Cardinality(T) <= Cardinality(E)
    BY <1>1, FS_Subset
  <1>3. Cardinality(T) \in Nat /\ Cardinality(E) \in Nat
    BY <1>2, FS_CardinalityType
  <1>4. Place(at, E) = Cardinality(T) + 1
    BY DEF Place, T
  <1>5. QED
    BY <1>1, <1>2, <1>3, <1>4 DEF T

(* One that is in E is not before itself, so its place is among them.      *)
LEMMA PlaceOfMember ==
  ASSUME NEW E, IsFiniteSet(E), NEW at \in E, ~Before(at, at)
  PROVE  Place(at, E) <= Cardinality(E)
  <1> DEFINE T == {other \in E : Before(other, at)}
  <1>1. T \in SUBSET E /\ at \notin T
    OBVIOUS
  <1> HIDE DEF T
  <1>2. IsFiniteSet(T) /\ Cardinality(T) <= Cardinality(E) /\ Cardinality(T) # Cardinality(E)
    BY <1>1, FS_Subset
  <1>3. Cardinality(T) \in Nat /\ Cardinality(E) \in Nat
    BY <1>2, FS_CardinalityType
  <1>4. Place(at, E) = Cardinality(T) + 1
    BY DEF Place, T
  <1>5. QED
    BY <1>2, <1>3, <1>4

(* The next device goes to the end of the table, if there is room.         *)
LEMMA ListsOneMore ==
  ASSUME installed \in Installations,
         NEW E, IsFiniteSet(E), NEW t \in Tables, Lists(t, E),
         NEW at \in DOMAIN installed.bus, at \notin E, ~Before(at, at),
         \A e \in E : Before(e, at) /\ ~Before(at, e) /\ ~Before(e, e)
  PROVE  Lists(IF Len(t) < MaxDevices THEN Append(t, installed.bus[at]) ELSE t, E \cup {at})
  <1> DEFINE u == IF Len(t) < MaxDevices THEN Append(t, installed.bus[at]) ELSE t
             D == E \cup {at}
             d == installed.bus[at]
             c == Cardinality(E)
  <1>1. IsFiniteSet(D) /\ Cardinality(D) = c + 1
    BY FS_AddElement
  <1>2. c \in Nat /\ MaxDevices \in Nat
    BY FS_CardinalityType, Counts
  <1>3. \A e \in E : Place(e, D) = Place(e, E)
    <2> SUFFICES ASSUME NEW e \in E PROVE Place(e, D) = Place(e, E)
      OBVIOUS
    <2>1. {other \in D : Before(other, e)} = {other \in E : Before(other, e)}
      OBVIOUS
    <2>2. QED
      BY <2>1 DEF Place
  <1>4. Place(at, D) = c + 1
    <2>1. {other \in D : Before(other, at)} = E
      OBVIOUS
    <2>2. QED
      BY <2>1 DEF Place
  <1>5. \A e \in E : Place(e, E) \in Nat /\ Place(e, E) >= 1 /\ Place(e, E) <= c
    BY PlaceIsNat, PlaceOfMember
  <1>6. /\ Len(t) = IF c < MaxDevices THEN c ELSE MaxDevices
        /\ \A e \in E : Place(e, E) <= MaxDevices => t[Place(e, E)] = installed.bus[e]
    BY DEF Lists
  <1>7. t \in Seq({installed.bus[a] : a \in DOMAIN installed.bus})
        /\ d \in {installed.bus[a] : a \in DOMAIN installed.bus}
    BY DEF Tables
  <1> HIDE DEF D, c, d
  <1>8. CASE Len(t) < MaxDevices
    <2>1. Len(t) = c /\ c < MaxDevices /\ c + 1 <= MaxDevices
      BY <1>2, <1>6, <1>8
    <2>2. u = Append(t, d)
      BY <1>8 DEF d
    <2>3. Len(u) = c + 1 /\ u[c + 1] = d /\ \A k \in 1 .. c : u[k] = t[k]
      BY <1>2, <1>7, <2>1, <2>2, AppendProperties
    <2> HIDE DEF u
    <2>4. Len(u) = IF Cardinality(D) < MaxDevices THEN Cardinality(D) ELSE MaxDevices
      <3>1. c + 1 = IF c + 1 < MaxDevices THEN c + 1 ELSE MaxDevices
        BY ONLY <1>2, <2>1
      <3>2. QED
        BY <1>1, <2>3, <3>1
    <2>5. ASSUME NEW e \in D, Place(e, D) <= MaxDevices PROVE u[Place(e, D)] = installed.bus[e]
      <3>1. CASE e = at
        BY <1>4, <2>3, <3>1 DEF d
      <3>2. CASE e # at
        <4>1. e \in E
          BY <3>2 DEF D
        <4>2. Place(e, E) \in 1 .. c /\ Place(e, E) <= MaxDevices /\ Place(e, D) = Place(e, E)
          BY <1>2, <1>3, <1>5, <2>5, <4>1
        <4>3. QED
          BY <1>6, <2>3, <4>1, <4>2
      <3>3. QED
        BY <3>1, <3>2
    <2>6. QED
      BY <2>4, <2>5 DEF Lists, u, D
  <1>9. CASE ~(Len(t) < MaxDevices)
    <2>1. u = t /\ Len(t) = MaxDevices /\ c >= MaxDevices
      BY <1>2, <1>6, <1>9
    <2>2. Len(t) = IF Cardinality(D) < MaxDevices THEN Cardinality(D) ELSE MaxDevices
      <3>1. MaxDevices = IF c + 1 < MaxDevices THEN c + 1 ELSE MaxDevices
        BY ONLY <1>2, <2>1
      <3>2. QED
        BY <1>1, <2>1, <3>1
    <2>3. ASSUME NEW e \in D, Place(e, D) <= MaxDevices PROVE t[Place(e, D)] = installed.bus[e]
      <3>1. e # at
        BY <1>2, <1>4, <2>1, <2>3
      <3>2. e \in E
        BY <3>1 DEF D
      <3>3. QED
        BY <1>3, <1>6, <2>3, <3>2
    <2>4. QED
      BY <2>1, <2>2, <2>3 DEF Lists, D
  <1>10. QED
    BY <1>8, <1>9

(* A full table goes on to list what comes after all that is in it.        *)
LEMMA ListsWhenFull ==
  ASSUME installed \in Installations,
         NEW E, NEW D, IsFiniteSet(D), E \in SUBSET D, NEW t, Lists(t, E), Len(t) = MaxDevices,
         \A e \in E, d \in D \ E : Before(e, d) /\ ~Before(d, e)
  PROVE  Lists(t, D)
  <1>1. IsFiniteSet(E) /\ Cardinality(E) <= Cardinality(D)
    BY FS_Subset
  <1>2. Cardinality(E) \in Nat /\ Cardinality(D) \in Nat /\ MaxDevices \in Nat
    BY <1>1, FS_CardinalityType, Counts
  <1>3. /\ Len(t) = IF Cardinality(E) < MaxDevices THEN Cardinality(E) ELSE MaxDevices
        /\ \A e \in E : Place(e, E) <= MaxDevices => t[Place(e, E)] = installed.bus[e]
    BY DEF Lists
  <1>4. Cardinality(E) >= MaxDevices
    BY ONLY <1>2, <1>3, Len(t) = MaxDevices
  <1>5. Len(t) = IF Cardinality(D) < MaxDevices THEN Cardinality(D) ELSE MaxDevices
    BY ONLY <1>1, <1>2, <1>4, Len(t) = MaxDevices
  <1>6. ASSUME NEW d \in D, Place(d, D) <= MaxDevices PROVE t[Place(d, D)] = installed.bus[d]
    <2>1. CASE d \in E
      <3>1. {other \in D : Before(other, d)} = {other \in E : Before(other, d)}
        BY <2>1
      <3>2. Place(d, D) = Place(d, E)
        BY <3>1 DEF Place
      <3>3. QED
        BY <1>3, <1>6, <2>1, <3>2
    <2>2. CASE d \notin E
      <3> DEFINE T == {other \in D : Before(other, d)}
      <3>1. E \in SUBSET T /\ T \in SUBSET D
        BY <2>2
      <3> HIDE DEF T
      <3>2. IsFiniteSet(T)
        BY <3>1, FS_Subset
      <3>3. Cardinality(T) \in Nat /\ Cardinality(E) <= Cardinality(T)
        BY <3>1, <3>2, FS_Subset, FS_CardinalityType
      <3>4. Place(d, D) = Cardinality(T) + 1
        BY DEF Place, T
      <3>5. QED
        BY ONLY <1>2, <1>4, <1>6, <3>3, <3>4
    <2>3. QED
      BY <2>1, <2>2
  <1>7. QED
    BY <1>5, <1>6 DEF Lists

-----------------------------------------------------------------------------
(* Where the functions are, and those before an address.                   *)

LEMMA EndpointsAreFinite ==
  ASSUME installed \in Installations PROVE IsFiniteSet(Endpoints)
  <1> DEFINE A == 0 .. (Buses - 1)
             B == 0 .. (Slots - 1)
             C == 0 .. (Functions - 1)
             P == (A \X B) \X C
             R == A \X B \X C
             f == [p \in P |-> <<p[1][1], p[1][2], p[2]>>]
  <1>1. IsFiniteSet(A) /\ IsFiniteSet(B) /\ IsFiniteSet(C)
    BY Counts, FS_Interval
  <1>2. Endpoints \subseteq R
    BY KernelAssumption DEF Endpoints
  <1> HIDE DEF A, B, C
  <1>3. IsFiniteSet(P)
    BY <1>1, FS_Product
  <1>4. f \in Surjection(P, R)
    <2>1. f \in [P -> R]
      OBVIOUS
    <2>2. ASSUME NEW r \in R PROVE \E p \in P : f[p] = r
      <3>1. <<<<r[1], r[2]>>, r[3]>> \in P /\ r = <<r[1], r[2], r[3]>>
        OBVIOUS
      <3>2. f[<<<<r[1], r[2]>>, r[3]>>] = r
        BY <3>1
      <3>3. QED
        BY <3>1, <3>2
    <2>3. QED
      BY <2>1, <2>2 DEF Surjection
  <1> HIDE DEF P, R, f
  <1>5. IsFiniteSet(R)
    BY <1>3, <1>4, FS_Surjection
  <1>6. QED
    BY <1>2, <1>5, FS_Subset

LEMMA Addresses ==
  ASSUME installed \in Installations, NEW e \in Endpoints
  PROVE  /\ e[1] \in Nat /\ e[1] < Buses /\ e[2] \in Nat /\ e[2] < Slots
         /\ e[3] \in Nat /\ e[3] < Functions /\ e = <<e[1], e[2], e[3]>>
         /\ e \in DOMAIN installed.bus /\ installed.bus[e].hdr_type = 0
         /\ e[3] = 0 \/ (Present(<<e[1], e[2], 0>>) /\ installed.bus[<<e[1], e[2], 0>>].multi)
  <1>1. e \in DOMAIN installed.bus
    BY DEF Endpoints
  <1>2. e \in (0 .. (Buses - 1)) \X (0 .. (Slots - 1)) \X (0 .. (Functions - 1))
    BY <1>1, KernelAssumption
  <1>3. e[1] \in 0 .. (Buses - 1) /\ e[2] \in 0 .. (Slots - 1) /\ e[3] \in 0 .. (Functions - 1)
    BY <1>2
  <1>4. e = <<e[1], e[2], e[3]>>
    BY <1>2
  <1>5. QED
    BY <1>1, <1>3, <1>4, Counts DEF Endpoints

Below(bus, slot, func) == {e \in Endpoints : Before(e, <<bus, slot, func>>)}

LEMMA BelowIsFinite ==
  ASSUME installed \in Installations, NEW b, NEW s, NEW f
  PROVE  IsFiniteSet(Below(b, s, f)) /\ Below(b, s, f) \in SUBSET Endpoints
  <1>1. Below(b, s, f) \in SUBSET Endpoints
    BY DEF Below
  <1>2. QED
    BY <1>1, EndpointsAreFinite, FS_Subset

LEMMA BeforeIsOrder ==
  ASSUME installed \in Installations, NEW e \in Endpoints,
         NEW b \in Nat, NEW s \in Nat, NEW f \in Nat, NEW at, at = <<b, s, f>>
  PROVE  ~Before(at, at) /\ ~Before(e, e) /\ (Before(e, at) => ~Before(at, e))
  <1>1. e[1] \in Nat /\ e[2] \in Nat /\ e[3] \in Nat
    BY Addresses
  <1>2. at[1] = b /\ at[2] = s /\ at[3] = f
    OBVIOUS
  <1>3. ~Before(at, at)
    BY <1>2 DEF Before
  <1>4. ~Before(e, e)
    BY <1>1 DEF Before
  <1>5. Before(e, at) => ~Before(at, e)
    BY <1>1, <1>2 DEF Before
  <1>6. QED
    BY <1>3, <1>4, <1>5

LEMMA BelowNext ==
  ASSUME installed \in Installations, NEW b \in Nat, NEW s \in Nat, NEW f \in Nat
  PROVE  Below(b, s, f + 1) = Below(b, s, f) \cup (Endpoints \cap {<<b, s, f>>})
  <1>1. ASSUME NEW e \in Endpoints
        PROVE  Before(e, <<b, s, f + 1>>) <=> Before(e, <<b, s, f>>) \/ e = <<b, s, f>>
    <2>1. /\ e[1] \in Nat /\ e[2] \in Nat /\ e[3] \in Nat /\ e = <<e[1], e[2], e[3]>>
      BY Addresses
    <2>2. e = <<b, s, f>> <=> e[1] = b /\ e[2] = s /\ e[3] = f
      BY <2>1
    <2>3. e[3] < f + 1 <=> e[3] < f \/ e[3] = f
      BY <2>1
    <2>4. QED
      BY <2>2, <2>3 DEF Before
  <1>2. QED
    BY <1>1 DEF Below

(* A slot, a bus, and the whole, in the order of the addresses.            *)
LEMMA BelowSlot ==
  ASSUME installed \in Installations, NEW b \in Nat, NEW s \in Nat
  PROVE  Below(b, s, Functions) = Below(b, s + 1, 0)
  <1>1. ASSUME NEW e \in Endpoints
        PROVE  Before(e, <<b, s, Functions>>) <=> Before(e, <<b, s + 1, 0>>)
    <2>1. /\ e[1] \in Nat /\ e[2] \in Nat /\ e[3] \in Nat /\ e[3] < Functions /\ Functions \in Nat
      BY Addresses, Counts
    <2>2. e[2] < s + 1 <=> e[2] < s \/ e[2] = s
      BY <2>1
    <2>3. QED
      BY <2>1, <2>2 DEF Before
  <1>2. QED
    BY <1>1 DEF Below

LEMMA BelowBus ==
  ASSUME installed \in Installations, NEW b \in Nat
  PROVE  Below(b, Slots, 0) = Below(b + 1, 0, 0)
  <1>1. ASSUME NEW e \in Endpoints
        PROVE  Before(e, <<b, Slots, 0>>) <=> Before(e, <<b + 1, 0, 0>>)
    <2>1. /\ e[1] \in Nat /\ e[2] \in Nat /\ e[3] \in Nat /\ e[2] < Slots /\ Slots \in Nat
      BY Addresses, Counts
    <2>2. e[1] < b + 1 <=> e[1] < b \/ e[1] = b
      BY <2>1
    <2>3. QED
      BY <2>1, <2>2 DEF Before
  <1>2. QED
    BY <1>1 DEF Below

LEMMA BelowEnds ==
  ASSUME installed \in Installations
  PROVE  Below(0, 0, 0) = {} /\ Below(Buses, 0, 0) = Endpoints
  <1>1. ASSUME NEW e \in Endpoints
        PROVE  ~Before(e, <<0, 0, 0>>) /\ Before(e, <<Buses, 0, 0>>)
    <2>1. /\ e[1] \in Nat /\ e[2] \in Nat /\ e[3] \in Nat /\ e[1] < Buses /\ Buses \in Nat
      BY Addresses, Counts
    <2>2. QED
      BY <2>1 DEF Before
  <1>2. QED
    BY <1>1 DEF Below

-----------------------------------------------------------------------------
(* The loops list the devices as far as they have come.                    *)

LEMMA ProbeLists ==
  ASSUME installed \in Installations, NEW t \in Tables,
         NEW b \in Nat, NEW s \in Nat, NEW f \in Nat, Lists(t, Below(b, s, f)),
         f = 0 \/ (Present(<<b, s, 0>>) /\ installed.bus[<<b, s, 0>>].multi)
  PROVE  Lists(Probe(t, <<b, s, f>>), Below(b, s, f + 1))
  <1> DEFINE at == <<b, s, f>>
             E == Below(b, s, f)
  <1>1. IsFiniteSet(E) /\ E \in SUBSET Endpoints
    BY BelowIsFinite
  <1>2. Below(b, s, f + 1) = E \cup (Endpoints \cap {at})
    BY BelowNext
  <1>3. CASE at \in Endpoints
    <2>1. at \in DOMAIN installed.bus /\ installed.bus[at].hdr_type = 0
      BY <1>3 DEF Endpoints
    <2>2. Probe(t, at) = IF Len(t) < MaxDevices THEN Append(t, installed.bus[at]) ELSE t
      BY <2>1 DEF Probe, Present
    <2>3. \A e \in E : Before(e, at) /\ ~Before(at, e) /\ ~Before(e, e)
      BY <1>1, BeforeIsOrder DEF Below
    <2>4. ~Before(at, at) /\ at \notin E
      BY <1>3, BeforeIsOrder DEF Below
    <2>5. Below(b, s, f + 1) = E \cup {at}
      BY <1>2, <1>3
    <2> HIDE DEF at, E
    <2>6. Lists(IF Len(t) < MaxDevices THEN Append(t, installed.bus[at]) ELSE t, E \cup {at})
      <3>1. Lists(t, E)
        BY DEF E
      <3>2. QED
        BY <1>1, <2>1, <2>3, <2>4, <3>1, ListsOneMore
    <2>7. QED
      BY <2>2, <2>5, <2>6 DEF at
  <1>4. CASE at \notin Endpoints
    <2>1. ~(at \in DOMAIN installed.bus /\ installed.bus[at].hdr_type = 0)
      BY <1>4 DEF Endpoints
    <2>2. Probe(t, at) = t
      BY <2>1 DEF Probe, Present
    <2>3. Below(b, s, f + 1) = E
      BY <1>2, <1>4
    <2>4. QED
      BY <2>2, <2>3
  <1>5. QED
    BY <1>3, <1>4

LEMMA ProbeSlotFull ==
  ASSUME NEW t \in Tables, NEW b \in Nat, NEW s \in Nat, Len(t) = MaxDevices
  PROVE  ProbeSlot(t, b, s) = t
  <1> DEFINE n == FuncLimit(t, b, s)
  <1>1. n \in Nat
    BY Counts DEF FuncLimit
  <1>2. PICK f : SlotRounds(f, t, b, s)
    BY ProbeSlotRuns
  <1>3. /\ f[0] = t /\ ProbeSlot(t, b, s) = f[n]
        /\ \A k \in 1 .. n : f[k] = Probe(f[k - 1], <<b, s, k - 1>>)
    BY <1>2 DEF SlotRounds
  <1> HIDE DEF n
  <1> DEFINE N == {k \in Nat : k <= n => f[k] = t}
  <1>4. 0 \in N
    BY <1>3
  <1>5. ASSUME NEW k \in Nat, k \in N PROVE k + 1 \in N
    <2> SUFFICES ASSUME k + 1 <= n PROVE f[k + 1] = t
      OBVIOUS
    <2>1. k + 1 \in 1 .. n /\ k + 1 - 1 = k /\ k <= n
      BY <1>1
    <2>2. f[k] = t
      BY <1>5, <2>1
    <2>3. f[k + 1] = Probe(t, <<b, s, k>>)
      BY <1>3, <2>1, <2>2
    <2>4. ~(Len(t) < MaxDevices)
      BY Counts
    <2>5. QED
      BY <2>3, <2>4 DEF Probe
  <1> HIDE DEF N
  <1>6. Nat \subseteq N
    BY <1>4, <1>5, InductionNat
  <1>7. f[n] = t
    BY <1>1, <1>6 DEF N
  <1>8. QED
    BY <1>3, <1>7

LEMMA ProbeSlotLists ==
  ASSUME installed \in Installations, NEW t \in Tables, NEW b \in Nat, NEW s \in Nat,
         Lists(t, Below(b, s, 0))
  PROVE  Lists(ProbeSlot(t, b, s), Below(b, s + 1, 0))
  <1> DEFINE n == FuncLimit(t, b, s)
             Multi == Present(<<b, s, 0>>) /\ installed.bus[<<b, s, 0>>].multi
  <1>1. Below(b, s, Functions) = Below(b, s + 1, 0)
    BY BelowSlot
  <1>2. CASE Len(t) = MaxDevices
    <2> DEFINE E == Below(b, s, 0)
               D == Below(b, s + 1, 0)
    <2>1. IsFiniteSet(D)
      BY BelowIsFinite
    <2>2. ASSUME NEW e \in Endpoints PROVE Before(e, <<b, s, 0>>) => Before(e, <<b, s + 1, 0>>)
      <3>1. e[1] \in Nat /\ e[2] \in Nat /\ e[3] \in Nat
        BY Addresses
      <3>2. QED
        BY <3>1 DEF Before
    <2>3. E \in SUBSET D
      BY <2>2 DEF Below
    <2>4. ASSUME NEW e \in E, NEW d \in D \ E PROVE Before(e, d) /\ ~Before(d, e)
      <3>1. e \in Endpoints /\ d \in Endpoints
        BY DEF Below
      <3>2. /\ e[1] \in Nat /\ e[2] \in Nat /\ e[3] \in Nat
            /\ d[1] \in Nat /\ d[2] \in Nat /\ d[3] \in Nat
        BY <3>1, Addresses
      <3>3. Before(e, <<b, s, 0>>) /\ ~Before(d, <<b, s, 0>>) /\ Before(d, <<b, s + 1, 0>>)
        BY <3>1 DEF Below
      <3>4. e[1] < b \/ (e[1] = b /\ e[2] < s)
        BY <3>2, <3>3 DEF Before
      <3>5. d[1] = b /\ d[2] = s
        BY <3>2, <3>3 DEF Before
      <3>6. Before(e, d)
        BY <3>4, <3>5 DEF Before
      <3>7. ~Before(d, e)
        BY <3>2, <3>4, <3>5 DEF Before
      <3>8. QED
        BY <3>6, <3>7
    <2>5. ProbeSlot(t, b, s) = t
      BY <1>2, ProbeSlotFull
    <2>6. Lists(t, E)
      OBVIOUS
    <2> HIDE DEF E, D
    <2>7. Lists(t, D)
      BY <1>2, <2>1, <2>3, <2>4, <2>6, ListsWhenFull
    <2>8. QED
      BY <2>5, <2>7 DEF D
  <1>3. CASE Len(t) # MaxDevices
    <2>1. Cardinality(Below(b, s, 0)) \in Nat
      BY BelowIsFinite, FS_CardinalityType
    <2>2. Len(t) < MaxDevices
      <3>1. Len(t) = IF Cardinality(Below(b, s, 0)) < MaxDevices
                     THEN Cardinality(Below(b, s, 0)) ELSE MaxDevices
        BY DEF Lists
      <3>2. QED
        BY <1>3, <2>1, <3>1, Counts
    <2>3. n = IF Multi THEN Functions ELSE 1
      BY <2>2 DEF FuncLimit
    <2>4. n \in Nat /\ n >= 1
      BY <2>3, Counts
    <2>5. PICK f : SlotRounds(f, t, b, s)
      BY ProbeSlotRuns
    <2>6. /\ f[0] = t /\ ProbeSlot(t, b, s) = f[n] /\ f \in [0 .. n -> Tables]
          /\ \A k \in 1 .. n : f[k] = Probe(f[k - 1], <<b, s, k - 1>>)
      BY <2>5 DEF SlotRounds
    <2> HIDE DEF n, Multi
    <2> DEFINE N == {k \in Nat : k <= n => Lists(f[k], Below(b, s, k))}
    <2>7. 0 \in N
      BY <2>6
    <2>8. ASSUME NEW k \in Nat, k \in N PROVE k + 1 \in N
      <3> SUFFICES ASSUME k + 1 <= n PROVE Lists(f[k + 1], Below(b, s, k + 1))
        OBVIOUS
      <3>1. k + 1 \in 1 .. n /\ k + 1 - 1 = k /\ k <= n /\ k \in 0 .. n
        BY <2>4
      <3>2. Lists(f[k], Below(b, s, k)) /\ f[k] \in Tables
        BY <2>6, <2>8, <3>1
      <3>3. f[k + 1] = Probe(f[k], <<b, s, k>>)
        BY <2>6, <3>1
      <3>4. k = 0 \/ Multi
        BY <2>3, <2>4, <3>1
      <3>5. QED
        BY <3>2, <3>3, <3>4, ProbeLists DEF Multi
    <2> HIDE DEF N
    <2>9. Nat \subseteq N
      BY <2>7, <2>8, InductionNat
    <2>10. Lists(f[n], Below(b, s, n))
      BY <2>4, <2>9 DEF N
    <2>11. Below(b, s, n) = Below(b, s, Functions)
      <3>1. CASE Multi
        BY <2>3, <3>1
      <3>2. CASE ~Multi
        <4>1. n = 1
          BY <2>3, <3>2
        <4>2. ASSUME NEW e \in Endpoints
              PROVE  Before(e, <<b, s, 1>>) <=> Before(e, <<b, s, Functions>>)
          <5>1. /\ e[1] \in Nat /\ e[2] \in Nat /\ e[3] \in Nat /\ e[3] < Functions
                /\ Functions \in Nat
            BY Addresses, Counts
          <5>2. e[1] = b /\ e[2] = s => e[3] = 0
            BY <3>2, Addresses DEF Multi
          <5>3. QED
            BY <5>1, <5>2 DEF Before
        <4>3. QED
          BY <4>1, <4>2 DEF Below
      <3>3. QED
        BY <3>1, <3>2
    <2>12. QED
      BY <1>1, <2>6, <2>10, <2>11
  <1>4. QED
    BY <1>2, <1>3

LEMMA ProbeBusLists ==
  ASSUME installed \in Installations, NEW t \in Tables, NEW b \in Nat, Lists(t, Below(b, 0, 0))
  PROVE  Lists(ProbeBus(t, b), Below(b + 1, 0, 0))
  <1>1. PICK f : BusRounds(f, t, b)
    BY ProbeBusRuns
  <1>2. /\ f[0] = t /\ ProbeBus(t, b) = f[Slots] /\ f \in [0 .. Slots -> Tables] /\ Slots \in Nat
        /\ \A k \in 1 .. Slots : f[k] = ProbeSlot(f[k - 1], b, k - 1)
    BY <1>1, Counts DEF BusRounds
  <1> DEFINE N == {k \in Nat : k <= Slots => Lists(f[k], Below(b, k, 0))}
  <1>3. 0 \in N
    BY <1>2
  <1>4. ASSUME NEW k \in Nat, k \in N PROVE k + 1 \in N
    <2> SUFFICES ASSUME k + 1 <= Slots PROVE Lists(f[k + 1], Below(b, k + 1, 0))
      OBVIOUS
    <2>1. k + 1 \in 1 .. Slots /\ k + 1 - 1 = k /\ k <= Slots /\ k \in 0 .. Slots
      BY <1>2
    <2>2. Lists(f[k], Below(b, k, 0)) /\ f[k] \in Tables
      BY <1>2, <1>4, <2>1
    <2>3. f[k + 1] = ProbeSlot(f[k], b, k)
      BY <1>2, <2>1
    <2>4. QED
      BY <2>2, <2>3, ProbeSlotLists
  <1> HIDE DEF N
  <1>5. Nat \subseteq N
    BY <1>3, <1>4, InductionNat
  <1>6. Lists(f[Slots], Below(b, Slots, 0))
    BY <1>2, <1>5 DEF N
  <1>7. QED
    BY <1>2, <1>6, BelowBus

LEMMA ProbeListsAll ==
  ASSUME installed \in Installations PROVE Lists(pci_probe_devices, Endpoints)
  <1>1. PICK f : AllRounds(f)
    BY ProbeRuns
  <1>2. /\ f[0] = <<>> /\ pci_probe_devices = f[Buses] /\ f \in [0 .. Buses -> Tables] /\ Buses \in Nat
        /\ \A k \in 1 .. Buses : f[k] = ProbeBus(f[k - 1], k - 1)
    BY <1>1, Counts DEF AllRounds
  <1> DEFINE N == {k \in Nat : k <= Buses => Lists(f[k], Below(k, 0, 0))}
  <1>3. 0 \in N
    <2>1. Cardinality({}) = 0 /\ Len(<<>>) = 0 /\ MaxDevices \in Nat
      BY FS_EmptySet, EmptySeq, Counts
    <2>2. Lists(<<>>, {})
      BY <2>1 DEF Lists
    <2>3. QED
      BY <1>2, <2>2, BelowEnds
  <1>4. ASSUME NEW k \in Nat, k \in N PROVE k + 1 \in N
    <2> SUFFICES ASSUME k + 1 <= Buses PROVE Lists(f[k + 1], Below(k + 1, 0, 0))
      OBVIOUS
    <2>1. k + 1 \in 1 .. Buses /\ k + 1 - 1 = k /\ k <= Buses /\ k \in 0 .. Buses
      BY <1>2
    <2>2. Lists(f[k], Below(k, 0, 0)) /\ f[k] \in Tables
      BY <1>2, <1>4, <2>1
    <2>3. f[k + 1] = ProbeBus(f[k], k)
      BY <1>2, <2>1
    <2>4. QED
      BY <2>2, <2>3, ProbeBusLists
  <1> HIDE DEF N
  <1>5. Nat \subseteq N
    BY <1>3, <1>4, InductionNat
  <1>6. Lists(f[Buses], Below(Buses, 0, 0))
    BY <1>2, <1>5 DEF N
  <1>7. QED
    BY <1>2, <1>6, BelowEnds

(* The probe asks the same bus whenever it is run.                         *)
LEMMA ProbeKept == installed' = installed => pci_probe_devices' = pci_probe_devices
  BY DEF pci_probe_devices, ProbeBus, ProbeSlot, FuncLimit, Probe, Present

LEMMA TableKept ==
  ASSUME TableInv, installed' = installed, pci_device_hdr' = pci_device_hdr,
         pc' \in Probed => pc \in Probed
  PROVE  TableInv'
  BY ProbeKept DEF TableInv

LEMMA TableNext == ASSUME EntryInv, TableInv, [KernelNext]_allVars PROVE TableInv'
  <1>1. CASE Loader
    <2>1. Next
      BY <1>1 DEF Loader
    <2>2. pc' \notin Probed
      BY <2>1, LoaderMoves DEF Probed, BeforeMap
    <2>3. QED
      BY <2>2 DEF TableInv
  <1>2. CASE memory_map_init \/ InitInterrupts \/ paging_init \/ keyboard_init \/ heap_init
    BY <1>2 DEF TableInv, Probed, memory_map_init, InitInterrupts, paging_init, keyboard_init, heap_init,
       SystemHalt
  <1>3. CASE ide_init
    <2>1. pci_device_hdr' = pci_probe_devices /\ installed' = installed
      BY <1>3 DEF ide_init, loaderVars
    <2>2. QED
      BY <2>1, ProbeKept DEF TableInv
  <1>4. CASE fat32_init \/ FillTaskTable \/ EnableTasking
    <2>1. installed' = installed /\ pci_device_hdr' = pci_device_hdr /\ pc \in Probed
      BY <1>4 DEF fat32_init, FillTaskTable, EnableTasking, loaderVars, deviceVars, Probed
    <2>2. QED
      BY <2>1, TableKept
  <1>5. CASE Raise
    <2>1. installed' = installed /\ pci_device_hdr' = pci_device_hdr /\ pc' = pc
      BY <1>5 DEF Raise, vars, deviceVars
    <2>2. QED
      BY <2>1, TableKept
  <1>6. CASE \E line \in 0 .. 15 : Interrupt(line)
    <2>1. PICK line \in 0 .. 15 : Interrupt(line)
      BY <1>6
    <2>2. installed' = installed /\ pci_device_hdr' = pci_device_hdr
      BY <2>1 DEF Interrupt, loaderVars, deviceVars
    <2>3. pc' = pc \/ pc' \in {"fault", "hung"}
      BY <2>1 DEF Interrupt
    <2>4. pc' \in Probed => pc \in Probed
      BY <2>3 DEF Probed
    <2>5. QED
      BY <2>2, <2>4, TableKept
  <1>7. CASE UNCHANGED allVars
    <2>1. installed' = installed /\ pci_device_hdr' = pci_device_hdr /\ pc' = pc
      BY <1>7 DEF allVars, vars, kernelVars, deviceVars
    <2>2. QED
      BY <2>1, TableKept
  <1>8. QED
    BY <1>1, <1>2, <1>3, <1>4, <1>5, <1>6, <1>7 DEF KernelNext, Step

(* For any number of buses, slots and functions, and whatever is there, the*)
(* probe finds each endpoint that can be found, and keeps them in the order*)
(* of their addresses as far as the table goes.                            *)
THEOREM EntryTableIsTheBus == KernelSpec => []TableIsTheBus
  <1>1. KernelInit => TableInv
    BY DEF KernelInit, Init, TableInv, Probed
  <1>2. EntryInv /\ TableInv => TableIsTheBus
    <2> SUFFICES ASSUME EntryInv, TableInv, pc \in Probed
                 PROVE  Lists(pci_device_hdr, Endpoints)
      BY DEF TableIsTheBus, Lists, Place
    <2>1. installed \in Installations
      BY DEF EntryInv, HeapInv
    <2>2. QED
      BY <2>1, ProbeListsAll DEF TableInv
  <1>3. EntryInv /\ TableInv /\ [KernelNext]_allVars => TableInv'
    BY TableNext
  <1>4. QED
    BY <1>1, <1>2, <1>3, EntryInvariant, PTL DEF KernelSpec

-----------------------------------------------------------------------------
(* The clusters of the kernel in the segment at 0x40000.                   *)

(* Loaded, of clusters of so many cells, a file K, BX and the memory.      *)
Held(size, K, x, t, j) ==
  /\ x \in Nat /\ x + size <= SegmentSize
  /\ Multiple(SegmentSize - x, size)
  /\ j * size < SegmentSize => x = j * size
  /\ j * size = SegmentSize => x = 0
  /\ j * size <= SegmentSize =>
       \A a \in 0 .. (Len(K) - 1) : a < j * size => t[a] = K[a + 1]
  /\ j * size > SegmentSize => ~IsElf(t[0])

LEMMA SegmentIsNat == SegmentSize \in Nat /\ SegmentSize > 0 /\ TempSize \in Nat /\ TempSize >= SegmentSize
  BY BootAssumption

(* BX after a cluster.                                                     *)
LEMMA NextBx ==
  ASSUME NEW size \in Nat, size > 0, Multiple(SegmentSize, size),
         NEW x \in Nat, x + size <= SegmentSize,
         Multiple(SegmentSize - x, size),
         NEW y, y = (x + size) % SegmentSize
  PROVE  /\ y = IF x + size < SegmentSize THEN x + size ELSE 0
         /\ y \in Nat /\ y + size <= SegmentSize
         /\ Multiple(SegmentSize - y, size)
  <1> DEFINE S == SegmentSize
  <1>1. S \in Nat /\ S > 0
    BY SegmentIsNat
  <1>2. CASE x + size < S
    <2>1. y = x + size
      BY <1>1, <1>2
    <2>2. PICK q \in 1 .. S : S - x = q * size
      BY DEF Multiple
    <2>3. q - 1 \in Nat /\ S - y = (q - 1) * size
      BY <1>1, <2>1, <2>2
    <2>4. q - 1 # 0
      <3> SUFFICES ASSUME q - 1 = 0 PROVE FALSE
        OBVIOUS
      <3>1. S - y = 0
        BY <2>3
      <3>2. QED
        BY ONLY <1>1, <1>2, <2>1, <3>1, x \in Nat, size \in Nat
    <2>5. 1 \in Nat /\ 1 <= q - 1
      BY <2>3, <2>4
    <2>6. 1 * size <= (q - 1) * size
      BY <2>3, <2>5, MonoLeq
    <2>7. size <= S - y
      BY <2>3, <2>6
    <2>8. y \in Nat /\ y + size <= S
      BY ONLY <1>1, <2>1, <2>7, x \in Nat, size \in Nat
    <2>9. q - 1 \in 1 .. S
      BY <1>1, <2>2, <2>5
    <2>10. QED
      BY <1>2, <2>1, <2>3, <2>8, <2>9 DEF Multiple
  <1>3. CASE ~(x + size < S)
    <2>1. x + size = S
      BY <1>1, <1>3
    <2>2. y = 0
      BY <1>1, <2>1
    <2>3. PICK m \in 1 .. S : S = m * size
      BY DEF Multiple
    <2>4. S - y = m * size
      BY <1>1, <2>2, <2>3
    <2>5. y + size <= S
      BY ONLY <1>1, <2>1, <2>2, x \in Nat, size \in Nat
    <2>6. QED
      BY <1>3, <2>2, <2>3, <2>4, <2>5 DEF Multiple
  <1>4. QED
    BY <1>2, <1>3

(* What the next cluster is, and what the memory holds with it.            *)
HeaderFirst(K) == \A k \in 1 .. Len(K) : IsElf(K[k]) <=> k = 1
Continues(size, K, j, C) ==
  \A k \in 0 .. (size - 1) : j * size + k < Len(K) => C[k + 1] = K[j * size + k + 1]
Copied(size, C, x, t) ==
  [a \in DOMAIN t |-> IF a \in x .. (x + size - 1) THEN C[a - x + 1] ELSE t[a]]

LEMMA HeldNext ==
  ASSUME NEW size \in Nat, size > 0, Multiple(SegmentSize, size),
         NEW R, NEW K \in Seq(R), HeaderFirst(K),
         NEW x, NEW t, DOMAIN t = 0 .. (TempSize - 1),
         NEW j \in Nat, Held(size, K, x, t, j), j * size < Len(K),
         NEW C, Continues(size, K, j, C),
         NEW y, y = (x + size) % SegmentSize,
         NEW u, u = Copied(size, C, x, t)
  PROVE  Held(size, K, y, u, j + 1)
  <1> USE DEF HeaderFirst, Continues, Copied
  <1> DEFINE w == j * size
             S == SegmentSize
             n == Len(K)
  <1>1. w \in Nat /\ (j + 1) * size = w + size
    OBVIOUS
  <1>2. S \in Nat /\ S > 0 /\ TempSize \in Nat /\ TempSize >= S /\ n \in Nat
    BY SegmentIsNat
  <1>3. /\ x \in Nat /\ x + size <= S
        /\ Multiple(S - x, size)
        /\ w < S => x = w
        /\ w = S => x = 0
        /\ w <= S => \A a \in 0 .. (n - 1) : a < w => t[a] = K[a + 1]
        /\ w > S => ~IsElf(t[0])
    BY DEF Held
  <1>4. /\ y = IF x + size < S THEN x + size ELSE 0
        /\ y \in Nat /\ y + size <= S
        /\ Multiple(S - y, size)
    BY <1>3, NextBx
  <1>5. \A k \in 0 .. (size - 1) : w + k < n => C[k + 1] = K[w + k + 1]
    OBVIOUS
  <1>6. w < n
    OBVIOUS
  <1>7. \A k \in 1 .. n : IsElf(K[k]) <=> k = 1
    OBVIOUS
  <1>8. \A a \in 0 .. (TempSize - 1) :
          u[a] = IF a \in x .. (x + size - 1) THEN C[a - x + 1] ELSE t[a]
    OBVIOUS
  <1> HIDE DEF w, S, n
  <1>9. w + size < S => y = w + size
    BY ONLY <1>1, <1>2, <1>3, <1>4, size \in Nat, size > 0
  <1>10. w + size = S => y = 0
    BY ONLY <1>1, <1>2, <1>3, <1>4, size \in Nat, size > 0
  <1>11. ASSUME w + size <= S, NEW a \in 0 .. (n - 1), a < w + size
         PROVE  u[a] = K[a + 1]
    <2>1. w <= S /\ x = w /\ a \in 0 .. (TempSize - 1) /\ a \in Nat
      BY ONLY <1>1, <1>2, <1>3, <1>11, size \in Nat, size > 0
    <2>2. CASE a < w
      <3>1. a \notin x .. (x + size - 1)
        BY ONLY <1>1, <2>1, <2>2, size \in Nat
      <3>2. u[a] = t[a]
        BY <1>8, <2>1, <3>1
      <3>3. QED
        BY <1>3, <2>1, <2>2, <3>2
    <2>3. CASE ~(a < w)
      <3>1. a \in x .. (x + size - 1) /\ a - x \in 0 .. (size - 1) /\ w + (a - x) = a /\ a < n
        BY ONLY <1>1, <1>2, <1>11, <2>1, <2>3, size \in Nat
      <3>2. u[a] = C[(a - x) + 1]
        BY <1>8, <2>1, <3>1
      <3>3. C[(a - x) + 1] = K[w + (a - x) + 1]
        BY <1>5, <3>1
      <3>4. QED
        BY <3>1, <3>2, <3>3
    <2>4. QED
      BY <2>2, <2>3
  <1>12. ASSUME w + size > S PROVE ~IsElf(u[0])
    <2>1. 0 \in 0 .. (TempSize - 1)
      BY <1>2
    <2>2. CASE x = 0
      <3>1. w >= S
        BY ONLY <1>1, <1>2, <1>3, <1>12, <2>2, size \in Nat
      <3>2. w + 1 \in 1 .. n /\ w + 1 # 1 /\ w + 0 < n
        BY ONLY <1>1, <1>2, <1>6, <3>1
      <3>3. 0 \in x .. (x + size - 1) /\ 0 - x = 0 /\ 0 \in 0 .. (size - 1)
        BY ONLY <2>2, size \in Nat, size > 0
      <3>4. u[0] = C[0 + 1]
        BY <1>8, <2>1, <3>3
      <3>5. C[0 + 1] = K[w + 0 + 1]
        BY <1>5, <3>2, <3>3
      <3>6. w + 0 + 1 = w + 1
        BY <1>1
      <3>7. QED
        BY <1>7, <3>2, <3>4, <3>5, <3>6
    <2>3. CASE x # 0
      <3>1. w > S
        BY ONLY <1>1, <1>2, <1>3, <1>12, <2>3, size \in Nat
      <3>2. 0 \notin x .. (x + size - 1)
        BY <1>3, <2>3
      <3>3. u[0] = t[0]
        BY <1>8, <2>1, <3>2
      <3>4. QED
        BY <1>3, <3>1, <3>3
    <2>4. QED
      BY <2>2, <2>3
  <1>13. w + size <= S => \A a \in 0 .. (n - 1) : a < w + size => u[a] = K[a + 1]
    BY <1>11
  <1>14. w + size > S => ~IsElf(u[0])
    BY <1>12
  <1>15. QED
    BY <1>1, <1>4, <1>9, <1>10, <1>13, <1>14 DEF Held, S, n

(* What is read of the drive is where FAT32 has it.                        *)
LEMMA SectorSizeIsNat == SectorSize \in Nat /\ SectorSize > 0
  BY BootAssumption

LEMMA SectorCells ==
  ASSUME NEW lba \in Int, NEW count \in Nat
  PROVE  /\ DOMAIN Sectors(lba, count) = 1 .. (count * SectorSize)
         /\ \A k \in 1 .. (count * SectorSize) :
              Sectors(lba, count)[k] = installed.disk[lba * SectorSize + k]
  <1> DEFINE d == installed.disk
             L == lba * SectorSize
             W == count * SectorSize
             m == L + 1
             n == (lba + count) * SectorSize
             R == {d[k] : k \in m .. n}
             s == SubSeq(d, m, n)
  <1>1. L \in Int /\ W \in Nat /\ n = L + W
    BY SectorSizeIsNat
  <1>2. Sectors(lba, count) = s
    BY DEF Sectors
  <1> HIDE DEF L, W
  <1>3. m \in Int /\ n \in Int /\ n - m + 1 = W /\ (IF m <= n THEN n - m + 1 ELSE 0) = W
    BY <1>1
  <1>4. \A k \in 1 .. W : m + k - 1 = L + k
    BY <1>1
  <1>5. \A k \in m .. n : d[k] \in R
    OBVIOUS
  <1> HIDE DEF m, n, R
  <1>6. /\ s \in Seq(R)
        /\ Len(s) = IF m <= n THEN n - m + 1 ELSE 0
        /\ \A k \in 1 .. (n - m + 1) : s[k] = d[m + k - 1]
    BY <1>3, <1>5, SubSeqProperties
  <1> HIDE DEF s, d
  <1>7. DOMAIN s = 1 .. W
    BY <1>3, <1>6
  <1>8. \A k \in 1 .. W : s[k] = d[L + k]
    BY <1>3, <1>4, <1>6
  <1>9. QED
    BY <1>2, <1>7, <1>8 DEF d, L, W

LEMMA FirstCell ==
  ASSUME NEW lba \in Int PROVE Sectors(lba, 1)[1] = installed.disk[lba * SectorSize + 1]
  <1>1. 1 \in 1 .. (1 * SectorSize) /\ 1 \in Nat
    BY SectorSizeIsNat
  <1>2. QED
    BY <1>1, SectorCells

LEMMA Volume ==
  ASSUME KernelOn(installed, bpb)
  PROVE  /\ bpb.hidden \in Nat /\ bpb.reserved \in Nat /\ bpb.num_fats \in Nat /\ bpb.fatsz \in Nat
         /\ bpb.spc \in Nat /\ bpb.spc > 0 /\ bpb.root_cluster \in Nat
         /\ ClusterSize \in Nat /\ ClusterSize > 0
         /\ fat_start_lba \in Nat /\ data_start_lba \in Nat
  <1> DEFINE B == [hidden : Nat, reserved : Nat, num_fats : Nat, fatsz : Nat, spc : Nat \ {0},
                   root_cluster : Nat]
  <1>1. bpb \in B
    BY DEF KernelOn
  <1>2. /\ bpb.hidden \in Nat /\ bpb.reserved \in Nat /\ bpb.num_fats \in Nat /\ bpb.fatsz \in Nat
        /\ bpb.spc \in Nat \ {0} /\ bpb.root_cluster \in Nat
    BY <1>1
  <1>3. bpb.num_fats * bpb.fatsz \in Nat
    BY <1>2
  <1>4. fat_start_lba \in Nat /\ data_start_lba \in Nat
    BY <1>2, <1>3 DEF fat_start_lba, data_start_lba
  <1>5. 1 * SectorSize <= bpb.spc * SectorSize
    BY <1>2, SectorSizeIsNat, MonoLeq
  <1>6. ClusterSize \in Nat /\ ClusterSize > 0
    BY <1>2, <1>5, SectorSizeIsNat DEF ClusterSize
  <1>7. QED
    BY <1>2, <1>4, <1>6

LEMMA ClusterCells ==
  ASSUME KernelOn(installed, bpb), NEW c \in Nat
  PROVE  /\ DOMAIN ClusterAt(c) = 1 .. ClusterSize
         /\ \A k \in 0 .. (ClusterSize - 1) : ClusterAt(c)[k + 1] = Cell(installed, bpb, c, k)
  <1> DEFINE lba == CLUSTER_TO_LBA(c)
             at  == (c - 2) * bpb.spc + bpb.hidden + bpb.reserved + bpb.num_fats * bpb.fatsz
  <1>1. (c - 2) * bpb.spc \in Int /\ bpb.num_fats * bpb.fatsz \in Int /\ bpb.spc \in Nat
        /\ bpb.hidden \in Nat /\ bpb.reserved \in Nat
    BY Volume
  <1>2. lba = at /\ lba \in Int
    BY <1>1 DEF CLUSTER_TO_LBA, data_start_lba, fat_start_lba
  <1>3. ClusterAt(c) = Sectors(lba, bpb.spc)
    BY DEF ClusterAt
  <1>4. \A k : Cell(installed, bpb, c, k) = installed.disk[at * SectorSize + k + 1]
    BY DEF Cell
  <1> HIDE DEF lba, at
  <1>5. /\ DOMAIN Sectors(lba, bpb.spc) = 1 .. ClusterSize
        /\ \A k \in 1 .. ClusterSize : Sectors(lba, bpb.spc)[k] = installed.disk[lba * SectorSize + k]
    BY <1>1, <1>2, SectorCells DEF ClusterSize
  <1>6. lba * SectorSize \in Int
    BY <1>2, SectorSizeIsNat
  <1>7. ASSUME NEW k \in 0 .. (ClusterSize - 1)
        PROVE  ClusterAt(c)[k + 1] = Cell(installed, bpb, c, k)
    <2>1. k + 1 \in 1 .. ClusterSize
      BY Volume
    <2>2. Sectors(lba, bpb.spc)[k + 1] = installed.disk[lba * SectorSize + (k + 1)]
      BY <1>5, <2>1
    <2>3. lba * SectorSize + (k + 1) = at * SectorSize + k + 1
      BY <1>2, <1>6
    <2>4. QED
      BY <1>3, <1>4, <2>2, <2>3
  <1>8. QED
    BY <1>3, <1>5, <1>7

LEMMA FatCells ==
  ASSUME KernelOn(installed, bpb), NEW c \in Nat
  PROVE  GET_NEXT_CLUSTER(c) = FatEntry(installed, bpb, c)
  <1> DEFINE q == c \div SectorSize
             r == c % SectorSize
             f == fat_start_lba
  <1>1. SectorSize \in Nat /\ SectorSize > 0 /\ f \in Nat /\ f = bpb.hidden + bpb.reserved
    BY SectorSizeIsNat, Volume DEF fat_start_lba
  <1>2. q \in Nat /\ r = c - q * SectorSize /\ r \in 0 .. (SectorSize - 1)
    BY <1>1, Quotient
  <1>3. GET_NEXT_CLUSTER(c) = Sectors(f + q, 1)[r + 1].fat % FatMask
    BY DEF GET_NEXT_CLUSTER
  <1>4. FatEntry(installed, bpb, c) = installed.disk[f * SectorSize + c + 1].fat % FatMask
    BY <1>1 DEF FatEntry
  <1> HIDE DEF q, r, f
  <1>5. (f + q) * SectorSize = f * SectorSize + q * SectorSize
        /\ f * SectorSize \in Nat /\ q * SectorSize \in Nat
    BY <1>1, <1>2
  <1>6. r + 1 \in 1 .. (1 * SectorSize) /\ f + q \in Int /\ 1 \in Nat
    BY <1>1, <1>2
  <1>7. Sectors(f + q, 1)[r + 1] = installed.disk[(f + q) * SectorSize + (r + 1)]
    BY <1>6, SectorCells
  <1>8. (f + q) * SectorSize + (r + 1) = f * SectorSize + c + 1
    BY <1>2, <1>5
  <1>9. QED
    BY <1>3, <1>4, <1>7, <1>8

-----------------------------------------------------------------------------
(* Each step of the loader.                                                *)

LEMMA TheKernel ==
  ASSUME installed \in Installations
  PROVE  /\ installed.kernel \in Seq(Range(installed.kernel))
         /\ Len(installed.kernel) \in Nat /\ Len(installed.kernel) > 0
         /\ \A k \in 1 .. Len(installed.kernel) : IsElf(installed.kernel[k]) <=> k = 1
         /\ Header.phdrs \in Seq(Range(Header.phdrs))
         /\ Len(Header.phdrs) \in Nat /\ Len(Header.phdrs) > 0
  <1> DEFINE K == installed.kernel
             P == K[1].phdrs
  <1>1. IsKernel(K)
    BY InstallationsAssumption
  <1>2. /\ K \in Seq(Range(K)) /\ K # <<>>
        /\ \A k \in DOMAIN K : IsElf(K[k]) <=> k = 1
        /\ P \in Seq(Range(P)) /\ P # <<>>
    BY <1>1 DEF IsKernel
  <1>3. Header.phdrs = P
    BY DEF Header
  <1> HIDE DEF K, P
  <1>4. Len(K) \in Nat /\ Len(K) > 0 /\ DOMAIN K = 1 .. Len(K) /\ Len(P) \in Nat /\ Len(P) > 0
    BY <1>2, EmptySeq
  <1>5. QED
    BY <1>2, <1>3, <1>4 DEF K

LEMMA LoadedIsHeld ==
  ASSUME NEW j PROVE Loaded(j) <=> Held(ClusterSize, installed.kernel, bx, temp, j)
  BY DEF Loaded, Held

LEMMA HeldIsLoaded ==
  ASSUME NEW j, installed' = installed, bpb' = bpb,
         Held(ClusterSize, installed.kernel, bx', temp', j)
  PROVE  Loaded(j)'
  BY DEF Loaded, Held, ClusterSize

(* The chain has a cluster at least, and clusters fill the segment.        *)
LEMMA TheChain ==
  ASSUME installed \in Installations, KernelOn(installed, bpb)
  PROVE  /\ installed.chain \in Seq(Nat) /\ Len(installed.chain) \in Nat /\ Len(installed.chain) > 0
         /\ (Len(installed.chain) - 1) * ClusterSize < Len(installed.kernel)
         /\ Len(installed.kernel) <= Len(installed.chain) * ClusterSize
         /\ Multiple(SegmentSize, ClusterSize)
  <1> DEFINE n == Len(installed.chain)
             l == Len(installed.kernel)
             z == ClusterSize
             S == SegmentSize
  <1>1. /\ installed.chain \in Seq(Nat) /\ (n - 1) * z < l /\ l <= n * z /\ S % z = 0
    BY DEF KernelOn, ClusterSize
  <1>2. n \in Nat /\ l \in Nat /\ l > 0 /\ z \in Nat /\ z > 0 /\ S \in Nat /\ S > 0
    BY <1>1, TheKernel, Volume, SegmentIsNat
  <1> HIDE DEF n, l, z, S
  <1>3. n # 0
    BY <1>1, <1>2
  <1>4. Multiple(S, z)
    <2> DEFINE q == S \div z
    <2>1. q \in Nat /\ S % z = S - q * z
      BY <1>2, Quotient
    <2> HIDE DEF q
    <2>2. q * z \in Nat
      BY <1>2, <2>1
    <2>3. S = q * z
      BY <1>1, <1>2, <2>1, <2>2
    <2>4. q # 0
      BY <1>2, <2>3
    <2>5. 1 \in Nat /\ 1 <= z /\ q * 1 <= q * z
      <3>1. 1 * q <= z * q
        BY <1>2, <2>1, MonoLeq
      <3>2. QED
        BY <1>2, <2>1, <3>1
    <2>6. q \in 1 .. S
      BY <1>2, <2>1, <2>3, <2>4, <2>5
    <2>7. QED
      BY <2>3, <2>6 DEF Multiple, S
  <1>5. QED
    BY <1>1, <1>2, <1>3, <1>4 DEF n, l, z, S

(* Where nothing but the parameter block matters.                          *)
LEMMA ImageKept ==
  ASSUME ImageInv, installed' = installed, temp' = temp, memory' = memory,
         pc' \notin {"find", "load", "next", "elf", "segment", "kernel"},
         pc' \in {"reset", "stage2", "mmap"} => KernelOn(installed, bpb')
  PROVE  ImageInv'
  BY DEF ImageInv

(* The first active partition and its boot sector.                         *)
Active == {p \in DOMAIN installed.disk[1].partitions : installed.disk[1].partitions[p].active}
FirstActive(p) == p \in Active /\ \A q \in Active : p <= q
Start(p) == installed.disk[1].partitions[p].lba
BootSector(p) == installed.disk[Start(p) * SectorSize + 1]

LEMMA ThePartitions ==
  ASSUME installed \in Installations
  PROVE  (installed.place # 0 => Active # {}) /\ \A p \in Active : Start(p) \in Nat
  <1>1. IsDrive(installed)
    BY InstallationsAssumption
  <1>2. QED
    BY <1>1, Zenon DEF IsDrive, Active, Start

LEMMA TheBootSector ==
  ASSUME installed \in Installations, NEW p, FirstActive(p)
  PROVE  /\ installed.place # 0 => BootSector(p).magic
         /\ BootSector(p).magic => KernelOn(installed, BootSector(p).bpb)
         /\ installed.place = 1 =>
              /\ "bpb" \in DOMAIN BootSector(p) /\ BootSector(p).bpb.hidden = Start(p)
              /\ ListedOn(installed, BootSector(p).bpb)
  <1>1. IsDrive(installed)
    BY InstallationsAssumption
  <1>2. QED
    BY <1>1 DEF IsDrive, Active, FirstActive, Start, BootSector

NoneToStart == Active = {} \/ \E p : FirstActive(p) /\ ~BootSector(p).magic
Starts(b)   == \E p : FirstActive(p) /\ BootSector(p).magic /\ b = BootSector(p).bpb

LEMMA MbrReads ==
  ASSUME installed \in Installations, Mbr
  PROVE  /\ UNCHANGED <<installed, temp, memory, cx, ebx, mmap_desc, gdt>> /\ pc = "mbr"
         /\ (pc' = "halted" /\ NoneToStart) \/ (pc' = "reset" /\ Starts(bpb'))
  <1> DEFINE table == Sectors(0, 1)[1].partitions
             active == {p \in DOMAIN table : table[p].active}
             vbr(p) == Sectors(table[p].lba, 1)[1]
             first(p) == p \in active /\ \A q \in active : p <= q
  <1>1. UNCHANGED <<installed, temp, memory, cx, ebx, mmap_desc, gdt>> /\ pc = "mbr"
    BY DEF Mbr, Stop, Halt, fileVars, mapVars
  <1>2. \/ pc' = "halted" /\ (active = {} \/ \E p : first(p) /\ ~vbr(p).magic)
        \/ pc' = "reset" /\ \E p : first(p) /\ vbr(p).magic /\ bpb' = vbr(p).bpb
    BY Zenon DEF Mbr, Stop, Halt
  <1>3. table = installed.disk[1].partitions
    <2>1. 0 \in Int /\ 0 * SectorSize + 1 = 1
      BY SectorSizeIsNat
    <2>2. QED
      BY <2>1, FirstCell
  <1>4. active = Active /\ \A p : table[p].lba = Start(p)
    BY <1>3 DEF Active, Start
  <1>5. \A p : first(p) <=> FirstActive(p)
    BY <1>4, Zenon DEF FirstActive
  <1>6. ASSUME NEW p, first(p) PROVE vbr(p) = BootSector(p)
    <2>1. table[p].lba = Start(p) /\ Start(p) \in Nat
      BY <1>4, <1>6, ThePartitions
    <2> HIDE DEF table
    <2>2. QED
      BY <2>1, FirstCell DEF BootSector
  <1> HIDE DEF active, vbr, first
  <1>7. active = {} \/ (\E p : first(p) /\ ~vbr(p).magic) => NoneToStart
    BY <1>4, <1>5, <1>6 DEF NoneToStart
  <1>8. (\E p : first(p) /\ vbr(p).magic /\ bpb' = vbr(p).bpb) => Starts(bpb')
    BY <1>5, <1>6 DEF Starts
  <1>9. QED
    BY <1>1, <1>2, <1>7, <1>8, Zenon

LEMMA MbrLoads == ASSUME ImageInv, Mbr PROVE ImageInv'
  <1>1. installed \in Installations
    BY DEF ImageInv
  <1>2. /\ installed' = installed /\ temp' = temp /\ memory' = memory
        /\ pc' = "halted" \/ (pc' = "reset" /\ Starts(bpb'))
    BY <1>1, MbrReads
  <1>3. Starts(bpb') => KernelOn(installed, bpb')
    BY <1>1, TheBootSector DEF Starts
  <1>4. QED
    BY <1>2, <1>3, ImageKept

LEMMA StartLoads ==
  ASSUME ImageInv, DiskReset \/ LoadStage2 \/ ReadFails PROVE ImageInv'
  <1>1. /\ UNCHANGED <<installed, temp, memory, bpb>>
        /\ \/ pc \in {"reset", "stage2"} /\ pc' \in {"reset", "stage2", "mmap", "halted"}
           \/ pc' = "halted"
    BY DEF DiskReset, LoadStage2, ReadFails, Halt, fileVars
  <1>2. pc' \in {"reset", "stage2", "mmap"} => KernelOn(installed, bpb')
    BY <1>1 DEF ImageInv
  <1>3. QED
    BY <1>1, <1>2, ImageKept

LEMMA MapLoads == ASSUME ImageInv, MemoryMap PROVE ImageInv'
  <1>1. /\ UNCHANGED <<installed, temp, memory, bpb>> /\ pc = "mmap"
        /\ \/ pc' = "mmap"
           \/ pc' = "find" /\ cluster' = bpb.root_cluster
    BY DEF MemoryMap, fileVars
  <1>2. KernelOn(installed, bpb')
    BY <1>1 DEF ImageInv
  <1>3. CASE pc' = "mmap"
    BY <1>1, <1>2, <1>3, ImageKept
  <1>4. CASE pc' = "find"
    BY <1>1, <1>2, <1>4 DEF ImageInv
  <1>5. QED
    BY <1>1, <1>3, <1>4

(* A cluster is next, and a cluster has been loaded.                       *)
LEMMA ReadyToLoad ==
  ASSUME ImageInv, UNCHANGED <<installed, bpb, temp, memory>>, KernelOn(installed, bpb),
         pc' = "load", NEW j \in 1 .. Len(installed.chain), cluster' = installed.chain[j],
         Held(ClusterSize, installed.kernel, bx', temp', j - 1)
  PROVE  ImageInv'
  <1>1. Loaded(j - 1)'
    BY HeldIsLoaded
  <1>2. (\E i \in 1 .. Len(installed.chain) : cluster = installed.chain[i] /\ Loaded(i - 1))'
    BY <1>1
  <1>3. QED
    BY <1>2 DEF ImageInv

LEMMA HasLoaded ==
  ASSUME ImageInv, UNCHANGED <<installed, bpb, memory>>, DOMAIN temp' = DOMAIN temp,
         KernelOn(installed, bpb),
         pc' = "next", NEW j \in 1 .. Len(installed.chain), cluster' = installed.chain[j],
         Held(ClusterSize, installed.kernel, bx', temp', j)
  PROVE  ImageInv'
  <1>1. Loaded(j)'
    BY HeldIsLoaded
  <1>2. (\E i \in 1 .. Len(installed.chain) : cluster = installed.chain[i] /\ Loaded(i))'
    BY <1>1
  <1>3. QED
    BY <1>2 DEF ImageInv

(* No cluster yet.                                                         *)
LEMMA HeldNone ==
  ASSUME NEW size \in Nat, size > 0, Multiple(SegmentSize, size), NEW K, NEW t
  PROVE  Held(size, K, 0, t, 0)
  <1> DEFINE S == SegmentSize
  <1>1. S \in Nat /\ S > 0 /\ 0 * size = 0 /\ S - 0 = S
    BY SegmentIsNat
  <1>2. PICK q \in 1 .. S : S = q * size
    BY DEF Multiple
  <1>3. 1 * size <= q * size
    BY <1>2, MonoLeq
  <1>4. 0 + size <= S
    BY <1>2, <1>3
  <1>5. \A a \in 0 .. (Len(K) - 1) : ~(a < 0)
    OBVIOUS
  <1>6. QED
    BY <1>1, <1>4, <1>5 DEF Held

(* The entry of the directory that is found is the kernel's.               *)
LEMMA FindLoads == ASSUME ImageInv, FAT32_FIND_FILE PROVE ImageInv'
  <1> DEFINE z == ClusterSize
             C == ClusterAt(cluster)
             D(k) == Cell(installed, bpb, bpb.root_cluster, k)
  <1>1. /\ installed \in Installations /\ KernelOn(installed, bpb) /\ cluster = bpb.root_cluster
    BY DEF ImageInv, FAT32_FIND_FILE
  <1>2. UNCHANGED <<installed, temp, memory, bpb>>
    BY DEF FAT32_FIND_FILE, Stop, Halt, fileVars
  <1>3. \/ pc' = "halted"
        \/ /\ pc' = "load" /\ bx' = 0
           /\ \E e \in Matches : e.low # 0 /\ cluster' = e.high * WordSize + e.low
    BY DEF FAT32_FIND_FILE, Stop, Halt
  <1>4. z \in Nat /\ z > 0 /\ cluster \in Nat
    BY <1>1, Volume
  <1>5. DOMAIN C = 1 .. z /\ \A k \in 0 .. (z - 1) : C[k + 1] = D(k)
    BY <1>1, <1>4, ClusterCells
  <1>6. \A k \in 0 .. (z - 1) :
          D(k).name = kernel_filename /\ (\A l \in 0 .. (k - 1) : D(l).name # kernel_filename) =>
            D(k).low = 0 \/ D(k).high * WordSize + D(k).low = installed.chain[1]
    BY <1>1 DEF KernelOn, ClusterSize
  <1>7. ASSUME NEW e \in Matches
        PROVE  e.low = 0 \/ e.high * WordSize + e.low = installed.chain[1]
    <2>1. PICK j \in DOMAIN C :
            /\ e = C[j] /\ C[j].name = kernel_filename
            /\ \A i \in 1 .. (j - 1) : C[i].name # kernel_filename
      BY <1>7 DEF Matches
    <2> HIDE DEF z, C, D
    <2>2. j - 1 \in 0 .. (z - 1) /\ j - 1 + 1 = j /\ j \in Nat
      BY <1>4, <1>5, <2>1
    <2>3. e = D(j - 1)
      BY <1>5, <2>1, <2>2
    <2>4. ASSUME NEW l \in 0 .. (j - 1 - 1) PROVE D(l).name # kernel_filename
      <3>1. l \in 0 .. (z - 1) /\ l + 1 \in 1 .. (j - 1)
        BY <1>4, <2>2
      <3>2. QED
        BY <1>5, <2>1, <3>1
    <2>5. D(j - 1).name = kernel_filename
      BY <2>1, <2>3
    <2>6. QED
      BY <1>6, <2>2, <2>3, <2>4, <2>5
  <1>8. CASE pc' = "halted"
    BY <1>2, <1>8, ImageKept
  <1>9. CASE pc' # "halted"
    <2>1. pc' = "load" /\ bx' = 0 /\ cluster' = installed.chain[1]
      BY <1>3, <1>7, <1>9
    <2>2. Held(z, installed.kernel, bx', temp', 0)
      BY <1>1, <1>4, <2>1, TheChain, HeldNone
    <2>3. 1 \in 1 .. Len(installed.chain) /\ 1 - 1 = 0
      BY <1>1, TheChain
    <2>4. QED
      BY <1>1, <1>2, <2>1, <2>2, <2>3, ReadyToLoad
  <1>10. QED
    BY <1>8, <1>9

LEMMA LoadLoads == ASSUME ImageInv, Load PROVE ImageInv'
  <1> DEFINE z == ClusterSize
             C == ClusterAt(cluster)
             K == installed.kernel
             R == Range(K)
             n == Len(installed.chain)
             y == (bx + z) % SegmentSize
             u == [a \in DOMAIN temp |-> IF a \in bx .. (bx + z - 1) THEN C[a - bx + 1] ELSE temp[a]]
  <1>1. installed \in Installations /\ KernelOn(installed, bpb) /\ DOMAIN temp = 0 .. (TempSize - 1)
    BY DEF ImageInv, Load
  <1>2. PICK i \in 1 .. n : cluster = installed.chain[i] /\ Loaded(i - 1)
    BY DEF ImageInv, Load
  <1>3. UNCHANGED <<installed, cluster, memory, bpb>> /\ pc' = "next" /\ temp' = u /\ bx' = y
    BY DEF Load
  <1>4. /\ z \in Nat /\ z > 0 /\ Multiple(SegmentSize, z)
        /\ n \in Nat /\ (n - 1) * z < Len(K) /\ installed.chain \in Seq(Nat)
    BY <1>1, Volume, TheChain
  <1>5. K \in Seq(R) /\ Len(K) \in Nat /\ \A k \in 1 .. Len(K) : IsElf(K[k]) <=> k = 1
    BY <1>1, TheKernel
  <1>6. cluster \in Nat
    BY <1>2, <1>4, ElementOfSeq
  <1>7. Held(z, K, bx, temp, i - 1)
    BY <1>2, LoadedIsHeld
  <1>8. \A k \in 0 .. (z - 1) : C[k + 1] = Cell(installed, bpb, installed.chain[i], k)
    BY <1>1, <1>2, <1>6, ClusterCells
  <1>9. \A k \in 0 .. (z - 1) :
          (i - 1) * z + k < Len(K) =>
            Cell(installed, bpb, installed.chain[i], k) = K[(i - 1) * z + k + 1]
    BY <1>1, <1>2 DEF KernelOn, ClusterSize
  <1>10. \A k \in 0 .. (z - 1) : (i - 1) * z + k < Len(K) => C[k + 1] = K[(i - 1) * z + k + 1]
    BY <1>8, <1>9
  <1>11. DOMAIN u = DOMAIN temp
    OBVIOUS
  <1> HIDE DEF z, C, K, R, n
  <1>12. i \in Nat /\ i - 1 \in Nat /\ n - 1 \in Nat /\ i - 1 <= n - 1 /\ i - 1 + 1 = i
    <2>1. i \in 1 .. n /\ n \in Nat
      BY <1>2, <1>4
    <2>2. QED
      BY ONLY <2>1
  <1>13. (i - 1) * z < Len(K)
    <2>1. (i - 1) * z <= (n - 1) * z /\ (i - 1) * z \in Nat /\ (n - 1) * z \in Nat
      BY <1>4, <1>12, MonoLeq
    <2> DEFINE v == (i - 1) * z
               w == (n - 1) * z
               l == Len(K)
    <2>2. v <= w /\ v \in Nat /\ w \in Nat /\ w < l /\ l \in Nat
      BY <1>4, <1>5, <2>1
    <2> HIDE DEF v, w, l
    <2>3. v < l
      BY ONLY <2>2
    <2>4. QED
      BY <2>3 DEF v, l
  <1>14. Held(z, K, y, u, i - 1 + 1)
    <2> DEFINE j == i - 1
    <2>1. y = (bx + z) % SegmentSize /\ u = Copied(z, C, bx, temp)
      BY DEF Copied
    <2>2. j \in Nat /\ Held(z, K, bx, temp, j) /\ j * z < Len(K)
      BY <1>7, <1>12, <1>13
    <2>3. Continues(z, K, j, C)
      BY <1>10 DEF Continues
    <2>4. /\ z \in Nat /\ z > 0 /\ Multiple(SegmentSize, z) /\ DOMAIN temp = 0 .. (TempSize - 1)
          /\ K \in Seq(R) /\ HeaderFirst(K)
      BY <1>1, <1>4, <1>5 DEF HeaderFirst
    <2> HIDE DEF j, y, u
    <2>5. Held(z, K, y, u, j + 1)
      BY <2>1, <2>2, <2>3, <2>4, HeldNext
    <2>6. QED
      BY <2>5 DEF j
  <1>15. Held(ClusterSize, installed.kernel, bx', temp', i)
    BY <1>3, <1>12, <1>14 DEF z, K
  <1>16. i \in 1 .. Len(installed.chain)
    BY <1>2 DEF n
  <1>17. DOMAIN temp' = DOMAIN temp /\ cluster' = installed.chain[i]
    BY <1>2, <1>3, <1>11
  <1>18. QED
    BY <1>1, <1>3, <1>15, <1>16, <1>17, HasLoaded

LEMMA NextLoads == ASSUME ImageInv, LoadNext PROVE ImageInv'
  <1> DEFINE n == Len(installed.chain)
  <1>1. installed \in Installations /\ KernelOn(installed, bpb)
    BY DEF ImageInv, LoadNext
  <1>2. PICK i \in 1 .. n : cluster = installed.chain[i] /\ Loaded(i)
    BY DEF ImageInv, LoadNext
  <1>3. /\ UNCHANGED <<installed, bx, temp, memory, bpb>>
        /\ cluster' = GET_NEXT_CLUSTER(cluster)
        /\ pc' = IF cluster' >= EOC THEN "elf" ELSE "load"
    BY DEF LoadNext, fileVars
  <1>4. n \in Nat /\ installed.chain \in Seq(Nat) /\ i \in Nat
    BY <1>1, <1>2, TheChain
  <1>5. cluster \in Nat
    BY <1>2, <1>4, ElementOfSeq
  <1>6. cluster' = FatEntry(installed, bpb, installed.chain[i])
    BY <1>1, <1>2, <1>3, <1>5, FatCells
  <1>7. Held(ClusterSize, installed.kernel, bx', temp', i)
    BY <1>2, <1>3, LoadedIsHeld
  <1>8. CASE i = n
    <2>1. FatEntry(installed, bpb, installed.chain[n]) >= EOC
      BY <1>1 DEF KernelOn
    <2>2. pc' = "elf"
      BY <1>3, <1>6, <1>8, <2>1
    <2>3. Loaded(n)'
      BY <1>3, <1>7, <1>8, HeldIsLoaded
    <2>4. QED
      BY <1>1, <1>3, <2>2, <2>3 DEF ImageInv
  <1>9. CASE i # n
    <2>1. i \in 1 .. (n - 1) /\ i + 1 \in 1 .. n /\ i + 1 - 1 = i
      BY <1>2, <1>4, <1>9
    <2>2. FatEntry(installed, bpb, installed.chain[i]) = installed.chain[i + 1]
          /\ installed.chain[i + 1] < EOC
      BY <1>1, <2>1 DEF KernelOn
    <2>3. installed.chain[i + 1] \in Nat
      BY <1>4, <2>1, ElementOfSeq
    <2>4. ~(installed.chain[i + 1] >= EOC)
      BY <2>2, <2>3, BootAssumption
    <2>5. pc' = "load" /\ cluster' = installed.chain[i + 1]
      BY <1>3, <1>6, <2>2, <2>4
    <2>6. Held(ClusterSize, installed.kernel, bx', temp', i + 1 - 1)
      BY <1>7, <2>1
    <2>7. QED
      BY <1>1, <1>3, <2>1, <2>5, <2>6, ReadyToLoad
  <1>10. QED
    BY <1>8, <1>9

LEMMA ParseLoads == ASSUME ImageInv, ParseElf PROVE ImageInv'
  <1> DEFINE n == Len(installed.chain)
             z == ClusterSize
             l == Len(installed.kernel)
             S == SegmentSize
  <1>1. /\ installed \in Installations /\ KernelOn(installed, bpb) /\ Loaded(n)
        /\ DOMAIN temp = 0 .. (TempSize - 1) /\ DOMAIN memory = 0 .. (MemSize - 1)
    BY DEF ImageInv, ParseElf
  <1>2. /\ UNCHANGED <<installed, temp, memory, bpb>>
        /\ \/ pc' = "halted"
           \/ /\ pc' = "segment" /\ IsElf(temp[0])
              /\ kernel_entry_point' = temp[0].entry /\ phdr' = 1
    BY DEF ParseElf, Stop, Halt, fileVars
  <1>3. CASE pc' = "halted"
    BY <1>2, <1>3, ImageKept
  <1>4. CASE pc' # "halted"
    <2>1. n \in Nat /\ z \in Nat /\ n * z \in Nat /\ l \in Nat /\ l > 0 /\ l <= n * z /\ S \in Nat
      <3>1. n \in Nat /\ l <= n * z
        BY <1>1, TheChain
      <3>2. z \in Nat
        BY <1>1, Volume
      <3>3. l \in Nat /\ l > 0
        BY <1>1, TheKernel
      <3>4. n * z \in Nat
        BY <3>1, <3>2
      <3>5. QED
        BY <3>1, <3>2, <3>3, <3>4, SegmentIsNat
    <2>2. IsElf(temp[0])
      BY <1>2, <1>4
    <2>3. /\ n * z <= S => \A a \in 0 .. (l - 1) : a < n * z => temp[a] = installed.kernel[a + 1]
          /\ n * z > S => ~IsElf(temp[0])
      BY <1>1 DEF Loaded
    <2>4. n * z <= S
      BY <2>1, <2>2, <2>3
    <2>5. \A a \in 0 .. (l - 1) : temp[a] = installed.kernel[a + 1]
      <3>1. SUFFICES ASSUME NEW a \in 0 .. (l - 1) PROVE temp[a] = installed.kernel[a + 1]
        OBVIOUS
      <3> DEFINE w == n * z
      <3>2. w \in Nat /\ l <= w /\ l \in Nat
        BY <2>1
      <3> HIDE DEF w, l
      <3>3. a < w
        BY <3>2
      <3>4. QED
        BY <2>3, <2>4, <3>3 DEF w
    <2>6. temp[0] = Header
      <3>1. 0 \in 0 .. (l - 1) /\ 0 + 1 = 1
        BY <2>1
      <3>2. QED
        BY <2>5, <3>1 DEF Header
    <2>7. /\ Header' = Header /\ pc' = "segment"
          /\ kernel_entry_point' = Header.entry /\ phdr' = 1
      BY <1>2, <1>4, <2>6 DEF Header
    <2>8. (phdr \in 1 .. Len(Header.phdrs))' /\ phdr' - 1 = 0
      BY <1>1, <2>7, TheKernel
    <2>9. Relocates(phdr - 1)'
      <3>1. \A p \in 1 .. (phdr' - 1) : FALSE
        BY <2>8
      <3>2. QED
        BY <2>7, <3>1 DEF Relocates
    <2>10. (\A a \in 0 .. (Len(installed.kernel) - 1) : temp[a] = installed.kernel[a + 1])'
      BY <1>2, <2>5
    <2>11. QED
      BY <1>1, <1>2, <2>7, <2>8, <2>9, <2>10 DEF ImageInv
  <1>5. QED
    BY <1>3, <1>4

-----------------------------------------------------------------------------
(* The segments of the kernel.                                             *)

LEMMA TheSegments ==
  ASSUME installed \in Installations,
         NEW p \in DOMAIN Header.phdrs, Header.phdrs[p].type = "PT_LOAD"
  PROVE  LET s == Header.phdrs[p]
         IN  /\ s \in Segments
             /\ s.offset \in Nat /\ s.paddr \in Nat /\ s.filesz \in Nat /\ s.memsz \in Nat
             /\ s.filesz <= s.memsz /\ s.offset + s.filesz <= Len(installed.kernel)
             /\ s.paddr + s.memsz <= MemSize
             /\ \A q \in DOMAIN Header.phdrs :
                  Header.phdrs[q].type = "PT_LOAD" /\ q # p =>
                    \/ s.paddr + s.memsz <= Header.phdrs[q].paddr
                    \/ Header.phdrs[q].paddr + Header.phdrs[q].memsz <= s.paddr
  <1> DEFINE phdrs == Header.phdrs
             loaded == {q \in DOMAIN phdrs : phdrs[q].type = "PT_LOAD"}
  <1>1. p \in loaded /\ phdrs[p] \in Segments
    BY Zenon DEF Segments
  <1>2. IsKernel(installed.kernel)
    BY InstallationsAssumption
  <1>3. /\ \A r \in loaded :
             /\ phdrs[r].offset \in Nat /\ phdrs[r].paddr \in Nat
             /\ phdrs[r].filesz \in Nat /\ phdrs[r].memsz \in Nat
             /\ phdrs[r].filesz <= phdrs[r].memsz
             /\ phdrs[r].offset + phdrs[r].filesz <= Len(installed.kernel)
             /\ phdrs[r].paddr + phdrs[r].memsz <= MemSize
        /\ \A r, q \in loaded :
             r # q => \/ phdrs[r].paddr + phdrs[r].memsz <= phdrs[q].paddr
                      \/ phdrs[q].paddr + phdrs[q].memsz <= phdrs[r].paddr
    BY <1>2 DEF IsKernel, Header
  <1>4. \A q \in DOMAIN phdrs : phdrs[q].type = "PT_LOAD" => q \in loaded
    OBVIOUS
  <1> HIDE DEF phdrs, loaded
  <1>5. QED
    BY <1>1, <1>3, <1>4 DEF phdrs

(* What the copy and the zeroing of one segment do to the memory.          *)
LEMMA RelocatedCells ==
  ASSUME DOMAIN memory = 0 .. (MemSize - 1), NEW n \in Nat,
         \A a \in 0 .. (n - 1) : temp[a] = installed.kernel[a + 1],
         NEW s, s.offset \in Nat, s.paddr \in Nat, s.filesz \in Nat, s.memsz \in Nat,
         s.filesz > 0, s.filesz <= s.memsz, s.offset + s.filesz <= n, s.paddr + s.memsz <= MemSize
  PROVE  /\ \A k \in Nat : k < s.memsz => Relocated(s)[s.paddr + k] =
              IF k < s.filesz THEN installed.kernel[s.offset + k + 1] ELSE Zero
         /\ \A a \in DOMAIN memory :
              a < s.paddr \/ a >= s.paddr + s.memsz => Relocated(s)[a] = memory[a]
  <1> DEFINE o == s.offset
             b == s.paddr
             f == s.filesz
             m == s.memsz
             bss == IF m = f THEN 0 ELSE Rounds(m - f)
  <1>1. o \in Nat /\ b \in Nat /\ f \in Nat /\ m \in Nat /\ MemSize \in Nat
        /\ f > 0 /\ f <= m /\ o + f <= n /\ b + m <= MemSize
    BY BootAssumption
  <1> DEFINE copied == Rounds(f)
             u == Relocated(s)
  <1>2. u = [a \in DOMAIN memory |->
              IF a \in b .. (b + copied - 1) THEN temp[o + a - b]
              ELSE IF a \in (b + copied) .. (b + copied + bss - 1) THEN Zero
              ELSE memory[a]]
    BY DEF Relocated
  <1> HIDE DEF o, b, f, m, u
  <1>3. copied = f
    BY <1>1 DEF Rounds
  <1>4. bss = m - f
    BY <1>1 DEF Rounds
  <1> HIDE DEF copied, bss
  <1>5. \A a \in 0 .. (MemSize - 1) :
          u[a] = IF a \in b .. (b + f - 1) THEN temp[o + a - b]
                 ELSE IF a \in (b + f) .. (b + m - 1) THEN Zero
                 ELSE memory[a]
    <2>1. b + copied - 1 = b + f - 1 /\ b + copied = b + f /\ b + copied + bss - 1 = b + m - 1
      BY <1>1, <1>3, <1>4
    <2>2. QED
      BY <1>2, <2>1
  <1>6. ASSUME NEW k \in Nat, k < m
        PROVE  u[b + k] = IF k < f THEN installed.kernel[o + k + 1] ELSE Zero
    <2>1. b + k \in 0 .. (MemSize - 1)
      BY <1>1, <1>6
    <2>2. CASE k < f
      <3>1. b + k \in b .. (b + f - 1) /\ o + (b + k) - b = o + k /\ o + k \in 0 .. (n - 1)
        BY <1>1, <2>2
      <3>2. u[b + k] = temp[o + k]
        BY <1>5, <2>1, <3>1
      <3>3. QED
        BY <2>2, <3>1, <3>2
    <2>3. CASE ~(k < f)
      <3>1. b + k \notin b .. (b + f - 1) /\ b + k \in (b + f) .. (b + m - 1)
        BY <1>1, <1>6, <2>3
      <3>2. QED
        BY <1>5, <2>1, <2>3, <3>1
    <2>4. QED
      BY <2>2, <2>3
  <1>7. ASSUME NEW a \in 0 .. (MemSize - 1), a < b \/ a >= b + m
        PROVE  u[a] = memory[a]
    <2>1. a \notin b .. (b + f - 1) /\ a \notin (b + f) .. (b + m - 1)
      BY <1>1, <1>7
    <2>2. QED
      BY <1>5, <2>1
  <1>8. QED
    BY <1>6, <1>7 DEF o, b, f, m, u

(* Relocates, one program header further.                                  *)
LEMMA RelocatesOneMore ==
  ASSUME installed \in Installations, DOMAIN memory = 0 .. (MemSize - 1), installed' = installed,
         \A a \in 0 .. (Len(installed.kernel) - 1) : temp[a] = installed.kernel[a + 1],
         NEW p \in 1 .. Len(Header.phdrs), Relocates(p - 1),
         kernel_entry_point' = kernel_entry_point,
         memory' = IF Header.phdrs[p].type = "PT_LOAD" THEN Relocated(Header.phdrs[p]) ELSE memory
  PROVE  Relocates(p)' /\ DOMAIN memory' = DOMAIN memory
  <1> DEFINE P == Header.phdrs
             K == installed.kernel
             s == P[p]
             Kept(q, k) == memory[P[q].paddr + k] =
                             IF k < P[q].filesz THEN K[P[q].offset + k + 1] ELSE Zero
             Now(q, k)  == memory'[P[q].paddr + k] =
                             IF k < P[q].filesz THEN K[P[q].offset + k + 1] ELSE Zero
  <1>1. DOMAIN memory' = DOMAIN memory
    BY DEF Relocated
  <1>2. Header' = Header /\ (AllInFile' <=> AllInFile)
    BY DEF AllInFile, Segments, Header
  <1>3. P \in Seq(Range(P)) /\ DOMAIN P = 1 .. Len(P) /\ Len(P) \in Nat /\ Len(K) \in Nat
    BY TheKernel
  <1>4. kernel_entry_point = Header.entry
        /\ (AllInFile => \A q \in 1 .. (p - 1) : P[q].type = "PT_LOAD" =>
                           \A k \in 0 .. MemSize : k < P[q].memsz => Kept(q, k))
    BY DEF Relocates
  <1>5. ASSUME AllInFile, NEW q \in 1 .. p, P[q].type = "PT_LOAD",
               NEW k \in 0 .. MemSize, k < P[q].memsz
        PROVE  Now(q, k)
    <2>1. q \in DOMAIN P /\ p \in DOMAIN P /\ k \in Nat /\ MemSize \in Nat
      BY <1>3, BootAssumption
    <2>2. /\ P[q] \in Segments
          /\ P[q].offset \in Nat /\ P[q].paddr \in Nat /\ P[q].filesz \in Nat /\ P[q].memsz \in Nat
          /\ P[q].filesz <= P[q].memsz /\ P[q].offset + P[q].filesz <= Len(K)
          /\ P[q].paddr + P[q].memsz <= MemSize
          /\ \A r \in DOMAIN P : P[r].type = "PT_LOAD" /\ r # q =>
               \/ P[q].paddr + P[q].memsz <= P[r].paddr
               \/ P[r].paddr + P[r].memsz <= P[q].paddr
      BY <1>5, <2>1, TheSegments
    <2>3. CASE q = p
      <3>1. memory' = Relocated(s) /\ s.filesz > 0
        BY <1>5, <2>2, <2>3 DEF AllInFile
      <3>2. Relocated(s)[s.paddr + k] = IF k < s.filesz THEN K[s.offset + k + 1] ELSE Zero
        BY <1>3, <1>5, <2>1, <2>2, <2>3, <3>1, RelocatedCells
      <3>3. QED
        BY <2>3, <3>1, <3>2
    <2>4. CASE q # p
      <3>1. Kept(q, k)
        <4>1. q \in 1 .. (p - 1)
          BY <2>4
        <4>2. QED
          BY <1>4, <1>5, <4>1
      <3>2. memory'[P[q].paddr + k] = memory[P[q].paddr + k]
        <4> DEFINE a == P[q].paddr + k
        <4>1. a \in DOMAIN memory
          <5> DEFINE b == P[q].paddr
                     m == P[q].memsz
          <5>1. b \in Nat /\ m \in Nat /\ b + m <= MemSize /\ k < m
            BY <1>5, <2>2
          <5> HIDE DEF b, m
          <5>2. b + k \in 0 .. (MemSize - 1)
            BY ONLY <2>1, <5>1
          <5>3. QED
            BY <5>2 DEF b
        <4>2. CASE P[p].type # "PT_LOAD"
          BY <4>2
        <4>3. CASE P[p].type = "PT_LOAD"
          <5>1. memory' = Relocated(s)
            BY <4>3
          <5>2. /\ s \in Segments
                /\ s.offset \in Nat /\ s.paddr \in Nat /\ s.filesz \in Nat /\ s.memsz \in Nat
                /\ s.filesz <= s.memsz /\ s.offset + s.filesz <= Len(K)
                /\ s.paddr + s.memsz <= MemSize
            BY <2>1, <4>3, TheSegments
          <5>3. s.filesz > 0
            BY <1>5, <5>2 DEF AllInFile
          <5>4. P[q].paddr + P[q].memsz <= s.paddr \/ s.paddr + s.memsz <= P[q].paddr
            BY <2>1, <2>2, <2>4, <4>3
          <5>5. a < s.paddr \/ a >= s.paddr + s.memsz
            <6> DEFINE b == P[q].paddr
                       m == P[q].memsz
                       c == s.paddr
                       l == s.memsz
            <6>1. b \in Nat /\ m \in Nat /\ c \in Nat /\ l \in Nat /\ (b + m <= c \/ c + l <= b) /\ k < m
              BY <1>5, <2>2, <5>2, <5>4
            <6> HIDE DEF b, m, c, l
            <6>2. b + k < c \/ b + k >= c + l
              BY <2>1, <6>1
            <6>3. QED
              BY <6>2 DEF b, c, l
          <5>6. Relocated(s)[a] = memory[a]
            <6> HIDE DEF a, s
            <6>1. QED
              BY <1>3, <4>1, <5>2, <5>3, <5>5, RelocatedCells
          <5>7. QED
            BY <5>1, <5>6
        <4>4. QED
          BY <4>2, <4>3
      <3>3. QED
        BY <3>1, <3>2
    <2>5. QED
      BY <2>3, <2>4
  <1>6. Relocates(p)'
    <2>1. kernel_entry_point' = Header'.entry
      BY <1>2, <1>4
    <2>2. AllInFile' =>
            \A q \in 1 .. p : Header'.phdrs[q].type = "PT_LOAD" =>
              \A k \in 0 .. MemSize : k < Header'.phdrs[q].memsz => Now(q, k)
      BY <1>2, <1>5
    <2>3. QED
      BY <1>2, <2>1, <2>2 DEF Relocates
  <1>7. QED
    BY <1>1, <1>6

LEMMA RelocateLoads == ASSUME ImageInv, Relocate PROVE ImageInv'
  <1> DEFINE P == Header.phdrs
  <1>1. /\ installed \in Installations
        /\ DOMAIN temp = 0 .. (TempSize - 1) /\ DOMAIN memory = 0 .. (MemSize - 1)
        /\ phdr \in 1 .. Len(P) /\ Relocates(phdr - 1)
        /\ \A a \in 0 .. (Len(installed.kernel) - 1) : temp[a] = installed.kernel[a + 1]
    BY DEF ImageInv, Relocate
  <1>2. temp[0] = Header
    <2>1. 0 \in 0 .. (Len(installed.kernel) - 1) /\ 0 + 1 = 1
      BY <1>1, TheKernel
    <2>2. QED
      BY <1>1, <2>1 DEF Header
  <1>3. /\ UNCHANGED <<installed, temp, kernel_entry_point>> /\ phdr' = phdr + 1
        /\ memory' = IF P[phdr].type = "PT_LOAD" THEN Relocated(P[phdr]) ELSE memory
        /\ pc' = IF phdr' <= Len(P) THEN "segment" ELSE "kernel"
    BY <1>2 DEF Relocate
  <1>4. PICK p \in 1 .. Len(P) : p = phdr
    BY <1>1
  <1>5. Relocates(p)' /\ DOMAIN memory' = DOMAIN memory
    <2>1. Relocates(p - 1)
      BY <1>1, <1>4
    <2>2. memory' = IF P[p].type = "PT_LOAD" THEN Relocated(P[p]) ELSE memory
      BY <1>3, <1>4
    <2>3. QED
      BY <1>1, <1>3, <2>1, <2>2, RelocatesOneMore
  <1>6. Header' = Header /\ Len(P) \in Nat
    BY <1>1, <1>3, TheKernel DEF Header
  <1>7. phdr' = p + 1 /\ phdr' - 1 = p /\ (phdr' <= Len(P) \/ p = Len(P))
    BY <1>3, <1>4, <1>6
  <1>8. CASE phdr' <= Len(P)
    <2>1. Relocates(phdr - 1)'
      BY <1>5, <1>7 DEF Relocates
    <2>2. (phdr \in 1 .. Len(Header.phdrs))'
      BY <1>6, <1>7, <1>8
    <2>3. (\A a \in 0 .. (Len(installed.kernel) - 1) : temp[a] = installed.kernel[a + 1])'
      BY <1>1, <1>3
    <2>4. pc' = "segment"
      BY <1>3, <1>8
    <2>5. QED
      BY <1>1, <1>3, <1>5, <2>1, <2>2, <2>3, <2>4 DEF ImageInv
  <1>9. CASE ~(phdr' <= Len(P))
    <2>1. Relocates(Len(Header.phdrs))'
      BY <1>5, <1>6, <1>7, <1>9 DEF Relocates
    <2>2. pc' = "kernel"
      BY <1>3, <1>9
    <2>3. QED
      BY <1>1, <1>3, <1>5, <2>1, <2>2 DEF ImageInv
  <1>10. QED
    BY <1>8, <1>9

(* ImageInv is about the loader's state.                                   *)
LEMMA ImageUnchanged == ASSUME ImageInv, UNCHANGED vars PROVE ImageInv'
  <1>1. UNCHANGED <<installed, pc, bpb, cluster, bx, temp, phdr, kernel_entry_point, memory>>
    BY DEF vars, fileVars
  <1>2. KernelOn(installed, bpb)' <=> KernelOn(installed, bpb)
    BY <1>1
  <1>3. ASSUME NEW j PROVE Loaded(j)' <=> Loaded(j)
    BY <1>1 DEF Loaded, ClusterSize
  <1>4. Header' = Header /\ (AllInFile' <=> AllInFile)
    BY <1>1 DEF AllInFile, Segments, Header
  <1>5. /\ Relocates(phdr - 1)' <=> Relocates(phdr - 1)
        /\ Relocates(Len(Header.phdrs))' <=> Relocates(Len(Header.phdrs))
    BY <1>1, <1>4 DEF Relocates
  <1>6. /\ (\E i \in 1 .. Len(installed.chain) : cluster = installed.chain[i] /\ Loaded(i - 1))
           => (\E i \in 1 .. Len(installed.chain) : cluster = installed.chain[i] /\ Loaded(i - 1))'
        /\ (\E i \in 1 .. Len(installed.chain) : cluster = installed.chain[i] /\ Loaded(i))
           => (\E i \in 1 .. Len(installed.chain) : cluster = installed.chain[i] /\ Loaded(i))'
        /\ Loaded(Len(installed.chain)) => Loaded(Len(installed.chain))'
    <2>1. ASSUME NEW i \in 1 .. Len(installed.chain), cluster = installed.chain[i], Loaded(i - 1)
          PROVE  cluster' = installed'.chain[i] /\ Loaded(i - 1)'
      BY <1>1, <1>3, <2>1
    <2>2. ASSUME NEW i \in 1 .. Len(installed.chain), cluster = installed.chain[i], Loaded(i)
          PROVE  cluster' = installed'.chain[i] /\ Loaded(i)'
      BY <1>1, <1>3, <2>2
    <2>3. Loaded(Len(installed.chain)) => Loaded(Len(installed.chain))'
      BY <1>1 DEF Loaded, ClusterSize
    <2>4. QED
      BY <1>1, <2>1, <2>2, <2>3
  <1>7. QED
    BY <1>1, <1>2, <1>4, <1>5, <1>6 DEF ImageInv

LEMMA ImageNext == ASSUME ImageInv, [KernelNext]_allVars PROVE ImageInv'
  <1>1. CASE Loader
    BY <1>1, MbrLoads, StartLoads, MapLoads, FindLoads, LoadLoads, NextLoads, ParseLoads, RelocateLoads
    DEF Loader, Next
  <1>2. CASE memory_map_init \/ InitInterrupts \/ paging_init \/ keyboard_init \/ heap_init
             \/ ide_init \/ fat32_init \/ FillTaskTable \/ EnableTasking
    <2>1. UNCHANGED <<installed, temp, memory>>
      BY <1>2 DEF memory_map_init, InitInterrupts, paging_init, keyboard_init, heap_init,
         ide_init, fat32_init, FillTaskTable, EnableTasking, loaderVars, fileVars
    <2>2. pc' \in {"interrupts", "paging", "keyboard", "heap", "ide", "fat32", "tasks", "tasking",
                   "kernel_task", "halted"}
      BY <1>2 DEF memory_map_init, InitInterrupts, paging_init, keyboard_init, heap_init,
         ide_init, fat32_init, FillTaskTable, EnableTasking, SystemHalt
    <2>3. QED
      BY <2>1, <2>2, ImageKept
  <1>3. CASE Raise
    BY <1>3, ImageUnchanged DEF Raise
  <1>4. CASE \E line \in 0 .. 15 : Interrupt(line)
    <2>1. PICK line \in 0 .. 15 : Interrupt(line)
      BY <1>4
    <2>2. UNCHANGED <<loaderVars, failed>> /\ (pc' = pc \/ pc' \in {"fault", "hung"})
      BY <2>1 DEF Interrupt
    <2>3. CASE pc' = pc
      BY <2>2, <2>3, ImageUnchanged DEF vars, loaderVars
    <2>4. CASE pc' \in {"fault", "hung"}
      BY <2>2, <2>4, ImageKept DEF loaderVars, fileVars
    <2>5. QED
      BY <2>2, <2>3, <2>4
  <1>5. CASE UNCHANGED allVars
    BY <1>5, ImageUnchanged DEF allVars
  <1>6. QED
    BY <1>1, <1>2, <1>3, <1>4, <1>5 DEF KernelNext, Step

(* The memory of the loader holds what ImageInv says.                      *)
THEOREM EntryImageInvariant == KernelSpec => []ImageInv
  <1>1. KernelInit => ImageInv
    BY DEF KernelInit, Init, ImageInv
  <1>2. ImageInv /\ [KernelNext]_allVars => ImageInv'
    BY ImageNext
  <1>3. QED
    BY <1>1, <1>2, PTL DEF KernelSpec

(* For any size of sectors, clusters and segment, any layout of the volume,*)
(* any chain of clusters, and a kernel of any length with any number of    *)
(* segments, a kernel that is started is the one in the file.              *)
THEOREM EntryKernelInPlace == KernelSpec => []KernelInPlace
  <1>1. ImageInv => KernelInPlace
    <2> SUFFICES ASSUME ImageInv, pc = "kernel", AllInFile
                 PROVE  /\ kernel_entry_point = Header.entry
                        /\ \A s \in Segments, k \in 0 .. MemSize :
                             k < s.memsz => memory[s.paddr + k] =
                               IF k < s.filesz THEN installed.kernel[s.offset + k + 1] ELSE Zero
      BY DEF KernelInPlace
    <2> DEFINE P == Header.phdrs
    <2>1. Relocates(Len(P)) /\ installed \in Installations
      BY DEF ImageInv
    <2>2. DOMAIN P = 1 .. Len(P)
      BY <2>1, TheKernel
    <2>3. ASSUME NEW s \in Segments
          PROVE  \E p \in 1 .. Len(P) : P[p].type = "PT_LOAD" /\ s = P[p]
      BY <2>2, <2>3 DEF Segments
    <2> HIDE DEF P
    <2>4. QED
      BY <2>1, <2>3 DEF Relocates, P
  <1>2. QED
    BY <1>1, EntryImageInvariant, PTL

-----------------------------------------------------------------------------
(* The largest memory.                                                     *)

Bests(f, regions) ==
  /\ f \in [0 .. Len(regions) -> [index : Nat, length : Nat]]
  /\ Largest(regions) = f[Len(regions)].index
  /\ f[0] = [index |-> 1, length |-> 0]
  /\ \A n \in 1 .. Len(regions) :
       f[n] = IF Length(regions[n]) > f[n - 1].length
              THEN [index |-> n, length |-> Length(regions[n])] ELSE f[n - 1]

LEMMA LargestRuns ==
  ASSUME NEW R, NEW regions \in Seq(R), \A r \in R : Length(r) \in Nat
  PROVE  \E f : Bests(f, regions)
  <1> DEFINE n == Len(regions)
             S == [index : Nat, length : Nat]
             a == [index |-> 1, length |-> 0]
             F == [p \in (1 .. n) \X S |->
                     IF Length(regions[p[1]]) > p[2].length
                     THEN [index |-> p[1], length |-> Length(regions[p[1]])] ELSE p[2]]
             Eq(h) == h = [k \in 0 .. n |->
                             IF k = 0 THEN a
                             ELSE IF Length(regions[k]) > h[k - 1].length
                                  THEN [index |-> k, length |-> Length(regions[k])] ELSE h[k - 1]]
             f == CHOOSE h : Eq(h)
  <1>1. n \in Nat /\ a \in S
    OBVIOUS
  <1>2. Largest(regions) = f[n].index
    BY DEF Largest
  <1>3. ASSUME NEW k \in 1 .. n, NEW v \in S
        PROVE  /\ F[<<k, v>>] = IF Length(regions[k]) > v.length
                                THEN [index |-> k, length |-> Length(regions[k])] ELSE v
               /\ F[<<k, v>>] \in S
    <2>1. Length(regions[k]) \in Nat /\ k \in Nat
      BY <1>1
    <2>2. F[<<k, v>>] = IF Length(regions[k]) > v.length
                        THEN [index |-> k, length |-> Length(regions[k])] ELSE v
      OBVIOUS
    <2>3. QED
      BY <2>1, <2>2
  <1> HIDE DEF n, F, S, a
  <1>4. Steps(F, 1 .. n, S)
    BY <1>3 DEF Steps
  <1>5. PICK g : Bounded(g, n, S, a, F)
    BY <1>1, <1>4, BoundedRecursion
  <1>6. /\ g \in [0 .. n -> S]
        /\ g = [k \in 0 .. n |-> IF k = 0 THEN a ELSE F[<<k, g[k - 1]>>]]
    BY <1>5 DEF Bounded
  <1>7. ASSUME NEW k \in 0 .. n, k # 0
        PROVE  F[<<k, g[k - 1]>>] = IF Length(regions[k]) > g[k - 1].length
                                    THEN [index |-> k, length |-> Length(regions[k])] ELSE g[k - 1]
    <2>1. k \in 1 .. n /\ k - 1 \in 0 .. n
      BY <1>1, <1>7
    <2>2. g[k - 1] \in S
      BY <1>6, <2>1
    <2>3. QED
      BY <1>3, <2>1, <2>2
  <1>8. Eq(g)
    BY <1>6, <1>7
  <1> HIDE DEF Eq
  <1>9. Eq(f)
    BY <1>8
  <1> HIDE DEF f
  <1> USE DEF Eq
  <1>10. f[0] = a /\ DOMAIN f = 0 .. n /\ f = [k \in 0 .. n |-> f[k]]
    BY <1>1, <1>9
  <1>11. ASSUME NEW k \in 1 .. n
         PROVE  f[k] = IF Length(regions[k]) > f[k - 1].length
                       THEN [index |-> k, length |-> Length(regions[k])] ELSE f[k - 1]
    <2>1. k \in 0 .. n /\ k # 0
      BY <1>1
    <2>2. QED
      BY <1>9, <2>1
  <1> HIDE DEF Eq
  <1> DEFINE N == {k \in Nat : k <= n => f[k] \in S}
  <1>12. 0 \in N
    BY <1>1, <1>10
  <1>13. ASSUME NEW k \in Nat, k \in N PROVE k + 1 \in N
    <2> SUFFICES ASSUME k + 1 <= n PROVE f[k + 1] \in S
      OBVIOUS
    <2>1. k + 1 \in 1 .. n /\ k + 1 - 1 = k /\ k <= n
      BY <1>1
    <2>2. f[k] \in S
      BY <1>13, <2>1
    <2>3. f[k + 1] = IF Length(regions[k + 1]) > f[k].length
                     THEN [index |-> k + 1, length |-> Length(regions[k + 1])] ELSE f[k]
      BY <1>11, <2>1
    <2>4. F[<<k + 1, f[k]>>] = f[k + 1] /\ F[<<k + 1, f[k]>>] \in S
      BY <1>3, <2>1, <2>2, <2>3
    <2>5. QED
      BY <2>4
  <1> HIDE DEF N
  <1>14. Nat \subseteq N
    BY <1>12, <1>13, InductionNat
  <1>15. \A k \in 0 .. n : f[k] \in S
    BY <1>1, <1>14 DEF N
  <1>16. f \in [0 .. n -> S]
    BY <1>10, <1>15
  <1>17. QED
    BY <1>2, <1>10, <1>11, <1>16 DEF Bests, n, S, a

(* It is one of the list, if one of them has a length, and none is longer. *)
LEMMA LargestIsMax ==
  ASSUME NEW R, NEW regions \in Seq(R), \A r \in R : Length(r) \in Nat,
         NEW i \in DOMAIN regions, Length(regions[i]) > 0
  PROVE  /\ Largest(regions) \in DOMAIN regions
         /\ Length(regions[i]) <= Length(regions[Largest(regions)])
  <1> DEFINE n == Len(regions)
             L(k) == Length(regions[k])
  <1>1. PICK f : Bests(f, regions)
    BY LargestRuns
  <1>2. /\ Largest(regions) = f[n].index /\ f[0] = [index |-> 1, length |-> 0]
        /\ f \in [0 .. n -> [index : Nat, length : Nat]]
        /\ \A k \in 1 .. n : f[k] = IF L(k) > f[k - 1].length
                                    THEN [index |-> k, length |-> L(k)] ELSE f[k - 1]
    BY <1>1 DEF Bests
  <1>3. n \in Nat /\ DOMAIN regions = 1 .. n /\ \A k \in 1 .. n : L(k) \in Nat
    OBVIOUS
  <1> DEFINE Best(k) == /\ \A j \in 1 .. k : L(j) <= f[k].length
                        /\ f[k].length > 0 => f[k].index \in 1 .. n /\ L(f[k].index) = f[k].length
             N == {k \in Nat : k <= n => Best(k)}
  <1> HIDE DEF n, L
  <1>4. 0 \in N
    BY <1>2
  <1>5. ASSUME NEW k \in Nat, k \in N PROVE k + 1 \in N
    <2> SUFFICES ASSUME k + 1 <= n PROVE Best(k + 1)
      OBVIOUS
    <2>1. k + 1 \in 1 .. n /\ k + 1 - 1 = k /\ k \in 0 .. n /\ k <= n
      BY <1>3
    <2>2. Best(k) /\ f[k].length \in Nat /\ L(k + 1) \in Nat
      BY <1>2, <1>3, <1>5, <2>1
    <2>3. f[k + 1] = IF L(k + 1) > f[k].length THEN [index |-> k + 1, length |-> L(k + 1)] ELSE f[k]
      BY <1>2, <2>1
    <2>4. CASE L(k + 1) > f[k].length
      <3>1. f[k + 1].index = k + 1 /\ f[k + 1].length = L(k + 1)
        BY <2>3, <2>4
      <3>2. ASSUME NEW j \in 1 .. (k + 1) PROVE L(j) <= L(k + 1)
        <4>1. CASE j = k + 1
          BY <2>2, <4>1
        <4>2. CASE j # k + 1
          <5>1. j \in 1 .. k /\ j \in 1 .. n
            BY <1>3, <2>1, <4>2
          <5>2. L(j) <= f[k].length /\ L(j) \in Nat
            BY <1>3, <2>2, <5>1
          <5>3. QED
            BY ONLY <2>2, <2>4, <5>2
        <4>3. QED
          BY <4>1, <4>2
      <3>3. QED
        BY <2>1, <3>1, <3>2
    <2>5. CASE ~(L(k + 1) > f[k].length)
      <3>1. f[k + 1] = f[k]
        BY <2>3, <2>5
      <3>2. L(k + 1) <= f[k].length
        BY ONLY <2>2, <2>5
      <3>3. \A j \in 1 .. (k + 1) : j = k + 1 \/ j \in 1 .. k
        BY <2>1
      <3>4. QED
        BY <2>2, <3>1, <3>2, <3>3
    <2>6. QED
      BY <2>4, <2>5
  <1> HIDE DEF N
  <1>6. Nat \subseteq N
    BY <1>4, <1>5, InductionNat
  <1>7. Best(n)
    BY <1>3, <1>6 DEF N
  <1>8. L(i) <= f[n].length /\ L(i) > 0 /\ L(i) \in Nat /\ f[n].length \in Nat
    BY <1>2, <1>3, <1>7 DEF L
  <1>9. f[n].length > 0
    BY ONLY <1>8
  <1>10. f[n].index \in 1 .. n /\ L(f[n].index) = f[n].length
    BY <1>7, <1>9
  <1>11. QED
    BY <1>2, <1>3, <1>8, <1>10 DEF L

-----------------------------------------------------------------------------
(* A machine that has what is asked for goes on.                           *)

LEMMA Rigid ==
  ASSUME installed' = installed PROVE (Bootable' <=> Bootable) /\ (Supported' <=> Supported)
  <1>1. Bootable' <=> Bootable
    BY DEF Bootable
  <1>2. Endpoints' = Endpoints
    BY DEF Endpoints, Present
  <1>3. Supported' <=> Supported
    BY <1>2 DEF Supported
  <1>4. QED
    BY <1>1, <1>3

(* A step after the boot sector has been read.                             *)
LEMMA RunStep ==
  ASSUME RunInv, installed' = installed, bpb' = bpb, cx' \in Nat,
         pc \notin {"mbr", "halted"},
         pc' \in {"reset", "stage2", "mmap", "find"} => pc \in {"reset", "stage2", "mmap", "find"},
         installed.place = 1 /\ pc' \in {"tasks", "tasking", "kernel_task"} /\ installed.booted = 0
           => SameVolume',
         Bootable /\ Supported => GoesOn'
  PROVE  RunInv'
  <1>1. installed.place = 1 => InBootSector'
    BY DEF RunInv, InBootSector
  <1>2. (ListedOn(installed, bpb))' <=> ListedOn(installed, bpb)
    OBVIOUS
  <1>3. (Bootable /\ Supported)' => GoesOn'
    BY Rigid
  <1>4. (pc \in {"reset", "stage2", "mmap", "find"} /\ installed.place = 1 => ListedOn(installed, bpb))'
    BY <1>2 DEF RunInv
  <1>5. QED
    BY <1>1, <1>3, <1>4 DEF RunInv

(* One that asks the BIOS nothing more.                                    *)
LEMMA GoesOnKept ==
  ASSUME GoesOn, UNCHANGED <<installed, ebx, mmap_desc, gdt>>,
         pc' = "halted" => failed' \/ cx' > 2,
         pc' \in BeforeFind => pc \in BeforeFind,
         pc' \in BeforeMap => pc \in BeforeMap /\ (pc \in BeforeFind => pc' \in BeforeFind)
  PROVE  GoesOn'
  <1>1. CASE pc' \in BeforeMap
    <2>1. Answered' = Answered
      BY <1>1 DEF Answered
    <2>2. NoneLost' <=> NoneLost
      BY <2>1 DEF NoneLost
    <2>3. gdt' /\ NoneLost'
      BY <1>1, <2>2 DEF GoesOn
    <2>4. (pc \in BeforeFind => Len(mmap_desc) <= ebx)'
      BY DEF GoesOn
    <2>5. QED
      BY <2>3, <2>4 DEF GoesOn
  <1>2. CASE pc' \notin BeforeMap
    <2>1. pc' \notin BeforeFind
      BY <1>2 DEF BeforeMap, BeforeFind
    <2>2. QED
      BY <1>2, <2>1 DEF GoesOn
  <1>3. QED
    BY <1>1, <1>2

LEMMA MbrRuns == ASSUME ImageInv, RunInv, Mbr PROVE RunInv'
  <1>1. installed \in Installations
    BY DEF ImageInv
  <1>2. /\ UNCHANGED <<installed, cx, ebx, mmap_desc, gdt>> /\ pc = "mbr"
        /\ (pc' = "halted" /\ NoneToStart) \/ (pc' = "reset" /\ Starts(bpb'))
    BY <1>1, MbrReads
  <1>3. CASE pc' = "halted"
    <2>1. NoneToStart
      BY <1>2, <1>3
    <2>2. installed.place = 0
      BY <1>1, <2>1, ThePartitions, TheBootSector, Zenon DEF NoneToStart
    <2>3. ~Bootable
      BY <2>2 DEF Bootable
    <2>4. QED
      BY <1>2, <1>3, <2>3, Rigid DEF RunInv
  <1>4. CASE pc' # "halted"
    <2>1. pc' = "reset" /\ Starts(bpb')
      BY <1>2, <1>4
    <2>2. PICK p : FirstActive(p) /\ bpb' = BootSector(p).bpb
      BY <2>1 DEF Starts
    <2>3. installed.place = 1 =>
            /\ "bpb" \in DOMAIN BootSector(p) /\ bpb'.hidden = Start(p)
            /\ ListedOn(installed, bpb')
      BY <1>1, <2>2, TheBootSector
    <2>4. Start(p) \in Nat
      BY <1>1, <2>2, ThePartitions DEF FirstActive
    <2>5. installed.place = 1 => InBootSector'
      BY <1>2, <2>2, <2>3, <2>4 DEF InBootSector, BootSector
    <2>6. GoesOn => GoesOn'
      BY <1>2, <2>1, GoesOnKept DEF BeforeFind, BeforeMap
    <2>7. QED
      BY <1>2, <2>1, <2>3, <2>5, <2>6, Rigid DEF RunInv
  <1>5. QED
    BY <1>3, <1>4

(* The drive's reset gives up at the third failure.                        *)
LEMMA ResetRuns == ASSUME RunInv, DiskReset PROVE RunInv'
  <1>1. /\ pc = "reset" /\ UNCHANGED <<installed, bpb, ebx, mmap_desc, gdt, failed>>
        /\ \/ pc' = "stage2" /\ cx' = cx
           \/ cx' = cx + 1 /\ pc' = IF Retries THEN "reset" ELSE "halted"
    BY DEF DiskReset, mapVars
  <1>2. cx \in Nat
    BY DEF RunInv
  <1>3. cx' \in Nat /\ (pc' = "halted" => cx' > 2) /\ pc' \in {"reset", "stage2", "halted"}
    BY <1>1, <1>2 DEF Retries
  <1>4. GoesOn => GoesOn'
    BY <1>1, <1>3, GoesOnKept DEF BeforeFind, BeforeMap
  <1>5. QED
    BY <1>1, <1>3, <1>4, RunStep DEF RunInv

LEMMA ReadFailsRuns == ASSUME RunInv, ReadFails PROVE RunInv'
  <1>1. /\ pc' = "halted" /\ failed' = TRUE /\ pc # "halted"
        /\ UNCHANGED <<installed, cx>>
    BY DEF ReadFails, Halt
  <1>2. GoesOn'
    BY <1>1 DEF GoesOn, BeforeFind, BeforeMap
  <1>3. QED
    BY <1>1, <1>2 DEF RunInv

(* What neither asks the BIOS nor halts.                                   *)
LEMMA LoadRuns == ASSUME RunInv, LoadStage2 \/ Load \/ LoadNext \/ Relocate PROVE RunInv'
  <1>1. /\ UNCHANGED <<installed, cx, bpb, ebx, mmap_desc, gdt, failed>>
        /\ \/ pc = "stage2" /\ pc' = "mmap"
           \/ pc \in {"load", "next", "segment"} /\ pc' \in {"load", "next", "elf", "segment", "kernel"}
    BY DEF LoadStage2, Load, LoadNext, Relocate, mapVars, fileVars
  <1>2. GoesOn => GoesOn'
    BY <1>1, GoesOnKept DEF BeforeFind, BeforeMap
  <1>3. cx' \in Nat
    BY <1>1 DEF RunInv
  <1>4. QED
    BY <1>1, <1>2, <1>3, RunStep DEF RunInv

(* The list of the BIOS fits before the GDT.                               *)
LEMMA MapGoesOn ==
  ASSUME HeapInv, GoesOn, Supported, MemoryMap PROVE GoesOn'
  <1> DEFINE list == installed.e820
             answer == list[ebx + 1]
             n == Len(list)
             m == Len(mmap_desc)
  <1>1. /\ pc = "mmap" /\ installed' = installed
        /\ mmap_desc' = IF Counted(answer) THEN Append(mmap_desc, answer) ELSE mmap_desc
        /\ gdt' = (gdt /\ m < SMAP_ENTRY_max)
        /\ ebx' = (ebx + 1) % n
        /\ IF ebx' = 0 THEN pc' = "find" ELSE pc' = pc
    BY DEF MemoryMap
  <1>2. /\ installed \in Installations /\ ebx \in 0 .. (n - 1) /\ mmap_desc \in Seq(Range(list))
    BY DEF HeapInv
  <1>3. n \in Nat /\ n > 0 /\ list \in Seq(Range(list))
    BY <1>2, Answers
  <1>4. m \in Nat /\ m <= ebx /\ gdt /\ NoneLost
    BY <1>1, <1>2 DEF GoesOn, BeforeFind, BeforeMap
  <1>5. n <= SMAP_ENTRY_max /\ SMAP_ENTRY_max \in Nat
    BY BootAssumption DEF Supported
  <1> HIDE DEF n, m
  <1>6. m < SMAP_ENTRY_max
    BY ONLY <1>2, <1>3, <1>4, <1>5
  <1>7. gdt'
    BY <1>1, <1>4, <1>6
  <1>8. answer \in Range(list)
    <2>1. ebx + 1 \in 1 .. n
      BY ONLY <1>2, <1>3
    <2>2. QED
      BY <1>3, <2>1, ElementOfSeq DEF n
  <1>9. \/ ebx + 1 = n /\ ebx' = 0 /\ pc' = "find"
        \/ ebx + 1 # n /\ ebx' = ebx + 1 /\ pc' = "mmap"
    <2>1. ebx + 1 = n => (ebx + 1) % n = 0
      BY ONLY <1>2, <1>3
    <2>2. ebx + 1 # n => (ebx + 1) % n = ebx + 1 /\ ebx + 1 # 0
      BY ONLY <1>2, <1>3
    <2>3. QED
      BY <1>1, <2>1, <2>2
  <1>10. Answered' = ebx + 1 /\ Answered = ebx
    BY <1>1, <1>9 DEF Answered, BeforeFind, n, list
  <1> HIDE DEF answer
  <1>11. /\ Range(mmap_desc) \subseteq Range(mmap_desc') /\ Len(mmap_desc') <= m + 1
         /\ Counted(answer) => answer \in Range(mmap_desc')
    <2>1. CASE Counted(answer)
      <3>1. mmap_desc' = Append(mmap_desc, answer)
        BY <1>1, <2>1
      <3>2. /\ DOMAIN mmap_desc \subseteq DOMAIN mmap_desc'
            /\ \A i \in DOMAIN mmap_desc : (mmap_desc')[i] = mmap_desc[i]
            /\ m + 1 \in DOMAIN mmap_desc' /\ (mmap_desc')[m + 1] = answer /\ Len(mmap_desc') = m + 1
        BY <1>2, <1>8, <3>1, AppendProperties DEF m
      <3>3. QED
        BY <1>4, <3>2 DEF Range
    <2>2. CASE ~Counted(answer)
      <3>1. mmap_desc' = mmap_desc
        BY <1>1, <2>2
      <3>2. Len(mmap_desc') = m
        BY <3>1 DEF m
      <3>3. m <= m + 1
        BY ONLY <1>4
      <3>4. QED
        BY <2>2, <3>1, <3>2, <3>3
    <2>3. QED
      BY <2>1, <2>2
  <1>12. NoneLost'
    <2>1. SUFFICES ASSUME NEW k \in 1 .. (ebx + 1), Counted(list[k])
                   PROVE  list[k] \in Range(mmap_desc')
      BY <1>1, <1>10 DEF NoneLost, list
    <2>2. CASE k = ebx + 1
      BY <1>11, <2>1, <2>2 DEF answer
    <2>3. CASE k # ebx + 1
      <3>1. k \in 1 .. ebx
        BY ONLY <1>2, <1>3, <2>1, <2>3
      <3>2. list[k] \in Range(mmap_desc)
        BY <1>4, <1>10, <2>1, <3>1 DEF NoneLost, list
      <3>3. QED
        BY <1>11, <3>2
    <2>4. QED
      BY <2>2, <2>3
  <1>13. ebx' = ebx + 1 => Len(mmap_desc') <= ebx'
    <2>1. Len(mmap_desc') \in Nat
      <3>1. mmap_desc' \in Seq(Range(list))
        BY <1>1, <1>2, <1>8, AppendProperties
      <3>2. QED
        BY <3>1
    <2>2. ebx \in Nat
      BY ONLY <1>2, <1>3
    <2>3. QED
      BY ONLY <1>4, <1>11, <2>1, <2>2
  <1>14. QED
    BY <1>7, <1>9, <1>12, <1>13 DEF GoesOn, BeforeFind, BeforeMap

LEMMA MapRuns == ASSUME HeapInv, RunInv, MemoryMap PROVE RunInv'
  <1>1. pc = "mmap" /\ pc' \in {"mmap", "find"} /\ UNCHANGED <<installed, cx, bpb>>
    BY DEF MemoryMap
  <1>2. cx' \in Nat /\ (Bootable /\ Supported => GoesOn')
    BY <1>1, MapGoesOn DEF RunInv
  <1>3. QED
    BY <1>1, <1>2, RunStep

(* The first entry with the kernel's name has a number.                    *)
LEMMA FindRuns == ASSUME ImageInv, RunInv, FAT32_FIND_FILE PROVE RunInv'
  <1> DEFINE z == ClusterSize
             C == ClusterAt(cluster)
             D(k) == Cell(installed, bpb, bpb.root_cluster, k)
  <1>1. /\ installed \in Installations /\ KernelOn(installed, bpb) /\ cluster = bpb.root_cluster
        /\ pc = "find"
    BY DEF ImageInv, FAT32_FIND_FILE
  <1>2. /\ UNCHANGED <<installed, cx, bpb, ebx, mmap_desc, gdt>> /\ pc' \in {"load", "halted"}
        /\ pc' = "halted" => \A e \in Matches : e.low = 0
    BY DEF FAT32_FIND_FILE, Stop, Halt, mapVars
  <1>3. z \in Nat /\ z > 0 /\ cluster \in Nat
    BY <1>1, Volume
  <1>4. DOMAIN C = 1 .. z /\ \A k \in 0 .. (z - 1) : C[k + 1] = D(k)
    BY <1>1, <1>3, ClusterCells
  <1>5. ASSUME Bootable PROVE pc' = "load"
    <2>1. ListedOn(installed, bpb) /\ installed.chain[1] % WordSize # 0
      BY <1>1, <1>5 DEF RunInv, Bootable
    <2>2. PICK k \in 0 .. (z - 1) :
            /\ D(k).name = kernel_filename
            /\ \A l \in 0 .. (k - 1) : D(l).name # kernel_filename
            /\ D(k).low = installed.chain[1] % WordSize
      BY <2>1 DEF ListedOn, ClusterSize
    <2> HIDE DEF z, D
    <2>3. k + 1 \in 1 .. z /\ k \in Nat
      BY <1>3
    <2>4. ASSUME NEW i \in 1 .. (k + 1 - 1) PROVE C[i].name # kernel_filename
      <3>1. i - 1 \in 0 .. (k - 1) /\ i - 1 \in 0 .. (z - 1) /\ i - 1 + 1 = i
        BY <1>3, <2>3
      <3>2. QED
        BY <1>4, <2>2, <3>1
    <2>5. C[k + 1] = D(k)
      BY <1>4
    <2> HIDE DEF C
    <2>6. C[k + 1] \in Matches
      BY <1>4, <2>2, <2>3, <2>4, <2>5 DEF Matches, C
    <2>7. QED
      BY <1>2, <2>1, <2>2, <2>5, <2>6
  <1>6. Bootable /\ GoesOn => GoesOn'
    BY <1>1, <1>2, <1>5, GoesOnKept DEF BeforeFind, BeforeMap
  <1>7. cx' \in Nat /\ pc \notin {"mbr", "halted"}
    BY <1>1, <1>2 DEF RunInv
  <1>8. Bootable /\ Supported => GoesOn'
    BY <1>6 DEF RunInv
  <1>9. QED
    BY <1>2, <1>7, <1>8, RunStep

(* A kernel that fits the segment still has its header when it is parsed.  *)
LEMMA ParseRuns == ASSUME ImageInv, RunInv, ParseElf PROVE RunInv'
  <1> DEFINE n == Len(installed.chain)
             z == ClusterSize
             l == Len(installed.kernel)
             S == SegmentSize
  <1>1. /\ installed \in Installations /\ KernelOn(installed, bpb) /\ Loaded(n) /\ pc = "elf"
    BY DEF ImageInv, ParseElf
  <1>2. /\ UNCHANGED <<installed, cx, bpb, ebx, mmap_desc, gdt>> /\ pc' \in {"segment", "halted"}
        /\ pc' = "halted" => ~gdt \/ ~IsElf(temp[0])
    BY DEF ParseElf, Stop, Halt, mapVars
  <1>3. ASSUME Bootable PROVE IsElf(temp[0])
    <2>1. /\ n \in Nat /\ n > 0 /\ (n - 1) * z < l /\ l <= n * z /\ Multiple(S, z)
      BY <1>1, TheChain
    <2>2. z \in Nat /\ z > 0
      BY <1>1, Volume
    <2>3. l \in Nat /\ l > 0 /\ l <= S /\ S \in Nat
      BY <1>1, <1>3, TheKernel, SegmentIsNat DEF Bootable
    <2>4. PICK q \in 1 .. S : S = q * z
      BY <2>1 DEF Multiple
    <2>5. n <= q
      <3>1. n - 1 \in Nat /\ q \in Nat
        BY <2>1, <2>3
      <3>2. q <= n - 1 => q * z <= (n - 1) * z
        BY <2>2, <3>1, MonoLeq
      <3>3. (n - 1) * z \in Nat
        BY <2>2, <3>1
      <3> DEFINE w == (n - 1) * z
                 v == q * z
      <3> HIDE DEF n, w, v, l, S
      <3>4. v = S /\ w \in Nat /\ w < l /\ (q <= n - 1 => v <= w)
        BY <2>1, <2>4, <3>2, <3>3 DEF w, v
      <3>5. QED
        BY ONLY <2>1, <2>3, <3>1, <3>4
    <2>6. n * z <= S
      BY <2>1, <2>2, <2>4, <2>5, MonoLeq
    <2>7. temp[0] = installed.kernel[1]
      <3>1. 0 \in 0 .. (l - 1) /\ 0 + 1 = 1
        BY <2>3
      <3>2. 0 < n * z
        <4>1. 1 * z <= n * z
          BY <2>1, <2>2, MonoLeq
        <4>2. n * z \in Nat
          BY <2>1, <2>2
        <4>3. QED
          BY <2>2, <4>1, <4>2
      <3>3. \A a \in 0 .. (l - 1) : a < n * z => temp[a] = installed.kernel[a + 1]
        BY <1>1, <2>6 DEF Loaded
      <3>4. QED
        BY <3>1, <3>2, <3>3
    <2>8. 1 \in 1 .. l
      BY <2>3
    <2>9. QED
      BY <1>1, <2>7, <2>8, TheKernel
  <1>4. GoesOn => gdt
    BY <1>1 DEF GoesOn, BeforeMap
  <1>5. Bootable /\ GoesOn => GoesOn'
    BY <1>1, <1>2, <1>3, <1>4, GoesOnKept DEF BeforeFind, BeforeMap
  <1>6. cx' \in Nat /\ pc \notin {"mbr", "halted"}
    BY <1>1, <1>2 DEF RunInv
  <1>7. Bootable /\ Supported => GoesOn'
    BY <1>5 DEF RunInv
  <1>8. QED
    BY <1>2, <1>6, <1>7, RunStep

(* The largest memory is the one the kernel is at the bottom of.           *)
LEMMA MemoryMapInitRuns == ASSUME EntryInv, RunInv, memory_map_init PROVE RunInv'
  <1> DEFINE list == installed.e820
             K == {i \in DOMAIN mmap_desc : mmap_desc[i].type = 1}
             found == Selected(mmap_desc, K)
             R == Range(list)
  <1>1. /\ pc = "kernel" /\ UNCHANGED <<installed, cx, bpb, failed>>
        /\ pc' \in {"interrupts", "halted"}
        /\ available_memory_map' = found /\ main_memory_index' = Largest(found)
        /\ pc' = "halted" => (Largest(found) \in DOMAIN found =>
                                found[Largest(found)].base # KERNEL_PHYSICAL_BASE)
    BY DEF memory_map_init, Available, SystemHalt, loaderVars
  <1>2. installed \in Installations /\ mmap_desc \in Seq(R)
    BY DEF EntryInv, HeapInv
  <1>3. list \in Seq(R) /\ Len(list) \in Nat
    BY <1>2, Answers
  <1>4. \A r \in R : r.high \in Nat /\ r.low \in Nat /\ r.size \in 0 .. 24
    BY <1>2, Answers
  <1>5. ASSUME NEW r \in R PROVE Length(r) \in Nat /\ (Length(r) > 0 => r.low # 0 \/ r.high # 0)
    <2>1. r.high \in Nat /\ r.low \in Nat /\ LongSize \in Nat
      BY <1>4, Constants
    <2>2. r.high * LongSize \in Nat /\ (r.high = 0 => r.high * LongSize = 0)
      BY <2>1
    <2>3. QED
      BY <2>1, <2>2 DEF Length
  <1>6. ASSUME Supported, GoesOn
        PROVE  Largest(found) \in DOMAIN found /\ found[Largest(found)].base = KERNEL_PHYSICAL_BASE
    <2>1. PICK main \in R :
            /\ main.type = 1 /\ main.base = KERNEL_PHYSICAL_BASE /\ Length(main) > 0
            /\ \A answer \in R : answer.type = 1 => Length(answer) < Length(main) \/ answer = main
      BY <1>6 DEF Supported
    <2>2. ~ToIgnore(main)
      BY <1>6 DEF Supported
    <2>3. main.size < 24 \/ main.valid
      BY <1>4, <2>2 DEF ToIgnore
    <2>4. Counted(main)
      BY <1>5, <2>1, <2>3 DEF Counted
    <2>5. PICK k \in 1 .. Len(list) : list[k] = main
      BY <1>3 DEF Range
    <2>6. main \in Range(mmap_desc)
      <3>1. Answered = Len(list) /\ NoneLost
        BY <1>1, <1>6 DEF GoesOn, Answered, BeforeFind, BeforeMap
      <3>2. QED
        BY <2>4, <2>5, <3>1 DEF NoneLost
    <2>7. PICK m \in DOMAIN mmap_desc : mmap_desc[m] = main
      BY <2>6 DEF Range
    <2>8. m \in K /\ m \in 1 .. Len(mmap_desc)
      BY <1>2, <2>1, <2>7
    <2> HIDE DEF R
    <2>9. /\ \A i \in DOMAIN found : \E j \in K \cap (1 .. Len(mmap_desc)) : found[i] = mmap_desc[j]
          /\ \E i \in DOMAIN found : found[i] = mmap_desc[m]
          /\ found \in Seq(R)
      <3> HIDE DEF K
      <3>1. ASSUME NEW i \in DOMAIN found
            PROVE  \E j \in K \cap (1 .. Len(mmap_desc)) : found[i] = mmap_desc[j]
        BY <1>2, SelectedFrom
      <3>2. \E i \in DOMAIN found : found[i] = mmap_desc[m]
        BY <1>2, <2>8, SelectedAll
      <3>3. found \in Seq(R)
        BY <1>2, UpToInSeq
      <3>4. QED
        BY <3>1, <3>2, <3>3
    <2>10. PICK i \in DOMAIN found : found[i] = main
      BY <2>7, <2>9
    <2> HIDE DEF found
    <2>11. Largest(found) \in DOMAIN found /\ Length(main) <= Length(found[Largest(found)])
      BY <1>5, <2>1, <2>9, <2>10, LargestIsMax
    <2> DEFINE best == found[Largest(found)]
    <2>12. best \in R /\ best.type = 1
      <3>1. PICK j \in K \cap (1 .. Len(mmap_desc)) : best = mmap_desc[j]
        BY <2>9, <2>11
      <3>2. QED
        BY <1>2, <3>1
    <2>13. Length(best) < Length(main) \/ best = main
      BY <2>1, <2>12
    <2>14. Length(best) \in Nat /\ Length(main) \in Nat /\ Length(main) <= Length(best)
      BY <1>5, <2>11, <2>12
    <2> HIDE DEF best
    <2>15. ~(Length(best) < Length(main))
      BY ONLY <2>14
    <2>16. QED
      BY <2>1, <2>11, <2>13, <2>15 DEF best
  <1> HIDE DEF found
  <1>7. Supported /\ GoesOn => GoesOn'
    <2>1. Supported /\ GoesOn => pc' = "interrupts"
      BY <1>1, <1>6
    <2>2. pc' = "interrupts" => GoesOn'
      BY DEF GoesOn, BeforeFind, BeforeMap
    <2>3. QED
      BY <2>1, <2>2
  <1>8. cx' \in Nat /\ pc \notin {"mbr", "halted"}
    BY <1>1 DEF RunInv
  <1>9. Bootable /\ Supported => GoesOn'
    BY <1>7 DEF RunInv
  <1>10. QED
    BY <1>1, <1>8, <1>9, RunStep

(* An IDE controller that can be found is in the table.                    *)
LEMMA IdeRuns == ASSUME EntryInv, RunInv, ide_init PROVE RunInv'
  <1> DEFINE t == pci_probe_devices
             E == Endpoints
  <1>1. /\ pc = "ide" /\ UNCHANGED <<installed, cx, bpb>>
        /\ pci_device_hdr' = t
        /\ \/ pc' = "fat32"
           \/ pc' = "halted" /\ \A i \in DOMAIN t : t[i].class # "ide"
           \/ pc' = "halted" /\ failed' = TRUE
    BY DEF ide_init, SystemHalt, loaderVars
  <1>2. installed \in Installations
    BY DEF EntryInv, HeapInv
  <1>3. ASSUME Supported PROVE \E i \in DOMAIN t : t[i].class = "ide"
    <2>1. PICK at \in E : installed.bus[at].class = "ide"
      BY <1>3 DEF Supported
    <2>2. Cardinality(E) <= MaxDevices /\ MaxDevices \in Nat
      BY <1>3, Counts DEF Supported
    <2>3. IsFiniteSet(E) /\ ~Before(at, at)
      BY <1>2, <2>1, EndpointsAreFinite, Addresses, BeforeIsOrder
    <2>4. Cardinality(E) \in Nat
      BY <2>3, FS_CardinalityType
    <2>5. Lists(t, E)
      BY <1>2, ProbeListsAll
    <2> DEFINE p == Place(at, E)
    <2>6. p \in Nat /\ p >= 1 /\ p <= Cardinality(E)
      <3> HIDE DEF E
      <3>1. QED
        BY <2>1, <2>3, PlaceIsNat, PlaceOfMember
    <2>7. Len(t) = Cardinality(E) /\ (p <= MaxDevices => t[p] = installed.bus[at])
      BY <2>1, <2>2, <2>4, <2>5 DEF Lists
    <2>8. t \in Tables
      <3>1. PICK f : AllRounds(f)
        BY ProbeRuns
      <3>2. QED
        BY <3>1, Counts DEF AllRounds
    <2> HIDE DEF p, E, t
    <2>9. p <= MaxDevices /\ p \in 1 .. Len(t) /\ DOMAIN t = 1 .. Len(t)
      BY <2>2, <2>4, <2>6, <2>7, <2>8 DEF Tables
    <2>10. QED
      BY <2>1, <2>7, <2>8, <2>9
  <1>4. Supported => GoesOn'
    <2>1. Supported => pc' = "fat32" \/ (pc' = "halted" /\ failed' = TRUE)
      BY <1>1, <1>3
    <2>2. pc' = "fat32" \/ (pc' = "halted" /\ failed' = TRUE) => GoesOn'
      BY DEF GoesOn, BeforeFind, BeforeMap
    <2>3. QED
      BY <2>1, <2>2
  <1>5. cx' \in Nat /\ pc \notin {"mbr", "halted"}
    BY <1>1 DEF RunInv
  <1>6. QED
    BY <1>1, <1>4, <1>5, RunStep

(* fat32.c reads the same parameter block again.                           *)
LEMMA Fat32InitRuns == ASSUME ImageInv, EntryInv, RunInv, fat32_init PROVE RunInv'
  <1>1. /\ pc = "fat32" /\ UNCHANGED <<installed, cx, bpb>>
        /\ \/ /\ pc' = "tasks"
              /\ volume' = [fat_start_lba  |-> KernelBpb.hidden + KernelBpb.reserved,
                            data_start_lba |-> KernelBpb.hidden + KernelBpb.reserved
                                                 + KernelBpb.num_fats * KernelBpb.fatsz]
           \/ pc' = "halted" /\ 0 \notin installed.drives
           \/ pc' = "halted" /\ failed' = TRUE
    BY DEF fat32_init, SystemHalt, loaderVars
  <1>2. installed \in Installations
    BY DEF EntryInv, HeapInv
  <1>3. Supported => 0 \in installed.drives
    BY <1>2, KernelAssumption DEF Supported
  <1>4. Supported => GoesOn'
    <2>1. Supported => pc' = "tasks" \/ (pc' = "halted" /\ failed' = TRUE)
      BY <1>1, <1>3
    <2>2. pc' = "tasks" \/ (pc' = "halted" /\ failed' = TRUE) => GoesOn'
      BY DEF GoesOn, BeforeFind, BeforeMap
    <2>3. QED
      BY <2>1, <2>2
  <1>5. ASSUME installed.place = 1, pc' = "tasks", installed.booted = 0 PROVE SameVolume'
    <2>1. SUFFICES ASSUME bpb.hidden = PartitionLba
                   PROVE  volume' = [fat_start_lba |-> fat_start_lba, data_start_lba |-> data_start_lba]
      BY <1>1 DEF SameVolume, fat_start_lba, data_start_lba
    <2>2. InBootSector
      BY <1>1, <1>5 DEF RunInv
    <2> DEFINE cell == Sectors(PartitionLba, 1)[1]
    <2>3. PartitionLba \in Nat /\ cell = installed.disk[PartitionLba * SectorSize + 1]
      BY <2>1, <2>2, FirstCell DEF InBootSector
    <2>4. "bpb" \in DOMAIN cell /\ cell.bpb = bpb
      BY <2>1, <2>2, <2>3 DEF InBootSector
    <2>5. KernelBpb = bpb
      BY <1>5, <2>4 DEF KernelBpb
    <2>6. QED
      BY <1>1, <1>5, <2>5 DEF fat_start_lba, data_start_lba
  <1>6. cx' \in Nat /\ pc \notin {"mbr", "halted"}
    BY <1>1 DEF RunInv
  <1>7. QED
    BY <1>1, <1>4, <1>5, <1>6, RunStep

(* What comes after the memory map and does not halt.                      *)
LEMMA KernelKeepsOn ==
  ASSUME RunInv, UNCHANGED <<installed, cx, bpb, volume>>,
         pc \notin BeforeMap \cup {"halted"}, pc' \notin BeforeMap \cup {"halted"},
         pc' \in {"tasks", "tasking", "kernel_task"} => pc \in {"tasks", "tasking", "kernel_task"}
  PROVE  RunInv'
  <1>1. pc # "mbr" /\ pc' \notin {"reset", "stage2", "mmap", "find"} /\ pc' \notin BeforeFind
    BY DEF BeforeMap, BeforeFind
  <1>2. GoesOn'
    BY <1>1 DEF GoesOn
  <1>3. SameVolume' <=> SameVolume
    BY DEF SameVolume, fat_start_lba, data_start_lba
  <1>4. cx' \in Nat
    BY DEF RunInv
  <1>5. installed.place = 1 /\ pc' \in {"tasks", "tasking", "kernel_task"} /\ installed.booted = 0
          => SameVolume'
    BY <1>3 DEF RunInv
  <1>6. QED
    BY <1>1, <1>2, <1>4, <1>5, RunStep

(* Where nothing of this matters, or nothing happens.                      *)
LEMMA RunUnchanged ==
  ASSUME RunInv, UNCHANGED <<vars, volume>> PROVE RunInv'
  <1>1. UNCHANGED <<installed, pc, cx, bpb, ebx, mmap_desc, gdt, failed, volume>>
    BY DEF vars, mapVars
  <1>2. SameVolume' <=> SameVolume
    BY <1>1 DEF SameVolume, fat_start_lba, data_start_lba
  <1>3. InBootSector' <=> InBootSector
    BY <1>1 DEF InBootSector
  <1>4. (ListedOn(installed, bpb))' <=> ListedOn(installed, bpb)
    BY <1>1
  <1>5. GoesOn => GoesOn'
    BY <1>1, GoesOnKept DEF GoesOn
  <1>6. QED
    BY <1>1, <1>2, <1>3, <1>4, <1>5, Rigid DEF RunInv

LEMMA RunNext == ASSUME EntryInv, ImageInv, RunInv, [KernelNext]_allVars PROVE RunInv'
  <1>1. CASE Loader
    <2>1. HeapInv
      BY DEF EntryInv
    <2>2. QED
      BY <1>1, <2>1, MbrRuns, ResetRuns, LoadRuns, MapRuns, FindRuns, ParseRuns, ReadFailsRuns
      DEF Loader, Next
  <1>2. CASE memory_map_init
    BY <1>2, MemoryMapInitRuns
  <1>3. CASE InitInterrupts \/ paging_init \/ keyboard_init \/ heap_init \/ FillTaskTable \/ EnableTasking
    <2>1. UNCHANGED <<installed, cx, bpb, volume>>
      BY <1>3 DEF InitInterrupts, paging_init, keyboard_init, heap_init, FillTaskTable, EnableTasking,
         loaderVars, deviceVars
    <2>2. \/ /\ pc \in {"interrupts", "paging", "keyboard", "heap"}
             /\ pc' \in {"paging", "keyboard", "heap", "ide"}
          \/ pc \in {"tasks", "tasking"} /\ pc' \in {"tasking", "kernel_task"}
      BY <1>3 DEF InitInterrupts, paging_init, keyboard_init, heap_init, FillTaskTable, EnableTasking
    <2>3. QED
      BY <2>1, <2>2, KernelKeepsOn DEF BeforeMap
  <1>4. CASE ide_init
    BY <1>4, IdeRuns
  <1>5. CASE fat32_init
    BY <1>5, Fat32InitRuns
  <1>6. CASE Raise
    BY <1>6, RunUnchanged DEF Raise, deviceVars
  <1>7. CASE \E line \in 0 .. 15 : Interrupt(line)
    <2>1. PICK line \in 0 .. 15 : Interrupt(line)
      BY <1>7
    <2>2. pc' = pc /\ pc \in AfterSti
      BY <2>1, InterruptReturns
    <2>3. UNCHANGED <<installed, cx, bpb, volume>>
      BY <2>1 DEF Interrupt, loaderVars, deviceVars
    <2>4. pc \notin BeforeMap \cup {"halted"}
      BY <2>2 DEF AfterSti, AfterPages, AfterPics, BeforeMap
    <2>5. QED
      BY <2>2, <2>3, <2>4, KernelKeepsOn
  <1>8. CASE UNCHANGED allVars
    BY <1>8, RunUnchanged DEF allVars, kernelVars, deviceVars
  <1>9. QED
    BY <1>1, <1>2, <1>3, <1>4, <1>5, <1>6, <1>7, <1>8 DEF KernelNext, Step

(* A machine that has what the kernel asks for (Supported) and a drive     *)
(* made for booting, whatever its disk, its memory and its devices, halts  *)
(* for no other reason than a read that fails or a third reset that does,  *)
(* and in kernel_task fat32.c is on the volume that stage2 has read.       *)
THEOREM EntryRunsOn == KernelSpec => []RunsOn
  <1>1. KernelInit => RunInv
    <2> SUFFICES ASSUME KernelInit PROVE RunInv
      OBVIOUS
    <2>1. pc = "mbr" /\ cx = 0 /\ ebx = 0 /\ mmap_desc = <<>> /\ gdt = TRUE
      BY DEF KernelInit, Init
    <2>2. Len(mmap_desc) = 0 /\ Answered = 0
      BY <2>1, EmptySeq DEF Answered, BeforeFind
    <2>3. GoesOn
      BY <2>1, <2>2 DEF GoesOn, NoneLost
    <2>4. QED
      BY <2>1, <2>3 DEF RunInv
  <1>2. EntryInv /\ ImageInv /\ RunInv /\ [KernelNext]_allVars => RunInv'
    BY RunNext
  <1>3. RunInv => RunsOn
    BY DEF RunInv, GoesOn, RunsOn, Supported, Bootable
  <1>4. QED
    BY <1>1, <1>2, <1>3, EntryInvariant, EntryImageInvariant, PTL DEF KernelSpec

=============================================================================
