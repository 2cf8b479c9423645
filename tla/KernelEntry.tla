----------------------------- MODULE KernelEntry -----------------------------
(***************************************************************************)
(* kernel.asm: from the jump of stage2 to kernel_task. Each action is what *)
(* one of the functions it calls does, and between two of them, once       *)
(* interrupts are on, the handlers of irq.asm run. The probe of the drives *)
(* in ide_init is in Ide, and what the handlers do to a running system in  *)
(* Tasking and Keyboard.                                                   *)
(***************************************************************************)
EXTENDS Boot, Interrupts, Selection, SequencesExt

CONSTANTS
  LongSize,              \* 2^32, as the memory map has it
  KERNEL_PHYSICAL_BASE,  \* as all addresses here, on the scale of the memory map
  Megabyte,
  PAGE_SIZE, TableSize,  \* entries of a page table: 1024
  PTI_COUNT,
  Buses, Slots, Functions,  \* how many there can be: 256, 32, 8
  MaxDevices,            \* of the table: 256
  PartitionLba           \* 63

ASSUME KernelAssumption ==
  /\ KERNEL_PHYSICAL_BASE \in Nat /\ Megabyte \in Nat /\ LongSize \in Nat
  /\ PAGE_SIZE \in Nat \ {0} /\ TableSize \in Nat \ {0} /\ PTI_COUNT \in Nat
  /\ KERNEL_PHYSICAL_BASE + 2 * Megabyte <= PTI_COUNT * TableSize * PAGE_SIZE
  /\ Buses \in Nat /\ Slots \in Nat /\ Functions \in Nat \ {0} /\ MaxDevices \in Nat
  /\ \A i \in Installations :
       /\ DOMAIN i.bus \subseteq (0 .. (Buses - 1)) \X (0 .. (Slots - 1)) \X (0 .. (Functions - 1))
       /\ i.e820 # <<>>
       /\ i.e820 \in Seq([base : Nat, base_high : Nat, high : Nat, low : Nat, type : Nat,
                         size : 0 .. 24, valid : BOOLEAN])
       /\ i.booted \in i.drives
       /\ i.lines \subseteq (0 .. 15) \ {2}

(* Installations has more fields here: bus, from <<bus, slot, func>> to    *)
(* the device there; drives, the numbers of the drives of the controller;  *)
(* booted, the one that the BIOS started from; lines, which of the         *)
(* interrupt lines its devices raise; line 2 is the second controller.     *)

VARIABLES
  available_memory_map, main_memory_index,
  page_table_ident,
  system_heap,
  pci_device_hdr,
  volume,          \* fat_start_lba and data_start_lba of fat32.c
  task_table,      \* is task 0 in it?
  tasking_enabled

memoryVars == <<available_memory_map, main_memory_index, page_table_ident, system_heap>>
deviceVars == <<pci_device_hdr, volume>>
taskVars   == <<task_table, tasking_enabled>>
irqVars    == <<pic, idt, int_flag>>
loaderVars == <<installed, cx, bpb, mapVars, cluster, bx, fileVars>>
kernelVars == <<irqVars, memoryVars, deviceVars, taskVars>>
allVars    == <<vars, kernelVars>>

None == [none |-> TRUE]

KernelInit ==
  /\ Init
  /\ pic = BiosPic /\ idt = <<>> /\ int_flag = FALSE
  /\ available_memory_map = <<>> /\ main_memory_index = 1
  /\ page_table_ident = <<>> /\ system_heap = None
  /\ pci_device_hdr = <<>> /\ volume = None
  /\ task_table = FALSE /\ tasking_enabled = FALSE

SystemHalt == pc' = "halted" /\ int_flag' = FALSE

-----------------------------------------------------------------------------
(* mmap.c                                                                  *)

Length(region) == region.high * LongSize + region.low

(* Definitions named ...Slip are the one that follows with a mistake in it;*)
(* the properties are checked to notice it.                                *)

(* Type 1 is memory. The limit of SMAP_entry_max is never reached: stage2  *)
(* does not get here with more entries.                                    *)
AvailableSlip(entries) == entries
Available(entries) == Selected(entries, {i \in DOMAIN entries : entries[i].type = 1})

(* The first of the largest regions; the first entry, blank, if none is.   *)
(* The slip keeps 0 as the length to exceed.                               *)
LargestSlip(regions) == Len(regions)
Largest(regions) ==
  LET best[n \in 0 .. Len(regions)] ==
        IF n = 0 THEN [index |-> 1, length |-> 0]
        ELSE IF Length(regions[n]) > best[n - 1].length
             THEN [index |-> n, length |-> Length(regions[n])] ELSE best[n - 1]
  IN  best[Len(regions)].index

(* KERNEL_INIT up to memory_map_init. The kernel takes only a memory that  *)
(* it is at the bottom of.                                                 *)
memory_map_init ==
  /\ pc = "kernel"
  /\ tasking_enabled' = FALSE
  /\ available_memory_map' = Available(mmap_desc)
  /\ main_memory_index' = Largest(available_memory_map')
  /\ \/ /\ main_memory_index' \in DOMAIN available_memory_map'
        /\ available_memory_map'[main_memory_index'].base = KERNEL_PHYSICAL_BASE
        /\ pc' = "interrupts" /\ int_flag' = FALSE
     \/ /\ main_memory_index' \in DOMAIN available_memory_map' =>
             available_memory_map'[main_memory_index'].base # KERNEL_PHYSICAL_BASE
        /\ SystemHalt
  /\ UNCHANGED <<loaderVars, failed, pic, idt, page_table_ident, system_heap, deviceVars, task_table>>

-----------------------------------------------------------------------------
(* Interrupts, paging, keyboard, heap                                      *)

(* REMAP_PICS and IDT_INIT.                                                *)
InitInterrupts ==
  /\ pc = "interrupts" /\ pc' = "paging"
  /\ pic' = REMAP_PICS /\ idt' = IDT_INIT
  /\ UNCHANGED <<loaderVars, failed, int_flag, memoryVars, deviceVars, taskVars>>

(* The physical address that each entry of each table has.                 *)
Identity ==
  [n \in 0 .. (PTI_COUNT - 1) |->
    [i \in 0 .. (TableSize - 1) |-> n * TableSize * PAGE_SIZE + i * PAGE_SIZE]]

(* timer_init, which comes next, only sets the rate.                       *)
paging_init ==
  /\ pc = "paging" /\ pc' = "keyboard"
  /\ page_table_ident' = Identity
  /\ UNCHANGED <<loaderVars, failed, irqVars, available_memory_map, main_memory_index,
                 system_heap, deviceVars, taskVars>>

(* keyboard_reset_buffer turns interrupts on before kernel.asm does.       *)
keyboard_init ==
  /\ pc = "keyboard" /\ pc' = "heap"
  /\ int_flag' = TRUE
  /\ UNCHANGED <<loaderVars, failed, pic, idt, memoryVars, deviceVars, taskVars>>

heap_init ==
  /\ pc = "heap" /\ pc' = "ide"
  /\ int_flag' = TRUE
  /\ system_heap' = [base |-> KERNEL_PHYSICAL_BASE + Megabyte, size |-> Megabyte]
  /\ UNCHANGED <<loaderVars, failed, pic, idt, available_memory_map, main_memory_index,
                 page_table_ident, deviceVars, taskVars>>

-----------------------------------------------------------------------------
(* pci.c, ide.c and fat32.c                                                *)

Present(at) == at \in DOMAIN installed.bus

FuncLimitSlip(table, bus, slot) ==
  IF \E s \in 0 .. slot : Present(<<bus, s, 0>>) /\ installed.bus[<<bus, s, 0>>].multi
  THEN Functions ELSE 1
FuncLimit(table, bus, slot) ==
  IF Present(<<bus, slot, 0>>) /\ Len(table) < MaxDevices /\ installed.bus[<<bus, slot, 0>>].multi
  THEN Functions ELSE 1

(* Only endpoints are kept, as long as there is room.                      *)
Probe(table, at) ==
  IF Present(at) /\ Len(table) < MaxDevices /\ installed.bus[at].hdr_type = 0
  THEN Append(table, installed.bus[at]) ELSE table

(* The three loops: element n is the table after n rounds.                 *)
ProbeSlot(table, bus, slot) ==
  LET limit == FuncLimit(table, bus, slot)
      probed[n \in 0 .. limit] ==
        IF n = 0 THEN table ELSE Probe(probed[n - 1], <<bus, slot, n - 1>>)
  IN  probed[limit]

ProbeBus(table, bus) ==
  LET probed[n \in 0 .. Slots] == IF n = 0 THEN table ELSE ProbeSlot(probed[n - 1], bus, n - 1)
  IN  probed[Slots]

pci_probe_devices ==
  LET probed[n \in 0 .. Buses] == IF n = 0 THEN <<>> ELSE ProbeBus(probed[n - 1], n - 1)
  IN  probed[Buses]

(* A controller at the old ports must be there. A drive that stays busy    *)
(* ends in a halt too.                                                     *)
ide_init ==
  /\ pc = "ide"
  /\ pci_device_hdr' = pci_probe_devices
  /\ \/ /\ \E i \in DOMAIN pci_device_hdr' : pci_device_hdr'[i].class = "ide"
        /\ pc' = "fat32" /\ UNCHANGED <<failed, int_flag>>
     \/ /\ \A i \in DOMAIN pci_device_hdr' : pci_device_hdr'[i].class # "ide"
        /\ SystemHalt /\ UNCHANGED failed
     \/ SystemHalt /\ failed' = TRUE
  /\ UNCHANGED <<loaderVars, pic, idt, memoryVars, volume, taskVars>>

(* The sector at PartitionLba of drive 0, whichever the BIOS started from. *)
KernelBpb ==
  LET cell == Sectors(PartitionLba, 1)[1]
  IN  IF installed.booted = 0 /\ "bpb" \in DOMAIN cell THEN cell.bpb ELSE NoBpb

fat32_init ==
  /\ pc = "fat32"
  /\ \/ /\ 0 \in installed.drives
        /\ volume' = [fat_start_lba  |-> KernelBpb.hidden + KernelBpb.reserved,
                      data_start_lba |-> KernelBpb.hidden + KernelBpb.reserved
                                           + KernelBpb.num_fats * KernelBpb.fatsz]
        /\ pc' = "tasks" /\ UNCHANGED <<failed, int_flag>>
     \/ 0 \notin installed.drives /\ SystemHalt /\ UNCHANGED <<failed, volume>>
     \/ SystemHalt /\ failed' = TRUE /\ UNCHANGED volume
  /\ UNCHANGED <<loaderVars, pic, idt, memoryVars, pci_device_hdr, taskVars>>

-----------------------------------------------------------------------------
(* tasking_init, with the timer running. The flag is the last it sets.     *)

TaskTableSlip == task_table' = task_table /\ tasking_enabled' = TRUE
TaskTable == task_table' = TRUE /\ tasking_enabled' = tasking_enabled

FillTaskTable ==
  /\ pc = "tasks" /\ pc' = "tasking"
  /\ TaskTable
  /\ UNCHANGED <<loaderVars, failed, irqVars, memoryVars, deviceVars>>

EnableTasking ==
  /\ pc = "tasking" /\ pc' = "kernel_task"
  /\ task_table' = TRUE /\ tasking_enabled' = TRUE
  /\ UNCHANGED <<loaderVars, failed, irqVars, memoryVars, deviceVars>>

-----------------------------------------------------------------------------
(* The devices and the handlers                                            *)

Running == pc \in {"kernel", "interrupts", "paging", "keyboard", "heap", "ide", "fat32",
                   "tasks", "tasking", "kernel_task"}

Raise ==
  /\ Running
  /\ \E line \in installed.lines \ pic.irr : pic' = Raised(line)
  /\ UNCHANGED <<vars, idt, int_flag, memoryVars, deviceVars, taskVars>>

(* A vector without a gate is a fault, and fault_handler halts. The timer  *)
(* makes schedule look for a task, for ever if there is none.              *)
Interrupt(line) ==
  /\ Running /\ Deliverable(line)
  /\ LET handler == IF Vector(line) \in DOMAIN idt THEN idt[Vector(line)] ELSE fault_handler
         end == CASE handler = fault_handler -> "fault"
                  [] handler = 0 /\ tasking_enabled /\ ~task_table -> "hung"
                  [] OTHER -> "returns"
     IN  /\ pc' = IF end = "returns" THEN pc ELSE end
         /\ int_flag' = (end = "returns")
         /\ pic' = IF end = "returns" THEN Served(line) ELSE pic
  /\ UNCHANGED <<loaderVars, failed, idt, memoryVars, deviceVars, taskVars>>

-----------------------------------------------------------------------------
Loader == Next /\ UNCHANGED kernelVars

Step ==
  \/ Loader
  \/ memory_map_init \/ InitInterrupts \/ paging_init \/ keyboard_init \/ heap_init
  \/ ide_init \/ fat32_init \/ FillTaskTable \/ EnableTasking

KernelNext == Step \/ Raise \/ \E line \in 0 .. 15 : Interrupt(line)

KernelSpec == KernelInit /\ [][KernelNext]_allVars

(* The lines that the masks let through: timer, keyboard and drive.        *)
Open == {0, 1, 14}

(* The CPU runs on, and a handler is done before its line is raised again. *)
FairKernelSpec ==
  /\ KernelSpec
  /\ WF_allVars(Step)
  /\ \A line \in Open : SF_allVars(Interrupt(line))

-----------------------------------------------------------------------------
(* Properties                                                              *)

(* What two-level paging makes of an address.                              *)
Physical(address) ==
  LET page == address \div PAGE_SIZE
  IN  page_table_ident[page \div TableSize][page % TableSize] + (address % PAGE_SIZE)

(* Memory that the BIOS says may be used.                                  *)
Usable(answer) == answer.type = 1 /\ ~ToIgnore(answer)
Inside(address, answer) ==
  address >= answer.base /\ address < answer.base + Length(answer) /\ answer.base_high = 0

(* The heap is where it has been given memory and where the pages lead,    *)
(* from stage2's questions to the BIOS to heap_init: "this should always   *)
(* point to main memory" (heap.c:16). Three exceptions: an entry that      *)
(* stage2 counts though it is to be ignored; less than 2 MB at the kernel, *)
(* which heap_init does not look for; and memory beyond 4 GB that has the  *)
(* kernel's address as the low half of its own, as the high half is not    *)
(* looked at (mmap.c:80).                                                  *)
HeapUsable ==
  /\ system_heap # None
  /\ IgnoredIsSkipped
  /\ \A answer \in Range(installed.e820) :
       answer.type = 1 /\ answer.base = KERNEL_PHYSICAL_BASE =>
         Length(answer) >= 2 * Megabyte /\ answer.base_high = 0
  => \A address \in system_heap.base .. (system_heap.base + system_heap.size - 1) :
       /\ Physical(address) = address
       /\ \E answer \in Range(installed.e820) : Usable(answer) /\ Inside(address, answer)

(* Interrupts are on from the keyboard's initialisation on: no line that   *)
(* is open lacks a handler, and the timer never finds the scheduler        *)
(* enabled before it has a task.                                           *)
HandlersReady == pc \notin {"fault", "hung"}

(* The inductive invariant for the two: what the memory map says on the    *)
(* way to the heap, and how far the interrupts are set up.                 *)
BeforeMap  == {"mbr", "reset", "stage2", "mmap", "find", "load", "next", "elf", "segment", "kernel"}
AfterPics  == {"paging", "keyboard", "heap", "ide", "fat32", "tasks", "tasking", "kernel_task"}
AfterPages == AfterPics \ {"paging"}
AfterSti   == AfterPages \ {"keyboard"}

MainFound ==
  \E i \in DOMAIN mmap_desc : mmap_desc[i].type = 1 /\ mmap_desc[i].base = KERNEL_PHYSICAL_BASE

HeapInv ==
  /\ installed \in Installations
  /\ ebx \in 0 .. (Len(installed.e820) - 1)
  /\ mmap_desc \in Seq(Range(installed.e820))
  /\ pc \in AfterPics \cup {"interrupts"} => MainFound
  /\ pc \in AfterPages => page_table_ident = Identity
  /\ system_heap # None =>
       /\ MainFound /\ page_table_ident = Identity
       /\ system_heap = [base |-> KERNEL_PHYSICAL_BASE + Megabyte, size |-> Megabyte]

IrqInv ==
  /\ int_flag \in BOOLEAN /\ tasking_enabled \in BOOLEAN /\ task_table \in BOOLEAN
  /\ pc \in BeforeMap \cup AfterPics \cup {"interrupts", "halted"}
  /\ int_flag => pc \in AfterSti
  /\ tasking_enabled => task_table
  /\ pic.irr \subseteq installed.lines
  /\ pc \in AfterPics =>
       pic.icw2 = <<32, 40>> /\ pic.imr = REMAP_PICS.imr /\ idt = IDT_INIT

EntryInv == HeapInv /\ IrqInv

(* And for the next: nothing writes to the table after the probe.          *)
Probed == {"fat32", "tasks", "tasking", "kernel_task"}
TableInv == pc \in Probed => pci_device_hdr = pci_probe_devices

(* A line that is open is served again and again: each handler ends its    *)
(* interrupt with both controllers.                                        *)
IrqsServed ==
  \A line \in Open :
    pc = "kernel_task" /\ line \in pic.irr ~> line \notin pic.irr

(* The functions of the bus that can be found: those of a slot beyond the  *)
(* first only if the first says there are more.                            *)
Endpoints ==
  {at \in DOMAIN installed.bus :
     /\ installed.bus[at].hdr_type = 0
     /\ at[3] = 0 \/ (Present(<<at[1], at[2], 0>>) /\ installed.bus[<<at[1], at[2], 0>>].multi)}
Before(p, q) ==
  \/ p[1] < q[1]
  \/ p[1] = q[1] /\ p[2] < q[2]
  \/ p[1] = q[1] /\ p[2] = q[2] /\ p[3] < q[3]

(* The table has each endpoint in the place its address gives it, the      *)
(* first MaxDevices of them if there are more.                             *)
TableIsTheBus ==
  pc \in Probed =>
    /\ Len(pci_device_hdr) = IF Cardinality(Endpoints) < MaxDevices
                             THEN Cardinality(Endpoints) ELSE MaxDevices
    /\ \A at \in Endpoints :
         LET place == Cardinality({other \in Endpoints : Before(other, at)}) + 1
         IN  place <= MaxDevices => pci_device_hdr[place] = installed.bus[at]

(* The machine has what the kernel asks for: a list of the BIOS that fits, *)
(* with nothing to ignore in it and its largest memory at the kernel, an   *)
(* IDE controller, and the drive as the first one of it.                   *)
Supported ==
  /\ Len(installed.e820) <= SMAP_ENTRY_max
  /\ \A answer \in Range(installed.e820) : ~ToIgnore(answer)
  /\ \E main \in Range(installed.e820) :
       /\ main.type = 1 /\ main.base = KERNEL_PHYSICAL_BASE /\ Length(main) > 0
       /\ \A answer \in Range(installed.e820) :
            answer.type = 1 => Length(answer) < Length(main) \/ answer = main
  /\ Cardinality(Endpoints) <= MaxDevices
  /\ \E at \in Endpoints : installed.bus[at].class = "ide"
  /\ installed.booted = 0

(* fat32.c finds the volume that stage2 loaded the kernel from, if it is   *)
(* where the comment at fat32.c:20 has it.                                 *)
SameVolume ==
  bpb.hidden = PartitionLba =>
    volume = [fat_start_lba |-> fat_start_lba, data_start_lba |-> data_start_lba]

(* On such a machine a drive that can be booted from ends in kernel_task,  *)
(* on its own volume, unless a read or the memory map fails, or three      *)
(* resets do: two may fail ("Let's give it 3 retries", vbr.asm:69).        *)
KernelRuns ==
  Bootable /\ Supported ~> (pc = "kernel_task" /\ SameVolume) \/ failed \/ cx > 2

(* Its safety half: nothing else makes such a machine halt.                *)
RunsOn ==
  Bootable /\ Supported =>
    /\ pc = "halted" => failed \/ cx > 2
    /\ pc = "kernel_task" => SameVolume

(* The inductive invariant for it. The parameter block is the one on the   *)
(* drive, where it says it is; no answer of the BIOS that counts is lost.  *)
BeforeFind == {"mbr", "reset", "stage2", "mmap"}
Answered   == IF pc \in BeforeFind THEN ebx ELSE Len(installed.e820)

InBootSector ==
  LET vbr == installed.disk[bpb.hidden * SectorSize + 1]
  IN  "bpb" \in DOMAIN vbr /\ vbr.bpb = bpb /\ bpb.hidden \in Nat

NoneLost ==
  \A k \in 1 .. Answered :
    Counted(installed.e820[k]) => installed.e820[k] \in Range(mmap_desc)

GoesOn ==
  /\ pc = "halted" => failed \/ cx > 2
  /\ pc \in BeforeFind => Len(mmap_desc) <= ebx
  /\ pc \in BeforeMap => gdt /\ NoneLost

RunInv ==
  /\ cx \in Nat
  /\ installed.place = 1 =>
       /\ pc \notin {"mbr", "halted"} => InBootSector
       /\ pc \in {"reset", "stage2", "mmap", "find"} => ListedOn(installed, bpb)
       /\ pc \in {"tasks", "tasking", "kernel_task"} /\ installed.booted = 0 => SameVolume
  /\ Bootable /\ Supported => GoesOn

=============================================================================
