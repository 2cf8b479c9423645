# Verification of eScheelOS

TLA+ models of eScheelOS, a 32 bit x86 kernel with one CPU, no paging beyond an
identity map and no user mode, and of its boot loader. TLC checks the models on
small instances; TLAPS proves, for every size, the safety properties listed
under Proofs. Paths below are relative to `src/`.

## The system

| Component | State | Operations | Talks to |
|---|---|---|---|
| Heap (`kernel/sys/heap.c`) | headers in memory, `current_block_address`, `system_heap.used` | `malloc`, `free` | called by tasking, shell, FAT32 |
| Tasks and scheduler (`kernel/sys/tasking.c`, `drivers/pit.c`, `arch/irq.asm`) | `task_table`, `current_task`, a stack per task | `task_exec`, `task_sleep`, `task_kill`, `reaper`, timer interrupt | stacks from the heap |
| Kernel task and shell (`kernel.c`, `kshell.c`) | `f12_pressed`, `kshell_activated`, the shell's buffers | the loop of `kernel_task`, the commands | scheduler, heap, keyboard, FAT32 |
| Keyboard and line input (`drivers/keyboard.c`, `lib/io.c`) | `keyboard_input_buffer`, its index, shift; the index and the string of `kgets` | keyboard interrupt, `kgets` | shell |
| IDE (`drivers/ide.c`) | `drives`, the registers of the controller | `ide_init`, `ide_read_sectors`, `ide_write_sectors` | FAT32; ticks of the PIT |
| FAT32 (`drivers/fat32.c`) | the parameter block; all else is local to a call | `fat32_ls`, `fat32_read` | IDE, heap |
| Boot loader (`boot/`) | the parameter block, the memory map, the current cluster, the kernel at 0x40000 and at 0x100000 | MBR, boot sector, stage 2: memory map, find, load, relocate | BIOS; starts the kernel |
| Kernel entry (`kernel.asm`) | the order of initialisation | `KERNEL_INIT` | calls all that follow, `heap_init`, `ide_init`, `fat32_init` and `tasking_init` |
| Memory map (`sys/mmap.c`) | `available_memory_map`, `main_memory_index` | `memory_map_init` | what stage 2 left; decides whether the kernel goes on |
| Interrupt tables (`arch/`) | the IDT, the two 8259As | `REMAP_PICS`, `IDT_INIT`, the handlers | PIT, keyboard, IDE |
| Paging (`sys/paging.c`) | the page tables | `paging_init` | every address, the heap's among them |
| PCI (`drivers/pci.c`) | `pci_device_hdr` | `pci_probe_devices` | `ide_init` |
| Screen (`drivers/vga.c`, `sys/logo.c`) | the text buffer, the cursor | `vga_printc` and what calls it, `vga_clear`, `vga_putc` | `kgets`, the shell, all messages |
| ELF loader, library, serial port | none that matters | | nothing calls the first; see Not modelled |

What is hard in this code:

- **Interleaving.** The timer switches tasks between any two instructions that
  run with interrupts on; the keyboard interrupt comes between any two accesses
  of `kgets` to a buffer that has no lock.
- **Sharing.** `f12_pressed`, `kshell_activated` and the task table are written
  by three parties; a zombie still runs on the stack that `reaper` frees.
- **Order.** Interrupts are on before initialisation is over: the tables, the
  controllers and the flag of the scheduler must each be set before an interrupt
  needs them. A handler that does not end its interrupt in both controllers
  blocks all later lines.
- **Long sequences.** The heap is a chain of headers in memory that callers
  write to; splits, merges and trims leave old headers behind.
- **Failure.** Any read of the drive may fail, and a drive may be slow for ever.
- **Boundaries.** A full heap, a full buffer, a full task table, a file that
  ends at a cluster, a sleep of 0 ticks, a full table of devices or of memory
  regions, the edges of the screen.

`PROJECT.json` lists every such hazard at its line with the properties that
would catch it going wrong, or with the reason why none does: what a property
excepts is not listed under it.

## Modules

Names of variables, operations and constants are those of the source.

- **Allocator**: the promise of `malloc` and `free`: extents that nobody else
  owns. No blocks, no headers.
- **Heap**: `malloc` and `free`, one iteration of a loop per step. The unit is
  the cell of 8 bytes (`HEAP_ALIGNMENT`, which is also the size of a header),
  so memory is an array of cells each of which can be read as a header. Callers
  write anything they like into memory they own. `headers`, `owned`, `freed`
  and `wasFull` are history: the code does not have them.
  `Heap!PromiseSpec` says that Heap implements Allocator.
- **Tasking**: the task table. The code between `cli` and `sti` is a step; the
  timer interrupt with `task_tick` and `schedule` is a step (`Tick`). A frame on
  a stack is abstracted to the stack and the place in the code where its `EIP`
  points: in the task's own code, in the loop of `task_sleep`, or in that of
  `task_kill`. `cpu` is what the CPU executes; `at` and `waited` are history.
- **KernelShell** extends Tasking with `kernel_task` and `kshell`, each access
  to a shared variable a step, and the F12 key.
- **Keyboard**: the interrupt handler (a step) against `kgets` (each look at
  the buffer and each write a step). `typed`, `entered`, `backed`, `lagged` are
  history: the line as the user edited it.
- **Ide**: the two transfers and the probe, a look at the status register per
  step, against two drives that answer at any time or never, with or without an
  error. The drives are external to the code: the model of them follows from
  what the driver reads and writes.
- **Fat32**: `fat32_ls` and `fat32_read`, a cluster per step, with any read
  failing. A volume is a FAT, the directory entries per cluster, and data whose
  bytes all differ. The address arithmetic and the characters of names are left
  out.
- **Boot**: the three stages of the boot loader, one read of the drive, one
  answer of the BIOS or one program header per step, with any call of the BIOS
  failing. Addresses of sectors are computed as in the code and looked up on a
  drive that is laid out as `format-drive.sh` leaves it. `BX`, the halves of a
  cluster number and the byte of a length that stage 2 looks at have their width.
- **Interrupts**: the two 8259As (external) as `REMAP_PICS` sets them up, the
  IDT, and a handler from end to end: which line may interrupt, and what its
  acknowledgement ends. Operators only.
- **KernelEntry** extends Boot and Interrupts with `KERNEL_INIT`: one action per
  function that changes state, from the jump of stage 2 to `kernel_task`, and
  between any two of them, once interrupts are on, any handler. The memory map,
  the page tables and the scan of the bus are functions of what the machine is.
- **Terminal**: what a text screen promises: rows that scroll and a place where
  the next character goes. **Screen**: `vga.c` on its linear buffer;
  `Screen!TerminalSpec` says that it implements Terminal.
- **Console** joins Screen and Keyboard as `kgets` does: what is typed is shown
  and erased. The user is one who types no faster than `kgets` reads.
- **MC...**: instances for TLC. **...Proofs**: theorems.

Definitions named `...Slip` are the definition that follows them with a
plausible mistake. They are no part of the models; each property is checked to
fail when its slip is put in.

Heap and Tasking are separate models. They meet in `malloc(STACK_SIZE)` and
`free(stack_base)`: Tasking takes any block that is not in use, which is what
Allocator promises and Heap is proved to keep. KernelEntry ends where Tasking and
KernelShell begin, in `kernel_task`, and stops at the call of the probe in
`ide_init`, which Ide has. Likewise Fat32 lets any read
fail, and Ide says what a read that does not fail has delivered.

## Runs

| Run | Instance | Shows |
|---|---|---|
| `heap` | 8 cells; requests of 1, 2, 4; payloads that look like a free and a used header | chain, ownership, double free, first fit, clear memory, coalescing, termination; implements Allocator |
| `tasking` | 4 slots, 3 stacks; names one of which is a prefix of another; sleeps of 0 and 2 ticks | stacks, frames, names; no hang; bounded waiting; sleepers wake, zombies are reaped |
| `kernel_shell` | 3 slots, 2 stacks | the flag and the shell agree; the shell frees everything; F12 starts a shell |
| `keyboard` | buffer of 4 | the line returned is the line typed, when it can be |
| `console` | a screen of 2 rows of 3; a line of up to 4 characters, tabs among them | what is on the screen is the line as edited; implements Terminal |
| `ide` | drives of each kind; 1 or 2 sectors; a timeout of 1 tick | transfers and failures |
| `fat32` | 1800 volumes of 5 clusters of 4 bytes, chains in every order | files and listings under failing reads |
| `boot` | 407 drives in a plain machine; one drive in machines with 13 memory maps, 7 buses, other drives, and lines that interrupt at any time | only a whole kernel is started; its heap is in usable memory; the table of devices is the bus; no interrupt comes too early; a supported machine ends in `kernel_task`; every open line is served |
| `boot_e820`, `keyboard_race`, `ide_timeout`, `fat32_cut` | as above | see Findings |

Why the bounds are enough. Heap: 8 cells hold up to four blocks, so there is a
block with a free neighbour on each side; the requests make blocks that fit
exactly, that fit with too little left to split and that can be split, and they
can fill the heap to its last cell. Tasking: with 4 slots a task can be passed
over by two others, end, and be replaced by a task in the slot between; 3 stacks
are one for each slot but task 0's, and a malloc that fails changes nothing.
KernelShell: a third slot is free while a first shell is a zombie, so a second
shell would find room. Keyboard: a line can be full, one short and edited back to empty.
Boot: kernels end below, at and above a cluster and
the segment; cluster 4 has a low half of 0; the entries of the FAT spread over
sectors. The memory map has a scale of its own, on which a megabyte is 64, 4 GB
are 1024 and the low byte of a length is its low five bits: maps have regions
above 4 GB, empty ones, ones to be ignored with a low byte on each side of 20,
more entries than there is room for, and no memory, or too little, at the
kernel. Buses have more devices than the table, functions of a device that says
it has one, and bridges in front of endpoints. Console: a prompt and four
characters go round the edge and over the bottom of the screen, and
`BufferSize < Size`, as 1024 < 2000, keeps a line without tabs on it. Ide: two sectors have a first and a last. Fat32: a directory and a file of two
clusters each, sizes at, below and above the sector and the cluster. `waited`
saturates at `MAX_TASKS`, and `elapsed` one above `Timeout`, the values that
comparisons tell apart.

Deadlock is checked except for `ide`, `ide_timeout`, `boot` and `boot_e820`, where the system
really stops: `SYSTEM_HALT` in `ide_init` and other initialisation, and a
boot loader that halts; in `boot` a machine whose devices are silent has nothing
left to do in `kernel_task`, where the model ends.

### Fairness

- Heap: `WF(Step)`. Interrupts are off during a call, so it runs on.
- Tasking: the timer ticks (`WF(Tick)`), and `kernel_task` gets round its loop
  (`SF(reaper)`: strong, because it can take its step only while it is
  scheduled, which is again and again).
- KernelShell: the same for the two tasks. The user need not press a key and
  nothing makes the shell leave a command.
- Keyboard: `WF(kgets)`: the task is scheduled again and again. No fairness of
  the user.
- Ide: the CPU polls on and the timer ticks (`DriverFairSpec`); `FairSpec` adds
  that the drives answer. `TimesOut` is checked without that, since a timeout is
  for drives that do not.
- Fat32: none; only safety is checked.
- KernelEntry: `WF(Step)`: the CPU runs on. `SF(Interrupt(line))` for each line
  that is not masked: strong, because a line of higher rank may be raised again
  and again. What justifies it is that the handlers are shorter than the 10 ms of
  the timer and the time between keys. No fairness of the devices.
- Console: none; only safety is checked.

### Findings

- `boot_e820`: an entry of the memory map that the BIOS marks as to be ignored is
  counted when the low byte of the length of the region is at most 20, because
  `stage2.asm:441` looks at the length and not at the size of the answer.
- `keyboard_race`: a backspace that comes before `kgets` is done with the key
  before it garbles the line. `LineIsTypedInStep` and `NoBackspaceNoLoss` show
  that both conditions are needed.
- `ide_timeout`: the timeouts of the transfers count ticks with interrupts off
  and never fire.
- `fat32_cut`: a file whose chain cannot be read to its end is returned as if it
  were complete. `ReturnsTheFileUnlessFatFails` shows that only a read of the FAT
  can do that: when a cluster cannot be read, the caller gets NULL.

Some properties except a case in which the code does what it seems not to be
meant to do, where no line of the repository says otherwise: `free` leaves two
free blocks unmerged once the high-water mark is at the end of the heap
(`CoalescedUnlessFull`, `heap.c:170`); F12 pressed between `kshell.c:125` and the
reaping of the shell is lost (`F12StartsShell`); a backspace over a tab erases
one of its four spaces (`EchoIsLine`, `io.c:105`); a heap is set up even where
there is less than 2 MB (`HeapUsable`); the kernel looks at sector 63 of drive 0
whatever it was booted from (`KernelRuns`, `fat32.c:21`); the list of memory
regions may be longer than its table, and the GDT follows it (`KernelRuns`,
`stage2.asm:441`); a drive that faults in the middle of a read is waited for for
ever (`CallsReturn`, `ide.c:226`).

## Proofs

Every invariant and every action property that a passing run checks is a
theorem, for all values of the constants that satisfy the assumptions named
below. Each assumption is an `ASSUME` that TLC evaluates on the instances too.

### The lemmas they share

**NatLemmas** has division, multiples, induction and recursion. The induction
theorems of the library take a predicate as an operator, which the provers here
cannot instantiate; these take a set of numbers (`InductionNat`), and a step of a
recursion as a function on pairs (`BoundedRecursion`, `UnboundedRecursion`). They
are what makes provable what the recursive functions of the models compute: the
loop that keeps some elements of an array (`Selection`: `SelectedFrom`,
`SelectedConcat`), the three loops of the bus, chains of clusters, the cells of a
line.

### Heap

For every heap base and size and every set of requests and payloads
(`HeapAssumption`), **HeapProofs** proves that type correctness, `Chain`,
`Ownership` and `DoubleFreeIgnored` are invariants, that `malloc` is first fit,
and that Heap implements Allocator. The inductive invariant is `HeapInv`:

- `TypeOK`, `Chain` and `Ownership` alone are not inductive, because a step in
  the middle of a call relies on where its walk is. `InMalloc` says that
  `block_iter` is at a header or at the high-water mark and all blocks below it
  are unfit; `InFree` says that the walk is at a header not above `alloc`, and
  `prev_alloc` is the block before it.
- `FreedApart` strengthens `DoubleFreeIgnored`: a freed pointer's header cell is
  not inside a reserved block, so no caller can write to it.

The lemmas treat what happens to the chain when one block is split, two are
merged, or the last is trimmed; each action's proof cites them.

The second half of the module goes on from `HeapInv` to the free memory.
`FreeInv` adds `FreeMemoryCleared`, `Settled` and `Covered`. `CoalescedUnlessFull`
speaks of the time between calls only; `Settled` says what holds within `free`
too, where the block being freed, and the one before it, may still have a free
block or the high-water mark behind them. `Covered` says that the walk of
`malloc` leaves out no cell: every cell below `block_iter` is in a block the walk
has seen. With these `FailsOnlyWithoutRoom` follows: room for a request would
start in a free block, which is too small, and run into the reserved one behind
it.

### Tasks and the shell

For every number of slots of at least 2 and every set of stacks, names and
durations (`TaskingAssumption`), **TaskingProofs** proves all safety properties
of Tasking. `TaskInv` adds to them `Booted` (task 0 neither sleeps nor ends, so
the scheduler always finds it) and `Waiting`:
`waited[i] + Distance(current_task, i) <= MAX_TASKS - 1` for each task that
waits. A tick brings the scheduler at least one slot nearer to it, which pays for
the tick it waits; that gives `BoundedWait`.

The second half is about KernelShell, for names and durations that have those of
the source (`ShellAssumption`). Every step of `kernel_task` and the shell is one
that Tasking allows its tasks (`ShellTasking`), so that all that is shown of
Tasking holds of them. Then `TaskInv` and `ShellInv` are invariants together: a
slot whose shell is between its first step and its last is that of a live task,
what the shell holds follows from the step it is at, and `kshell_activated` is
set only while a shell is between setting and clearing it. `ActivatedIsAlive` and
`ShellFreesAll` are consequences.

### Keyboard, screen and console

For every size of the buffer of at least 2 and any table of scancodes
(`KeyboardAssumption`), **KeyboardProofs** proves both properties of the line.
`KeyboardInv` has a part for each. `NoLoss`: without backspaces the buffer holds
the whole line and `kgets` has copied the first `i` characters of it, however far
it lags. `InStep`: as long as each key finds `kgets` done with the last, at most
one key is pending, a character, a backspace or Enter, and the buffer is clear
behind it.

For every size of the screen and every set of characters (`ScreenAssumption`),
**ConsoleProofs** proves that the cursor is on the screen between any two calls
and that Screen implements Terminal. There the invariant is the type: what has
to be shown is that `y * VGA_WIDTH + x` maps places to cells one to one
(`IndexInjective`), that the cell before the cursor is the one before it in its
row or the last of the row above (`IndexBefore`), and that moving the buffer by
`VGA_WIDTH` moves each row (`Scroll`); then each way through `vga_printc` shows
what Terminal does.

The same module proves `EchoIsLine`, from `ConsoleAssumption`: the keyboard's
codes are characters the screen has or controls that it knows. Console keeps
`KeyboardInv` (its steps are the keyboard's, with output), and
`ConsoleInv` says that the cells before the cursor are the prompt and the
characters that `kgets` has copied, not those the user has typed: between the key
and its echo the two differ, and at `Waiting` they are equal by `InStep`. Printing
a character moves what stands before the cursor by the row it scrolls, if it does
(`Printed`), and a backspace takes away the last cell. `Stand` speaks of the cells
that are still on the screen, so that the buffer may be larger than it.

### IDE

For drives of any size and kind, every bounded set of counts and every timeout
(`IdeAssumption`), **IdeProofs** proves `ReadsRight`, `WritesRight` and
`OnlyTheTarget`. `IdeInv` relates the call to its drive: the drive's next sector
is the one the driver's loop is at; no drive may still store anything, except the
one at work on a write, which may store the last sector it was sent; and the
sectors before that are in the buffer or on the disk. It also says that with
interrupts off no tick is counted, which is what the finding `ide_timeout` is about:
a call never gives up in the middle of a write that goes on.

### FAT32

For every sector and cluster size and every set of volumes (`Fat32Assumption`),
**Fat32Proofs** proves that no read runs over its buffer and that each way out
frees what was allocated. `Fat32Inv`: `data_ptr` and `bytes_left` add up to the
size of the file, and as long as something is left, `data_ptr` is a whole number
of clusters. Then the size of the buffer, which is rounded up to sectors from
the whole file, is enough for the last cluster, whose number of sectors is
rounded up from what is left.

For volumes that are sound (`VolumesAssumption`: the chain of the root directory
ends, and that of a file does not before all of its bytes), it proves what a call
returns: `ReturnsTheFileUnlessFatFails`, `FindsTheFile` and `ListsAll`. The first
holds for calls in which clusters cannot be read, too: `GivesUp` says that every
such call ends there, with NULL. `FileInv` speaks of calls in which no read has
failed. While a call searches, there is an `n` such
that it is at cluster `n` of the directory's chain, the first `n` clusters hold
neither the end mark nor the file asked for, and `fat32_ls` has shown what is in
them. While it reads, every byte before `data_ptr` is the file's, and the cluster
is the one with the next. The chain and the entries along it are recursive
functions of the volume, so each step of a call unfolds one step of them.

### From the boot sector to kernel_task

**KernelEntryProofs** has four invariants of `KernelSpec`.

`ImageInv` gives `KernelInPlace`. What is installed is an assumption on the drive
(`InstallationsAssumption`, `IsDrive`): `kernel.elf` has its header in its first cell only
and segments that are in the file and apart in memory (`IsKernel`); a volume that
the MBR would start has the kernel in the clusters of its chain, and the first
entry of that name in the first cluster of the root directory, if there is one,
names the first of them (`KernelOn`). For `KernelInPlace` nothing is assumed of the
kernel's length, of the order of its clusters, or that it can be found. While stage 2 loads,
`Loaded(j)` says what `j` clusters have left in the segment: as long as they fit,
the first cells of the kernel, with `BX` behind them. When they are more than the
segment, `BX` has wrapped and a later part of the file is where the header was,
so that the check for the magic refuses it: that is why a kernel of more than
64 KB is never started, and why a file that fills the segment to its last cell
still is. `Relocates(n)` says that the segments of the first `n` program headers
are in place; the copy of the next leaves them alone, as they do not overlap.

`EntryInv` gives `HeapUsable` and `HandlersReady`, from `KernelAssumption` (what
the BIOS answers is a list of regions, the page tables reach to 2 MB beyond the
kernel, and no device raises line 2, the second 8259A). `HeapInv`: the entries
that count are among the answers of the BIOS, and one of them that may be used
begins at the kernel once `memory_map_init` has let it go on; `IdentityMaps` shows
that two-level paging then leads each address to itself. `IrqInv`: interrupts are
on only when the masks, the vectors and the table of gates are those of the
kernel, and the scheduler is enabled only when it has a task, so each line that
interrupts has a handler that returns. `HeapUsable` excepts an entry that is to be
ignored and is not, a memory of less than 2 MB, and one above 4 GB; `boot_e820`
shows the first of them.

`TableInv` gives `TableIsTheBus`, for any number of buses, slots and functions:
the table after each round of the three loops lists the endpoints below the
address the loops have come to, in order, until it is full (`Lists`,
`ListsOneMore`, `ListsWhenFull`); counting those before an address
(`BelowNext`, `BelowSlot`, `BelowBus`) gives each its place.

`RunInv`, with the others, gives `RunsOn`, the safety half of `KernelRuns`: a
machine that is `Bootable` and `Supported` halts for no other reason than a read
that fails (of ATA or of the BIOS) or a third reset that does, and in kernel_task
FAT32 is on the volume that stage 2 has read. The assumptions say what a drive is
that is made for booting (`place` is not 0): its first active partition has a boot
sector, and if the kernel is in the first cluster of the root directory
(`place = 1`), that cluster lists it (`ListedOn`) and the boot sector says where it
is itself. Then each halt in the code is excluded in turn. The entry of the
kernel is found and has a number; the header is still there when it is parsed,
as a kernel that fits the segment has no more clusters than fit there
(`ParseRuns`); the entries of the memory map never reach the GDT, and none that
counts is lost on the way (`NoneLost`), so the largest of them (`LargestIsMax`) is
the one at the kernel; an IDE controller on the bus is in the table by
`TableIsTheBus`; and the parameter block that `fat32_init` reads is the one that
stage 2 had (`InBootSector`). An entry of no length is dropped (`stage2.asm:439`),
which is why `Supported` asks for a main memory that has one.

### Only model-checked

Liveness takes fairness and `ENABLED`, which the prover does not have:
`CallsReturn` of Heap and of Ide, `SleepersWake`, `ZombiesReaped`,
`F12StartsShell`, `EnterReturns`, `IrqsServed` and `KernelRuns`. Of the last, what
is left is that the machine gets to kernel_task at all. The findings are
counterexamples of TLC. The probe of the drives in `ide_init`, as far as Ide has
it, keeps `IdeInv`; that it finds the drives is part of no property.

## Not modelled

`wait_for_task`, `timer_wait`, `vga_set_x`, `vga_set_y`, `vga_set_color`, `atoi`
and `elf32.c` have no caller. Output other than what `kgets` echoes (`kprintf`,
listings of state) is any sequence of characters. A NULL from `malloc` that a
caller does not look at leads to address 0, outside the models. Real time
(400 ns delays, the spurious interrupts of an 8259A whose line goes away), what
BIOS calls do, A20 and the video mode, the exceptions of the CPU, the GDT, and
what a PCI header holds beside its class and type are outside. The serial port
is a stub, and its line is masked. Integers have no width in the models but Boot
and KernelEntry: the other places where a width could matter are listed as
hazards. What the boot loader does not load is in `AllInFile` and `Bootable`: a
kernel of more than 64 KB (`docs/mmap.txt` keeps 256 KB free for it), one in a
later cluster of the directory, one that starts in a cluster whose number is a
multiple of 65536, and one with a segment that has no byte in the file.
`Supported` says which machines the kernel comes up on.

## What could be added

Exceptions and the stubs of `isr.asm`; a NULL from `malloc` in the shell and in
FAT32, with memory at address 0; widths in the heap. Of the proofs: a step lemma
for each liveness property (what a fair step leaves closer to its end), so that
only the temporal part is left to TLC.
