------------------------------- MODULE MCBoot -------------------------------
(***************************************************************************)
(* Drives with the kernel in clusters of any order, of one or two sectors  *)
(* of two cells: a quarter or half of a segment. The kernel has a note, a  *)
(* text and a data segment, and is from three cells to more than a segment *)
(* long. Some drives cannot be booted from. Each starts a plain machine,   *)
(* and the first of them machines with other memory, buses and drives. A   *)
(* megabyte is 64, so that 4 GB, here 1024, are 16 of them, and the low    *)
(* byte of a length is the low five bits.                                  *)
(***************************************************************************)
EXTENDS KernelEntry

Blank(n) == [k \in 1 .. n |-> Junk]
Part(active, lba) == [active |-> active, lba |-> lba]
Segment(type, offset, paddr, filesz, memsz) ==
  [type |-> type, offset |-> offset, paddr |-> paddr, filesz |-> filesz, memsz |-> memsz]

(* kernel.elf: n cells, text of them text, and bss cells of zeros.         *)
Kernel(n, text, bss) ==
  LET data == n - 1 - text
  IN  <<[entry |-> text - 1,
         phdrs |-> <<Segment("PT_NOTE", 1, 0, 1, 1), Segment("PT_LOAD", 1, 0, text, text),
                     Segment("PT_LOAD", 1 + text, text + 1, data, data + bss)>>]>>
      \o [k \in 1 .. (n - 1) |-> [part |-> k]]

Kernels == {Kernel(k[1], k[2], k[3]) : k \in {<<3, 1, 0>>, <<4, 2, 1>>, <<5, 2, 2>>, <<8, 5, 3>>,
                                               <<9, 3, 1>>, <<4, 3, 0>>, <<4, 3, 2>>}}

(* The cells of the drive: MBR, a gap, then the partition. The directory   *)
(* is order[1], and perhaps the last of order; the kernel follows order[1].*)
Install(spc, hidden, reserved, num_fats, order, kernel, place, slot) ==
  LET size   == spc * SectorSize
      length == (Len(kernel) + size - 1) \div size
      chain  == SubSeq(order, 2, length + 1)
      entry  == [name |-> "KERNEL  ELF", low |-> Head(chain) % WordSize,
                 high |-> Head(chain) \div WordSize]
      other  == [name |-> "other", low |-> 1, high |-> 0]
      listing(p) == [k \in 1 .. size |-> IF p = place /\ k = slot THEN entry ELSE other]
      padded == kernel \o Blank(length * size - Len(kernel))
      next(c) ==
        IF c = order[1] THEN IF place = 2 THEN Last(order) ELSE EOC
        ELSE IF \E k \in 2 .. length : order[k] = c
             THEN order[CHOOSE k \in 3 .. (length + 1) : order[k - 1] = c] ELSE EOC
      fatsz  == (Len(order) + 2 + SectorSize - 1) \div SectorSize
      fat    == [k \in 1 .. (fatsz * SectorSize) |->
                  [fat |-> IF k - 1 \in Range(order) THEN next(k - 1) + FatMask * (k % 2) ELSE EOC]]
      data(c) ==
        IF c = order[1] THEN listing(1)
        ELSE IF place = 2 /\ c = Last(order) THEN listing(2)
        ELSE IF \E k \in 2 .. (length + 1) : order[k] = c
             THEN LET k == CHOOSE k \in 2 .. (length + 1) : order[k] = c
                  IN  SubSeq(padded, (k - 2) * size + 1, (k - 1) * size)
             ELSE Blank(size)
      bpb_   == [hidden |-> hidden, reserved |-> reserved, num_fats |-> num_fats, fatsz |-> fatsz,
                 spc |-> spc, root_cluster |-> order[1]]
  IN  [kernel |-> kernel, place |-> place, chain |-> chain,
       disk |-> <<[partitions |-> <<Part(FALSE, 0), Part(TRUE, hidden), Part(TRUE, 0)>>]>>
                \o Blank(hidden * SectorSize - 1)
                \o <<[magic |-> TRUE, bpb |-> bpb_]>> \o Blank(reserved * SectorSize - 1)
                \o FlattenSeq([k \in 1 .. num_fats |-> fat])
                \o FlattenSeq([k \in 1 .. Len(order) |-> data(k + 1)])]

(* A drive without an active partition, or without a boot sector.          *)
Broken(i) ==
  LET table == i.disk[1].partitions
  IN  {[i EXCEPT !.place = 0, !.disk[1].partitions = SubSeq(table, 1, 1)],
       [i EXCEPT !.place = 0, !.disk[table[2].lba * SectorSize + 1].magic = FALSE]}

Orders == SetToSeqs(2 .. 5)
Small == {<<2, 3, 4, 5, 6, 7>>, <<7, 6, 5, 4, 3, 2>>, <<3, 7, 2, 6, 4, 5>>}

Good ==
  {Install(2, 2, 1, 2, order, kernel, 1, slot) : order \in Orders, kernel \in Kernels, slot \in {1, 4}}
  \cup {Install(2, 3, 2, 1, order, kernel, 2, 1) :
          order \in Orders, kernel \in {k \in Kernels : Len(k) <= 8}}
  \cup {Install(1, 3, 2, 1, order, kernel, 1, 2) : order \in Small, kernel \in Kernels}

Drives == Good \cup Broken(CHOOSE i \in Good : TRUE)

-----------------------------------------------------------------------------
(* Answers of the BIOS: memory, what it keeps, and what is to be ignored.  *)
Answer(base, high, low, type, size, valid) ==
  [base |-> base, base_high |-> 0, high |-> high, low |-> low, type |-> type, size |-> size,
   valid |-> valid]
Low      == Answer(0, 0, 40, 1, 20, TRUE)
Main     == Answer(64, 0, 384, 1, 24, TRUE)
Reserved == Answer(448, 0, 64, 2, 20, TRUE)
Empty    == Answer(900, 0, 0, 1, 24, TRUE)
Ignored(low) == Answer(64, 0, low, 1, 24, FALSE)
High     == [Answer(0, 1, 64, 1, 20, TRUE) EXCEPT !.base_high = 1]

Maps ==
  {<<Low, Main, Reserved>>, <<Empty, Main, Empty, Low>>, <<Main, Low>>, <<Low>>,
   <<Low, Main, High>>,                     \* more than 4 GB
   <<Low, Main, [High EXCEPT !.base = 64]>>,  \* there, at the low half of the kernel's address
   <<Low, [Main EXCEPT !.type = 3]>>,       \* nothing that may be used at the kernel
   <<Low, [Main EXCEPT !.low = 64]>>,       \* one megabyte there
   <<Low, Ignored(400), Reserved>>,         \* to be ignored, and is not: 400 % 32 is 16
   <<Ignored(415), Low, Main>>,             \* to be ignored, and is
   <<Low, Main, Reserved, Empty, Reserved>>, <<Low, Main, Reserved, Reserved, Reserved>>,
   <<Reserved, Reserved, Reserved, Low, Main>>}

Device(class, multi, type) == [class |-> class, multi |-> multi, hdr_type |-> type]
Host == Device("bridge", FALSE, 0)
Ide  == Device("ide", FALSE, 0)
(* The south bridge has the controller as its second function. A device    *)
(* that has one function may answer for others too.                        *)
Plain == (<<0, 0, 0>> :> Host) @@ (<<0, 1, 0>> :> Device("isa", TRUE, 0)) @@ (<<0, 1, 1>> :> Ide)
BusSet ==
  {Plain, (<<0, 0, 0>> :> Host),
   (<<0, 0, 0>> :> Host) @@ (<<0, 0, 1>> :> Host) @@ (<<1, 1, 0>> :> Ide) @@ (<<1, 1, 1>> :> Ide),
   (<<0, 0, 0>> :> Device("isa", TRUE, 0)) @@ (<<0, 0, 1>> :> Host) @@ (<<0, 1, 0>> :> Ide)
     @@ (<<0, 1, 1>> :> Ide),
   (<<0, 0, 0>> :> Device("pci", TRUE, 1)) @@ (<<0, 0, 1>> :> Ide) @@ (<<1, 0, 1>> :> Host),
   Plain @@ (<<1, 0, 0>> :> Host) @@ (<<1, 1, 0>> :> Host),
   (<<0, 0, 0>> :> Host) @@ (<<0, 1, 0>> :> Host) @@ (<<1, 0, 0>> :> Host) @@ (<<1, 1, 0>> :> Ide)}

(* An installation in a machine.                                           *)
In(i, e820, bus, drives, booted, lines) ==
  [kernel |-> i.kernel, place |-> i.place, chain |-> i.chain, disk |-> i.disk, e820 |-> e820,
   bus |-> bus, drives |-> drives, booted |-> booted, lines |-> lines]

(* One that can be booted from.                                            *)
Sample == CHOOSE i \in Good :
  i.place = 1 /\ i.chain[1] % WordSize # 0 /\ i.disk[1].partitions[2].lba = PartitionLba
MCInstallations ==
  {In(i, <<Low, Main>>, Plain, {0}, 0, {}) : i \in Drives}
  \cup {In(Sample, e820, Plain, {0}, 0, {}) : e820 \in Maps}
  \cup {In(Sample, <<Low, Main>>, bus, {0}, 0, {}) : bus \in BusSet}
  \cup {In(Sample, <<Low, Main>>, Plain, drives, 1, {}) : drives \in {{1}, {0, 1}}}
  \cup {In(Sample, <<Low, Main>>, Plain, {0, 1}, 0, {0, 1, 6, 14})}
=============================================================================
