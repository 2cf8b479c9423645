-------------------------------- MODULE Boot --------------------------------
(***************************************************************************)
(* boot/mbr.asm, vbr.asm and stage2.asm: from the first sector of the      *)
(* drive to the jump into the kernel. A cell is an entry of the FAT, of a  *)
(* directory, or a part of a file as long as one; SectorSize of them fill  *)
(* a sector. The addresses and lengths of the memory map have a scale of   *)
(* their own. A read by the BIOS may fail. Printing, the video mode and    *)
(* the A20 gate are left out.                                              *)
(***************************************************************************)
EXTENDS Integers, Sequences, FiniteSetsExt

CONSTANTS
  SectorSize,
  SegmentSize,     \* cells BX can address with one value of ES: 64 KB
  WordSize,        \* 2^16
  FatMask,         \* 2^28
  EOC,             \* 0x0FFFFFF8
  kernel_filename,
  ByteSize,        \* 2^8, of the lengths in the memory map
  SMAP_ENTRY_max,
  Installations,   \* [disk, kernel, place, chain, e820]: the cells of the drive, those of
                   \* kernel.elf, which cluster of the root directory lists it (0: the
                   \* drive is not made for booting), which it is in, and what the BIOS
                   \* answers when asked for the memory map
  TempSize,        \* cells from 0x40000 on that are looked at
  MemSize          \* cells from 0x100000 on

ASSUME BootAssumption ==
  /\ SectorSize \in Nat \ {0} /\ SegmentSize \in Nat \ {0}
  /\ WordSize \in Nat \ {0} /\ EOC \in Nat /\ FatMask \in Nat /\ EOC < FatMask
  /\ TempSize \in Nat /\ TempSize >= SegmentSize /\ MemSize \in Nat
  /\ ByteSize \in Nat /\ ByteSize > 20 /\ SMAP_ENTRY_max \in Nat \ {0}

VARIABLES
  installed,           \* what is on the drive
  pc,
  cx,                  \* of the disk reset
  bpb,                 \* the parameter block in the boot sector, at 0x7c00
  ebx,                 \* where the BIOS is in its list
  mmap_desc,           \* the entries that count
  gdt,                 \* is the table behind mmap_desc intact?
  cluster,             \* eax
  bx,
  temp,                \* memory from 0x40000 on
  phdr,                \* esi: the program header, from 1
  kernel_entry_point,
  memory,              \* memory from 0x100000 on
  failed               \* history: a read has failed

mapVars  == <<ebx, mmap_desc, gdt>>
fileVars == <<temp, phdr, kernel_entry_point, memory>>
vars == <<installed, pc, cx, bpb, mapVars, cluster, bx, fileVars, failed>>

Junk == [junk |-> TRUE]
Zero == [zero |-> TRUE]
NoBpb == [hidden |-> 0, reserved |-> 0, num_fats |-> 0, fatsz |-> 0, spc |-> 1, root_cluster |-> 0]

Init ==
  /\ installed \in Installations
  /\ pc = "mbr"
  /\ cx = 0 /\ bpb = NoBpb /\ cluster = 0 /\ bx = 0 /\ phdr = 0 /\ kernel_entry_point = 0
  /\ temp = [a \in 0 .. (TempSize - 1) |-> Junk]
  /\ memory = [a \in 0 .. (MemSize - 1) |-> Junk]
  /\ failed = FALSE
  /\ ebx = 0 /\ mmap_desc = <<>> /\ gdt = TRUE

Halt ==
  /\ pc' = "halted"
  /\ UNCHANGED <<installed, mapVars, cx, bpb, cluster, bx, fileVars>>
Stop == Halt /\ UNCHANGED failed

(* DISK_READ of all three stages: count sectors, or the carry flag.        *)
Sectors(lba, count) == SubSeq(installed.disk, lba * SectorSize + 1, (lba + count) * SectorSize)
ReadFails ==
  /\ pc \in {"mbr", "stage2", "mmap", "find", "load", "next"}
  /\ failed' = TRUE
  /\ Halt

-----------------------------------------------------------------------------
(* mbr.asm and vbr.asm                                                     *)

(* Definitions named ...Slip are the one that follows with a mistake in it;*)
(* the properties are checked to notice it.                                *)

(* The boot sector of the first active partition. It must have the magic.  *)
Mbr ==
  /\ pc = "mbr"
  /\ LET table == Sectors(0, 1)[1].partitions
         active == {p \in DOMAIN table : table[p].active}
     IN  \/ active = {} /\ Stop
         \/ \E p \in active :
              /\ \A q \in active : p <= q
              /\ LET vbr == Sectors(table[p].lba, 1)[1]
                 IN  \/ ~vbr.magic /\ Stop
                     \/ /\ vbr.magic
                        /\ pc' = "reset" /\ bpb' = vbr.bpb
                        /\ UNCHANGED <<installed, mapVars, cx, cluster, bx, fileVars, failed>>

Retries == cx + 1 <= 2

DiskReset ==
  /\ pc = "reset"
  /\ \/ pc' = "stage2" /\ cx' = cx
     \/ cx' = cx + 1 /\ pc' = IF Retries THEN "reset" ELSE "halted"
  /\ UNCHANGED <<installed, mapVars, bpb, cluster, bx, fileVars, failed>>

(* Stage 2 is not checked.                                                 *)
LoadStage2 ==
  /\ pc = "stage2"
  /\ pc' = "mmap"
  /\ UNCHANGED <<installed, mapVars, cx, bpb, cluster, bx, fileVars, failed>>

-----------------------------------------------------------------------------
(* stage2.asm: find the kernel                                             *)

(* The low bytes of a and b, combined bit by bit.                          *)
LowByteOr(a, b) ==
  LET Bit(n, k) == ((n % ByteSize) \div 2^k) % 2
  IN  MapThenSumSet(LAMBDA k : 2^k, {k \in 0 .. 7 : Bit(a, k) = 1 \/ Bit(b, k) = 1})

(* One answer of BIOS_MEMORY_MAP. The BIOS writes it behind the entries    *)
(* that count already; when there are SMAP_ENTRY_max of them, that is the  *)
(* GDT. An answer of no length does not count. CL, which is looked at, is  *)
(* by then the low byte of both halves of the length. Of an answer of 20   *)
(* bytes the last word is still the 1 put there.                           *)
Counted(answer) ==
  /\ answer.low # 0 \/ answer.high # 0
  /\ LowByteOr(answer.low, answer.high) <= 20 \/ answer.size < 24 \/ answer.valid

MemoryMap ==
  /\ pc = "mmap"
  /\ LET answer == installed.e820[ebx + 1]
     IN  mmap_desc' = IF Counted(answer) THEN Append(mmap_desc, answer) ELSE mmap_desc
  /\ gdt' = (gdt /\ Len(mmap_desc) < SMAP_ENTRY_max)
  /\ ebx' = (ebx + 1) % Len(installed.e820)
  /\ IF ebx' = 0 THEN pc' = "find" /\ cluster' = bpb.root_cluster
                 ELSE UNCHANGED <<pc, cluster>>
  /\ UNCHANGED <<installed, cx, bpb, bx, fileVars, failed>>

fat_start_lba  == bpb.hidden + bpb.reserved
data_start_lba == fat_start_lba + bpb.num_fats * bpb.fatsz
ClusterSize    == bpb.spc * SectorSize

CLUSTER_TO_LBA(c) == (c - 2) * bpb.spc + data_start_lba

(* Cluster c as a sequence of cells.                                       *)
ClusterAt(c) == Sectors(CLUSTER_TO_LBA(c), bpb.spc)

(* Only the first cluster of the directory is searched, all of it.         *)
Matches ==
  LET entries == ClusterAt(cluster)
  IN  {entries[k] : k \in {j \in DOMAIN entries :
         /\ entries[j].name = kernel_filename
         /\ \A i \in 1 .. (j - 1) : entries[i].name # kernel_filename}}

(* AX, the low half of the number of the first cluster, is 0 if no entry   *)
(* matches. Nothing else tells that.                                       *)
FAT32_FIND_FILE ==
  /\ pc = "find"
  /\ \/ (\A e \in Matches : e.low = 0) /\ Stop
     \/ \E e \in Matches :
          /\ e.low # 0
          /\ pc' = "load" /\ cluster' = e.high * WordSize + e.low /\ bx' = 0
          /\ UNCHANGED <<installed, mapVars, cx, bpb, fileVars, failed>>

-----------------------------------------------------------------------------
(* stage2.asm: load it                                                     *)

GET_NEXT_CLUSTERSlip(c) ==
  LET sector == Sectors(fat_start_lba + c \div SectorSize, 1)
  IN  sector[(c % SectorSize) + 1].fat
GET_NEXT_CLUSTER(c) ==
  LET sector == Sectors(fat_start_lba + c \div SectorSize, 1)
  IN  sector[(c % SectorSize) + 1].fat % FatMask

(* The cluster goes to ES:BX. BX wraps at the end of the segment, and ES   *)
(* stays as it is.                                                         *)
Load ==
  /\ pc = "load"
  /\ temp' = [a \in DOMAIN temp |->
       IF a \in bx .. (bx + ClusterSize - 1) THEN ClusterAt(cluster)[a - bx + 1] ELSE temp[a]]
  /\ bx' = (bx + ClusterSize) % SegmentSize
  /\ pc' = "next"
  /\ UNCHANGED <<installed, mapVars, cx, bpb, cluster, phdr, kernel_entry_point, memory, failed>>

LoadNext ==
  /\ pc = "next"
  /\ cluster' = GET_NEXT_CLUSTER(cluster)
  /\ pc' = IF cluster' >= EOC THEN "elf" ELSE "load"
  /\ UNCHANGED <<installed, mapVars, cx, bpb, bx, fileVars, failed>>

-----------------------------------------------------------------------------
(* stage2.asm: parse and relocate it                                       *)

IsElf(cell) == "phdrs" \in DOMAIN cell

(* Without its GDT the CPU does not get into 32 bit code. The program      *)
(* headers are taken to follow the file header.                            *)
ParseElf ==
  /\ pc = "elf"
  /\ \/ ~gdt /\ Stop
     \/ ~IsElf(temp[0]) /\ Stop
     \/ /\ gdt /\ IsElf(temp[0])
        /\ kernel_entry_point' = temp[0].entry
        /\ phdr' = 1 /\ pc' = "segment"
        /\ UNCHANGED <<installed, mapVars, cx, bpb, cluster, bx, temp, memory, failed>>

(* A loop that tests its condition last runs once at least.                *)
Rounds(n) == IF n > 1 THEN n ELSE 1

(* A segment is copied, and the rest of its room in memory zeroed.         *)
Relocated(s) ==
  LET copied == Rounds(s.filesz)
      bss    == IF s.memsz = s.filesz THEN 0 ELSE Rounds(s.memsz - s.filesz)
  IN  [a \in DOMAIN memory |->
         IF a \in s.paddr .. (s.paddr + copied - 1) THEN temp[s.offset + a - s.paddr]
         ELSE IF a \in (s.paddr + copied) .. (s.paddr + copied + bss - 1) THEN Zero
         ELSE memory[a]]

Relocate ==
  /\ pc = "segment"
  /\ LET s == temp[0].phdrs[phdr]
     IN  memory' = IF s.type = "PT_LOAD" THEN Relocated(s) ELSE memory
  /\ phdr' = phdr + 1
  /\ pc' = IF phdr' <= Len(temp[0].phdrs) THEN "segment" ELSE "kernel"
  /\ UNCHANGED <<installed, mapVars, cx, bpb, cluster, bx, temp, kernel_entry_point, failed>>

-----------------------------------------------------------------------------
Next ==
  \/ Mbr \/ DiskReset \/ LoadStage2
  \/ MemoryMap \/ FAT32_FIND_FILE \/ Load \/ LoadNext \/ ParseElf \/ Relocate
  \/ ReadFails

Spec == Init /\ [][Next]_vars

-----------------------------------------------------------------------------
(* What is installed on a drive                                            *)

(* kernel.elf: only its first cell is a file header, and the segments to   *)
(* be loaded are in the file and do not overlap in memory.                 *)
IsKernel(kernel) ==
  LET phdrs  == kernel[1].phdrs
      loaded == {p \in DOMAIN phdrs : phdrs[p].type = "PT_LOAD"}
  IN  /\ kernel \in Seq(Range(kernel)) /\ kernel # <<>>
      /\ \A k \in DOMAIN kernel : IsElf(kernel[k]) <=> k = 1
      /\ phdrs \in Seq(Range(phdrs)) /\ phdrs # <<>>
      /\ \A p \in loaded :
           /\ phdrs[p].offset \in Nat /\ phdrs[p].paddr \in Nat
           /\ phdrs[p].filesz \in Nat /\ phdrs[p].memsz \in Nat
           /\ phdrs[p].filesz <= phdrs[p].memsz
           /\ phdrs[p].offset + phdrs[p].filesz <= Len(kernel)
           /\ phdrs[p].paddr + phdrs[p].memsz <= MemSize
      /\ \A p, q \in loaded :
           p # q => \/ phdrs[p].paddr + phdrs[p].memsz <= phdrs[q].paddr
                    \/ phdrs[q].paddr + phdrs[q].memsz <= phdrs[p].paddr

(* The volume of parameter block b as FAT32 has it: an array of entries,   *)
(* and the cells of each cluster.                                          *)
FatEntry(i, b, c) == i.disk[(b.hidden + b.reserved) * SectorSize + c + 1].fat % FatMask
Cell(i, b, c, k) ==
  i.disk[((c - 2) * b.spc + b.hidden + b.reserved + b.num_fats * b.fatsz) * SectorSize + k + 1]

(* The kernel is in the clusters of its chain. If the first cluster of the *)
(* root directory lists it, it does so with the first of them.             *)
KernelOn(i, b) ==
  LET size  == b.spc * SectorSize
      n     == Len(i.chain)
      Named(k) == Cell(i, b, b.root_cluster, k).name = kernel_filename
  IN  /\ b \in [hidden : Nat, reserved : Nat, num_fats : Nat, fatsz : Nat, spc : Nat \ {0},
                root_cluster : Nat]
      /\ SegmentSize % size = 0
      /\ i.chain \in Seq(Nat) /\ (n - 1) * size < Len(i.kernel) /\ Len(i.kernel) <= n * size
      /\ \A k \in 0 .. (size - 1) :
           LET entry == Cell(i, b, b.root_cluster, k)
           IN  Named(k) /\ (\A l \in 0 .. (k - 1) : ~Named(l)) =>
                 entry.low = 0 \/ entry.high * WordSize + entry.low = i.chain[1]
      /\ \A j \in 1 .. n, k \in 0 .. (size - 1) :
           (j - 1) * size + k < Len(i.kernel) =>
             Cell(i, b, i.chain[j], k) = i.kernel[(j - 1) * size + k + 1]
      /\ \A j \in 1 .. (n - 1) :
           FatEntry(i, b, i.chain[j]) = i.chain[j + 1] /\ i.chain[j + 1] < EOC
      /\ FatEntry(i, b, i.chain[n]) >= EOC

(* That cluster lists it.                                                  *)
ListedOn(i, b) ==
  LET Named(k) == Cell(i, b, b.root_cluster, k).name = kernel_filename
  IN  \E k \in 0 .. (b.spc * SectorSize - 1) :
        /\ Named(k) /\ \A l \in 0 .. (k - 1) : ~Named(l)
        /\ Cell(i, b, b.root_cluster, k).low = i.chain[1] % WordSize

(* A drive that is made for booting has an active partition, and the first *)
(* of them a boot sector. One that lists the kernel there says where it is *)
(* itself.                                                                 *)
IsDrive(i) ==
  LET table == i.disk[1].partitions
      active == {p \in DOMAIN table : table[p].active}
  IN  /\ \A p \in active : table[p].lba \in Nat
      /\ i.place # 0 => active # {}
      /\ \A p \in active : (\A q \in active : p <= q) =>
           LET vbr == i.disk[table[p].lba * SectorSize + 1]
           IN  /\ i.place # 0 => vbr.magic
               /\ vbr.magic => KernelOn(i, vbr.bpb)
               /\ i.place = 1 =>
                    /\ "bpb" \in DOMAIN vbr /\ vbr.bpb.hidden = table[p].lba
                    /\ ListedOn(i, vbr.bpb)

ASSUME InstallationsAssumption == \A i \in Installations : IsKernel(i.kernel) /\ IsDrive(i)

-----------------------------------------------------------------------------
(* Properties                                                              *)

(* The segments of kernel.elf that are to be loaded, as the file has them. *)
Header == installed.kernel[1]
Segments == {Header.phdrs[i] : i \in {j \in DOMAIN Header.phdrs : Header.phdrs[j].type = "PT_LOAD"}}

(* The copy loop of stage2 (stage2.asm:602) takes one byte too many of a   *)
(* segment that has none in the file.                                      *)
AllInFile == \A s \in Segments : s.filesz > 0

(* A kernel that is started is all there: its segments are what the file   *)
(* has, followed by zeros, and it starts at its entry point. One that does *)
(* not fit the segment at 0x40000 (stage2.asm:197) is never started.       *)
KernelInPlace ==
  pc = "kernel" /\ AllInFile =>
    /\ kernel_entry_point = Header.entry
    /\ \A s \in Segments, k \in 0 .. MemSize :
         k < s.memsz => memory[s.paddr + k] =
           IF k < s.filesz THEN installed.kernel[s.offset + k + 1] ELSE Zero

Multiple(n, size) == \E q \in 1 .. SegmentSize : n = q * size

(* The inductive invariant for it. Of j clusters that have been loaded the *)
(* memory holds the kernel's cells, until they wrap: after that there is   *)
(* no file header where it must be.                                        *)
Loaded(j) ==
  /\ bx \in Nat /\ bx + ClusterSize <= SegmentSize
  /\ Multiple(SegmentSize - bx, ClusterSize)
  /\ j * ClusterSize < SegmentSize => bx = j * ClusterSize
  /\ j * ClusterSize = SegmentSize => bx = 0
  /\ j * ClusterSize <= SegmentSize =>
       \A a \in 0 .. (Len(installed.kernel) - 1) :
         a < j * ClusterSize => temp[a] = installed.kernel[a + 1]
  /\ j * ClusterSize > SegmentSize => ~IsElf(temp[0])

(* The first n program headers have been looked at.                        *)
Relocates(n) ==
  /\ kernel_entry_point = Header.entry
  /\ AllInFile =>
       \A p \in 1 .. n : Header.phdrs[p].type = "PT_LOAD" =>
         LET s == Header.phdrs[p]
         IN  \A k \in 0 .. MemSize : k < s.memsz => memory[s.paddr + k] =
               IF k < s.filesz THEN installed.kernel[s.offset + k + 1] ELSE Zero

ImageInv ==
  /\ installed \in Installations
  /\ DOMAIN temp = 0 .. (TempSize - 1) /\ DOMAIN memory = 0 .. (MemSize - 1)
  /\ pc \in {"reset", "stage2", "mmap", "find", "load", "next", "elf"} => KernelOn(installed, bpb)
  /\ pc = "find" => cluster = bpb.root_cluster
  /\ pc = "load" =>
       \E j \in 1 .. Len(installed.chain) : cluster = installed.chain[j] /\ Loaded(j - 1)
  /\ pc = "next" =>
       \E j \in 1 .. Len(installed.chain) : cluster = installed.chain[j] /\ Loaded(j)
  /\ pc = "elf" => Loaded(Len(installed.chain))
  /\ pc = "segment" =>
       /\ phdr \in 1 .. Len(Header.phdrs) /\ Relocates(phdr - 1)
       /\ \A a \in 0 .. (Len(installed.kernel) - 1) : temp[a] = installed.kernel[a + 1]
  /\ pc = "kernel" => Relocates(Len(Header.phdrs))

(* The drive has an active partition with a boot sector, the kernel is     *)
(* listed in the first cluster of its root directory (the comment at       *)
(* stage2.asm:148 assumes so), the low half of the number of the kernel's  *)
(* first cluster is not 0, and the kernel fits the segment.                *)
Bootable ==
  /\ installed.place = 1
  /\ installed.chain[1] % WordSize # 0
  /\ Len(installed.kernel) <= SegmentSize

(* The BIOS tells which memory may not be used in an answer of 24 bytes.   *)
(* stage2.asm:440 says it checks that, but looks at the length instead.    *)
ToIgnore(answer) == answer.size = 24 /\ ~answer.valid
IgnoredIsSkipped == \A i \in DOMAIN mmap_desc : ~ToIgnore(mmap_desc[i])

=============================================================================
