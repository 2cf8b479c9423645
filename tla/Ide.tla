-------------------------------- MODULE Ide ---------------------------------
(***************************************************************************)
(* drivers/ide.c: the probe of the two drives and the polled transfer of   *)
(* sectors, against drives that answer when and what they like. The unit   *)
(* of data is the sector. A look at the status register is a step.         *)
(***************************************************************************)
EXTENDS Integers

CONSTANTS
  Kinds,       \* what may be attached: "none", "ata", "atapi"
  Lbas,        \* sectors of a drive, 0 .. n
  Counts,      \* the sector counts callers ask for
  Timeout      \* 50 ticks

ASSUME IdeAssumption ==
  /\ Kinds \subseteq {"none", "ata", "atapi"}
  /\ Lbas \subseteq Nat /\ \A l \in Lbas : 0 .. l \subseteq Lbas
  /\ Counts \subseteq Nat \ {0} /\ \E n \in Counts : \A m \in Counts : m <= n
  /\ Timeout \in Nat

Drives == 0 .. 1

VARIABLES
  drives,          \* drives[d] = 1: d was found
  pc,
  drive, lba, num_sectors, buffer, writing, \* the call's arguments, and which call it is
  sector,          \* s, the loop variable
  interrupts,      \* the interrupt flag of the CPU
  elapsed,         \* timer_get_ticks() - start_ticks, counted up to Timeout + 1
  result,          \* what the last call returned
  \* The drives:
  kind, phase, disk,
  todo             \* the command the drive works on: next LBA, sectors left, data to store

args    == <<drive, lba, num_sectors, writing>>
driver  == <<drives, pc, args, buffer, sector, interrupts, elapsed, result>>
devices == <<kind, phase, disk, todo>>
vars == <<driver, devices>>

Todo(w, l, n, store) == [write |-> w, lba |-> l, left |-> n, store |-> store]
None == Todo(FALSE, 0, 0, {})

(* The sectors of a new disk all differ, and from what is written.         *)
Original(d, l) == <<"disk", d, l>>
Written(k) == <<"new", k, k>>
NoData == <<"none", 0, 0>>
MaxCount == CHOOSE n \in Counts : \A m \in Counts : m <= n
Blank == [k \in 0 .. (MaxCount - 1) |-> NoData]

Init ==
  /\ drives = [d \in Drives |-> 0]
  /\ pc = "probe"
  /\ drive = 0 /\ lba = 0 /\ num_sectors = 0 /\ buffer = Blank /\ writing = FALSE
  /\ sector = 0 /\ interrupts = TRUE /\ elapsed = 0 /\ result = 0
  /\ kind \in [Drives -> Kinds]
  /\ phase = [d \in Drives |-> "ready"]
  /\ disk = [d \in Drives |-> [l \in Lbas |-> Original(d, l)]]
  /\ todo = [d \in Drives |-> None]

-----------------------------------------------------------------------------
(* The drives (external). A drive has BSY set while it works on a command, *)
(* then DRQ when it wants to transfer a sector, or ERR or DF, which stay   *)
(* set until the next command. DRDY is set unless BSY is.                  *)

BSY(d)  == phase[d] = "busy"
DRQ(d)  == phase[d] = "drq"
ERR(d)  == phase[d] = "err"
DF(d)   == phase[d] = "fault"
DRDY(d) == ~BSY(d)

Accept(d, command) ==
  /\ phase' = [phase EXCEPT ![d] = "busy"]
  /\ todo' = [todo EXCEPT ![d] = command]
  /\ UNCHANGED <<kind, disk>>

(* The drive is done with a sector: it stores what it got, and wants the   *)
(* next one, or the command has ended.                                     *)
Answer(d) ==
  /\ BSY(d)
  /\ \/ phase' = [phase EXCEPT ![d] = IF todo[d].left > 0 THEN "drq" ELSE "ready"]
        /\ disk' = [disk EXCEPT ![d] = [l \in Lbas |->
             IF \E v \in todo[d].store : v[1] = l
             THEN (CHOOSE v \in todo[d].store : v[1] = l)[2] ELSE disk[d][l]]]
     \/ \E fails \in {"err", "fault"} : phase' = [phase EXCEPT ![d] = fails] /\ UNCHANGED disk
  /\ todo' = [todo EXCEPT ![d] = Todo(@.write, @.lba, @.left, {})]
  /\ UNCHANGED <<driver, kind>>

(* What the data register gives: a sector, if the drive has one ready.     *)
Data(d) == IF DRQ(d) THEN disk[d][todo[d].lba] ELSE NoData

(* A sector goes from or to the drive.                                     *)
Transferred(d, store) ==
  /\ todo' = [todo EXCEPT ![d] = Todo(@.write, @.lba + 1, @.left - 1, store)]
  /\ phase' = [phase EXCEPT ![d] = IF store = {} /\ todo[d].left = 1 THEN "ready" ELSE "busy"]
  /\ UNCHANGED <<kind, disk>>

(* The timer interrupt (pit.c), if it is let through.                      *)
Tick ==
  /\ interrupts
  /\ pc \in {"probe busy", "ready?", "write?", "done?"}
  /\ elapsed <= Timeout
  /\ elapsed' = elapsed + 1
  /\ UNCHANGED <<drives, pc, args, buffer, sector, interrupts, result, devices>>

-----------------------------------------------------------------------------
(* ide_init, with interrupts on                                            *)

(* Definitions named ...Slip are the one that follows with a mistake in it;*)
(* the properties are checked to notice it.                                *)

NextDrive ==
  /\ pc' = IF drive = 0 THEN "probe" ELSE "idle"
  /\ drive' = 1 - drive
  /\ UNCHANGED <<lba, num_sectors, buffer, writing, sector, interrupts, elapsed, result>>

Probe ==
  /\ pc = "probe"
  /\ \/ kind[drive] = "none" /\ NextDrive /\ UNCHANGED <<drives, devices>>
     \/ /\ kind[drive] # "none"
        /\ pc' = "probe busy"
        /\ Accept(drive, Todo(FALSE, 0, 1, {}))
        /\ elapsed' = 0
        /\ UNCHANGED <<drives, args, buffer, sector, interrupts, result>>

(* LBA_MID and LBA_HIGH are not zero: not an ATA drive.                    *)
ProbeBusy ==
  /\ pc = "probe busy"
  /\ \/ /\ BSY(drive) /\ elapsed > Timeout
        /\ pc' = "halted"
        /\ UNCHANGED <<args, buffer, sector, interrupts, elapsed, result>>
     \/ ~BSY(drive) /\ kind[drive] = "atapi" /\ NextDrive
     \/ /\ ~BSY(drive) /\ kind[drive] = "ata"
        /\ pc' = "probe drq"
        /\ UNCHANGED <<args, buffer, sector, interrupts, elapsed, result>>
  /\ UNCHANGED <<drives, devices>>

Identify ==
  /\ pc = "probe drq"
  /\ \/ /\ DRQ(drive)
        /\ Transferred(drive, {})
        /\ drives' = [drives EXCEPT ![drive] = 1]
     \/ ERR(drive) /\ UNCHANGED <<drives, devices>>
  /\ NextDrive

-----------------------------------------------------------------------------
(* ide_read_sectors and ide_write_sectors                                  *)

(* The call returns; the interrupt flag is as it was when it came.         *)
Return(r) ==
  /\ pc' = "idle" /\ result' = r
  /\ interrupts' = TRUE
  /\ UNCHANGED <<drives, args, elapsed>>

FailSlip ==
  /\ pc' = "idle" /\ result' = -1
  /\ UNCHANGED <<drives, args, elapsed, interrupts, buffer, sector, devices>>
Fail == Return(-1) /\ UNCHANGED <<buffer, sector, devices>>

(* A call for a drive that was not found returns at once, and changes      *)
(* nothing but the result. Else the drive is selected.                     *)
Call(d, l, n, w) ==
  /\ pc = "idle"
  /\ drive' = d /\ lba' = l /\ num_sectors' = n /\ writing' = w
  /\ buffer' = IF w THEN [k \in 0 .. (MaxCount - 1) |-> Written(k)] ELSE Blank
  /\ sector' = 0 /\ elapsed' = 0
  /\ \/ drives[d] = 0 /\ result' = -1 /\ UNCHANGED <<pc, interrupts>>
     \/ drives[d] = 1 /\ pc' = "ready?" /\ interrupts' = FALSE /\ UNCHANGED result
  /\ UNCHANGED <<drives, devices>>

(* ide_wait_for_ready: a drive with ERR or DF set, by an earlier command   *)
(* too, is refused, and one that is busy for too many ticks.               *)
Refused == ERR(drive) \/ DF(drive) \/ (BSY(drive) /\ elapsed > Timeout)
Ready   == DRDY(drive) /\ ~Refused

(* LBA and count are sent, then the command.                               *)
CommandNoLbaSlip ==
  /\ pc = "ready?" /\ Ready
  /\ pc' = IF writing THEN "write?" ELSE "read?"
  /\ elapsed' = 0
  /\ Accept(drive, Todo(writing, 0, num_sectors, {}))
  /\ UNCHANGED <<drives, args, buffer, sector, interrupts, result>>
Command ==
  /\ pc = "ready?" /\ Ready
  /\ pc' = IF writing THEN "write?" ELSE "read?"
  /\ elapsed' = 0
  /\ Accept(drive, Todo(writing, lba, num_sectors, {}))
  /\ UNCHANGED <<drives, args, buffer, sector, interrupts, result>>

(* A sector is read as soon as DRQ is set. There is no timeout, and DF is  *)
(* not looked at.                                                          *)
ReadSectorSlip ==
  /\ pc = "read?" /\ ~ERR(drive)
  /\ buffer' = [buffer EXCEPT ![sector] = Data(drive)]
  /\ sector' = sector + 1
  /\ Transferred(drive, {})
  /\ \/ sector' < num_sectors /\ UNCHANGED <<drives, pc, args, interrupts, elapsed, result>>
     \/ sector' = num_sectors /\ Return(0)
ReadSector ==
  /\ pc = "read?" /\ DRQ(drive)
  /\ buffer' = [buffer EXCEPT ![sector] = Data(drive)]
  /\ sector' = sector + 1
  /\ Transferred(drive, {})
  /\ \/ sector' < num_sectors /\ UNCHANGED <<drives, pc, args, interrupts, elapsed, result>>
     \/ sector' = num_sectors /\ Return(0)

(* A sector is written when ide_wait_for_drq sees DRQ.                     *)
WriteSector ==
  /\ pc = "write?" /\ DRQ(drive)
  /\ Transferred(drive, {<<todo[drive].lba, buffer[sector]>>})
  /\ sector' = sector + 1
  /\ pc' = IF sector' < num_sectors THEN "write?" ELSE "done?"
  /\ elapsed' = 0
  /\ UNCHANGED <<drives, args, buffer, interrupts, result>>

(* After the last sector the drive must be ready again.                    *)
WriteDoneSlip ==
  /\ pc = "done?"
  /\ Return(0)
  /\ UNCHANGED <<buffer, sector, devices>>
WriteDone ==
  /\ pc = "done?" /\ Ready
  /\ Return(0)
  /\ UNCHANGED <<buffer, sector, devices>>

(* The failures of a call.                                                 *)
GiveUp ==
  /\ \/ pc \in {"ready?", "write?", "done?"} /\ Refused
     \/ pc = "read?" /\ ERR(drive)
  /\ Fail

Driver ==
  \/ Probe \/ ProbeBusy \/ Identify
  \/ Command \/ ReadSector \/ WriteSector \/ WriteDone \/ GiveUp

Next ==
  \/ Driver \/ Tick
  \/ \E d \in Drives, l \in Lbas, n \in Counts, w \in BOOLEAN : l + n - 1 \in Lbas /\ Call(d, l, n, w)
  \/ \E d \in Drives : Answer(d)

Spec == Init /\ [][Next]_vars

(* The CPU polls on and the timer ticks, whatever the drives do.           *)
DriverFairSpec == Spec /\ WF_vars(Driver) /\ WF_vars(Tick)

(* And the drives come to an answer.                                       *)
FairSpec == DriverFairSpec /\ \A d \in Drives : WF_vars(Answer(d))

-----------------------------------------------------------------------------
(* Properties                                                              *)

(* What a sector may hold, and what a drive may have been told to do.      *)
Contents ==
  {Original(d, l) : d \in Drives, l \in Lbas} \cup {Written(k) : k \in 0 .. (MaxCount - 1)} \cup {NoData}

Commands == [write : BOOLEAN, lba : Nat, left : Int, store : SUBSET (Nat \X Contents)]

(* Every variable has its type.                                            *)
TypeOK ==
  /\ drives \in [Drives -> {0, 1}]
  /\ pc \in {"probe", "probe busy", "probe drq", "halted", "idle", "ready?", "read?", "write?", "done?"}
  /\ drive \in Drives /\ lba \in Nat /\ num_sectors \in Nat /\ writing \in BOOLEAN
  /\ buffer \in [0 .. (MaxCount - 1) -> Contents] /\ sector \in Nat
  /\ interrupts \in BOOLEAN /\ elapsed \in Nat /\ result \in {0, -1}
  /\ kind \in [Drives -> Kinds]
  /\ phase \in [Drives -> {"ready", "busy", "drq", "err", "fault"}]
  /\ disk \in [Drives -> [Lbas -> Contents]]
  /\ todo \in [Drives -> Commands]

(* A read that returns 0 has filled the buffer with the sectors asked for, *)
(* in their order.                                                         *)
ReadsRight ==
  pc = "idle" /\ result = 0 /\ ~writing =>
    \A k \in 0 .. (num_sectors - 1) : buffer[k] = disk[drive][lba + k]

(* When a write returns 0 all its sectors are on the disk (ide.c:337-339). *)
WritesRight ==
  pc = "idle" /\ result = 0 /\ writing =>
    \A k \in 0 .. (num_sectors - 1) : disk[drive][lba + k] = buffer[k]

(* No call, not even one that fails half way, changes a sector other than  *)
(* those a write of it names.                                              *)
OnlyTheTarget ==
  [][\A d \in Drives, l \in Lbas : disk'[d][l] # disk[d][l] =>
       writing /\ d = drive /\ l \in lba .. (lba + num_sectors - 1)]_vars

(* Where a call is, and what has gone over between it and its drive. The   *)
(* drive has what is left in todo, and only a drive at work on a write may *)
(* still store a sector, the last it was sent.                             *)
InCall == pc \in {"ready?", "read?", "write?", "done?"}

Asked ==
  /\ num_sectors = 0 \/ (num_sectors \in Counts /\ lba + num_sectors - 1 \in Lbas)
  /\ InCall => num_sectors > 0 /\ interrupts = FALSE
  /\ interrupts = FALSE => elapsed = 0 /\ InCall
  /\ pc = "ready?" => sector = 0
  /\ pc = "read?" => writing = FALSE /\ sector < num_sectors
  /\ pc = "write?" => writing = TRUE /\ sector < num_sectors
  /\ pc = "done?" => writing = TRUE /\ sector = num_sectors
  /\ pc \in {"probe", "probe busy", "probe drq"} => num_sectors = 0

Sent == <<lba + sector - 1, buffer[sector - 1]>>
Pending == pc \in {"write?", "done?"} /\ sector > 0 /\ BSY(drive)

InStep ==
  /\ pc \in {"read?", "write?", "done?"} => todo[drive].lba = lba + sector
  /\ \A d \in Drives : todo[d].store = {} \/ (d = drive /\ Pending /\ todo[d].store = {Sent})

SectorsRead == pc = "read?" => \A k \in 0 .. (sector - 1) : buffer[k] = disk[drive][lba + k]

SectorsWritten ==
  pc \in {"write?", "done?"} /\ ~ERR(drive) /\ ~DF(drive) =>
    \A k \in 0 .. (sector - 1) :
      disk[drive][lba + k] = buffer[k] \/ (k = sector - 1 /\ BSY(drive) /\ todo[drive].store = {Sent})

IdeInv ==
  TypeOK /\ Asked /\ InStep /\ SectorsRead /\ SectorsWritten /\ ReadsRight /\ WritesRight

(* With drives that answer, every call returns, with interrupts on again   *)
(* on each of its ways out, unless the drive reports a fault in the middle *)
(* of a read.                                                              *)
CallsReturn ==
  interrupts = FALSE ~> (pc = "idle" /\ interrupts) \/ (pc = "read?" /\ DF(drive))

(* "50 ticks = approx 500ms" (ide.c:153): ide_wait_for_ready does not wait *)
(* for a drive for ever, here one that does not get done with a write.     *)
TimesOut == pc = "done?" ~> pc # "done?"

=============================================================================
