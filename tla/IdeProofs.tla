------------------------------ MODULE IdeProofs ------------------------------
(***************************************************************************)
(* What a transfer that returns 0 has done, and what no transfer does, for *)
(* drives of any size, any counts of sectors and any timeout, whenever and *)
(* however the drives answer.                                              *)
(***************************************************************************)
EXTENDS Ide, TLAPS

LEMMA MaxCountType ==
  MaxCount \in Nat /\ \A n \in Counts : n \in Nat \ {0} /\ n <= MaxCount
  BY IdeAssumption DEF MaxCount

LEMMA Numbers ==
  ASSUME TypeOK
  PROVE  /\ drive \in Drives /\ lba \in Nat /\ num_sectors \in Nat /\ sector \in Nat
         /\ elapsed \in Nat
  BY DEF TypeOK

(* The sectors of a call are on the drive.                                 *)
LEMMA SectorsExist ==
  ASSUME TypeOK, Asked
  PROVE  /\ \A k \in 0 .. (num_sectors - 1) : lba + k \in Lbas
         /\ InCall => sector <= num_sectors /\ num_sectors <= MaxCount /\ num_sectors \in Nat \ {0}
<1>0. num_sectors = 0 \/ (num_sectors \in Counts /\ lba + num_sectors - 1 \in Lbas)
  BY DEF Asked
<1>1. ASSUME NEW k \in 0 .. (num_sectors - 1) PROVE lba + k \in Lbas
  <2>1. lba + num_sectors - 1 \in Nat /\ lba + num_sectors - 1 \in Lbas
    BY <1>0, <1>1, Numbers, IdeAssumption
  <2>2. lba + k \in 0 .. (lba + num_sectors - 1)
    BY <2>1, Numbers
  <2> QED  BY <2>1, <2>2, IdeAssumption
<1>2. ASSUME InCall
      PROVE  sector <= num_sectors /\ num_sectors <= MaxCount /\ num_sectors \in Nat \ {0}
  <2>1. num_sectors > 0
    BY <1>2 DEF Asked
  <2>2. sector = 0 \/ sector < num_sectors \/ sector = num_sectors
    BY <1>2 DEF Asked, InCall
  <2> QED  BY <1>0, <2>1, <2>2, Numbers, MaxCountType
<1> QED  BY <1>1, <1>2

LEMMA ContentsType ==
  /\ NoData \in Contents
  /\ \A d \in Drives, l \in Lbas : Original(d, l) \in Contents
  /\ Blank \in [0 .. (MaxCount - 1) -> Contents]
  /\ [k \in 0 .. (MaxCount - 1) |-> Written(k)] \in [0 .. (MaxCount - 1) -> Contents]
  BY DEF Contents, Blank

LEMMA CommandType ==
  /\ \A w \in BOOLEAN, l \in Nat, n \in Int, store \in SUBSET (Nat \X Contents) :
       Todo(w, l, n, store) \in Commands /\ Todo(w, l, n, store).lba = l
       /\ Todo(w, l, n, store).left = n /\ Todo(w, l, n, store).store = store
  /\ None \in Commands /\ None.store = {}
  /\ Todo(FALSE, 0, 1, {}) \in Commands /\ Todo(FALSE, 0, 1, {}).store = {}
  /\ \A c \in Commands : c.write \in BOOLEAN /\ c.lba \in Nat /\ c.left \in Int
                         /\ c.store \in SUBSET (Nat \X Contents)
  BY DEF None, Todo, Commands

LEMMA InitKeepsIde == Init => IdeInv
<1> SUFFICES ASSUME Init PROVE IdeInv
  OBVIOUS
<1>1. TypeOK
  <2>1. todo \in [Drives -> Commands] /\ disk \in [Drives -> [Lbas -> Contents]]
    BY ContentsType, CommandType DEF Init
  <2>2. buffer \in [0 .. (MaxCount - 1) -> Contents]
    BY ContentsType DEF Init
  <2>3. phase \in [Drives -> {"ready", "busy", "drq", "err", "fault"}] /\ drives \in [Drives -> {0, 1}]
    BY DEF Init
  <2>4. /\ drive \in Drives /\ lba \in Nat /\ num_sectors \in Nat /\ sector \in Nat
        /\ elapsed \in Nat /\ result \in {0, -1}
    BY DEF Init, Drives
  <2>5. pc = "probe" /\ writing \in BOOLEAN /\ interrupts \in BOOLEAN /\ kind \in [Drives -> Kinds]
    BY DEF Init
  <2> QED  BY <2>1, <2>2, <2>3, <2>4, <2>5 DEF TypeOK
<1>2. Asked /\ SectorsRead /\ SectorsWritten /\ ReadsRight /\ WritesRight
  BY DEF Init, Asked, InCall, SectorsRead, SectorsWritten, ReadsRight, WritesRight
<1>3. InStep
  BY CommandType DEF Init, InStep
<1> QED  BY <1>1, <1>2, <1>3 DEF IdeInv

-----------------------------------------------------------------------------
(* The drives and the timer                                                *)

(* A drive that stores a sector stores the one it was sent last.           *)
LEMMA AnswerStores ==
  ASSUME IdeInv, NEW d \in Drives, Answer(d), NEW e \in Drives, NEW l \in Lbas
  PROVE  /\ disk'[e][l] # disk[e][l] =>
              /\ e = d /\ d = drive /\ Pending /\ todo[d].store = {Sent} /\ l = lba + sector - 1
         /\ e = d /\ phase'[d] \notin {"err", "fault"} /\ todo[d].store = {Sent} /\ l = lba + sector - 1
              => disk'[e][l] = buffer[sector - 1]
<1>1. CASE disk' = disk /\ phase' \in {[phase EXCEPT ![d] = "err"], [phase EXCEPT ![d] = "fault"]}
  BY <1>1 DEF IdeInv, TypeOK
<1>2. CASE /\ disk' = [disk EXCEPT ![d] = [m \in Lbas |->
                IF \E v \in todo[d].store : v[1] = m
                THEN (CHOOSE v \in todo[d].store : v[1] = m)[2] ELSE disk[d][m]]]
  <2>1. disk'[e][l] = IF e = d /\ \E v \in todo[d].store : v[1] = l
                      THEN (CHOOSE v \in todo[d].store : v[1] = l)[2] ELSE disk[e][l]
    BY <1>2 DEF IdeInv, TypeOK
  <2>2. CASE todo[d].store = {}
    BY <2>1, <2>2 DEF Sent
  <2>3. CASE d = drive /\ Pending /\ todo[d].store = {Sent}
    <3>1. Sent[1] = lba + sector - 1 /\ Sent[2] = buffer[sector - 1]
      BY DEF Sent
    <3>2. (CHOOSE v \in {Sent} : v[1] = Sent[1]) = Sent
      OBVIOUS
    <3>3. CASE l = Sent[1]
      BY <2>1, <2>3, <3>1, <3>2, <3>3
    <3>4. CASE l # Sent[1]
      BY <2>1, <2>3, <3>1, <3>4
    <3> QED  BY <3>3, <3>4
  <2> QED  BY <2>2, <2>3 DEF IdeInv, InStep
<1> QED  BY <1>1, <1>2 DEF Answer

LEMMA AnswerKeeps == ASSUME IdeInv, NEW d \in Drives, Answer(d) PROVE IdeInv'
<1> USE DEF IdeInv
<1>1. /\ UNCHANGED <<driver, kind>> /\ BSY(d)
      /\ todo' = [todo EXCEPT ![d] = Todo(@.write, @.lba, @.left, {})]
      /\ \E p \in {"ready", "drq", "err", "fault"} : phase' = [phase EXCEPT ![d] = p]
  BY DEF Answer
<1>2. todo'[d].store = {} /\ todo'[d].lba = todo[d].lba /\ todo'[d] \in Commands
      /\ \A e \in Drives : e # d => todo'[e] = todo[e]
  <2>1. d \in Drives /\ todo \in [Drives -> Commands]
    BY DEF TypeOK
  <2>2. todo'[d] = Todo(todo[d].write, todo[d].lba, todo[d].left, {})
        /\ \A e \in Drives : e # d => todo'[e] = todo[e]
    BY <1>1, <2>1
  <2> QED  BY <2>1, <2>2, CommandType
<1>3. phase'[d] # "busy" /\ \A e \in Drives : e # d => phase'[e] = phase[e]
  BY <1>1 DEF TypeOK
<1>4. TypeOK'
  <2>1. disk' \in [Drives -> [Lbas -> Contents]]
    <3>1. CASE UNCHANGED disk
      BY <3>1 DEF TypeOK
    <3>2. CASE disk' = [disk EXCEPT ![d] = [m \in Lbas |->
                 IF \E v \in todo[d].store : v[1] = m
                 THEN (CHOOSE v \in todo[d].store : v[1] = m)[2] ELSE disk[d][m]]]
      <4>1. ASSUME NEW m \in Lbas, \E v \in todo[d].store : v[1] = m
            PROVE  (CHOOSE v \in todo[d].store : v[1] = m)[2] \in Contents
        <5>1. todo[d].store \subseteq Nat \X Contents
          BY CommandType DEF TypeOK
        <5> QED  BY <4>1, <5>1
      <4> QED  BY <3>2, <4>1 DEF TypeOK
    <3> QED  BY <3>1, <3>2 DEF Answer
  <2>2. phase' \in [Drives -> {"ready", "busy", "drq", "err", "fault"}]
    BY <1>1 DEF TypeOK
  <2>3. todo' \in [Drives -> Commands]
    BY <1>1, <1>2 DEF TypeOK
  <2> QED  BY <1>1, <2>1, <2>2, <2>3 DEF TypeOK, driver, args
<1>5. Asked'
  BY <1>1 DEF Asked, InCall, driver, args
<1>6. InStep'
  <2>1. UNCHANGED <<pc, drive, lba, sector, Sent>>
    BY <1>1 DEF driver, args, Sent
  <2>2. \A e \in Drives : e # d => (BSY(e)' <=> BSY(e))
    BY <1>3 DEF BSY
  <2> QED  BY <1>2, <2>1, <2>2 DEF InStep, Pending, TypeOK
<1>7. SectorsRead' /\ ReadsRight'
  <2>1. UNCHANGED <<pc, drive, lba, sector, buffer, writing, num_sectors, result>>
    BY <1>1 DEF driver, args
  <2>2. pc \in {"idle", "read?"} => \A e \in Drives, l \in Lbas : disk'[e][l] = disk[e][l]
    BY AnswerStores DEF Pending
  <2>3. /\ \A k \in 0 .. (num_sectors - 1) : lba + k \in Lbas
        /\ pc = "read?" => sector <= num_sectors
    BY SectorsExist DEF InCall
  <2>4. SectorsRead'
    BY <2>1, <2>2, <2>3 DEF SectorsRead, TypeOK
  <2>5. ReadsRight'
    BY <2>1, <2>2, <2>3 DEF ReadsRight, TypeOK
  <2> QED  BY <2>4, <2>5
<1>8. WritesRight'
  <2>1. UNCHANGED <<pc, drive, lba, buffer, writing, num_sectors, result>>
    BY <1>1 DEF driver, args
  <2>2. pc = "idle" => \A e \in Drives, l \in Lbas : disk'[e][l] = disk[e][l]
    BY AnswerStores DEF Pending
  <2>3. \A k \in 0 .. (num_sectors - 1) : lba + k \in Lbas
    BY SectorsExist
  <2> QED  BY <2>1, <2>2, <2>3 DEF WritesRight, TypeOK
<1>9. SectorsWritten'
  <2>1. UNCHANGED <<pc, drive, lba, sector, buffer, Sent>>
    BY <1>1 DEF driver, args, Sent
  <2> SUFFICES ASSUME pc \in {"write?", "done?"}, ~ERR(drive)', ~DF(drive)',
                      NEW k \in 0 .. (sector - 1)
               PROVE  \/ disk'[drive][lba + k] = buffer[k]
                      \/ k = sector - 1 /\ BSY(drive)' /\ todo'[drive].store = {Sent}
    BY <2>1 DEF SectorsWritten
  <2>2. lba + k \in Lbas
    BY SectorsExist, Numbers DEF InCall
  <2>3. CASE d = drive
    <3>1. \/ disk[drive][lba + k] = buffer[k]
          \/ k = sector - 1 /\ todo[drive].store = {Sent}
      BY <1>1, <2>3 DEF SectorsWritten, BSY, ERR, DF
    <3>2. phase'[d] \notin {"err", "fault"}
      BY <2>1, <2>3 DEF ERR, DF
    <3>3. CASE k = sector - 1 /\ todo[drive].store = {Sent}
      <4>1. lba + k = lba + sector - 1
        BY <3>3, Numbers
      <4> QED  BY <2>2, <2>3, <3>2, <3>3, <4>1, AnswerStores, Numbers
    <3>4. CASE disk[drive][lba + k] = buffer[k] /\ ~(k = sector - 1 /\ todo[drive].store = {Sent})
      <4>1. disk'[drive][lba + k] # disk[drive][lba + k] =>
              todo[drive].store = {Sent} /\ lba + k = lba + sector - 1
        BY <2>2, <2>3, AnswerStores, Numbers
      <4>2. lba + k = lba + sector - 1 => k = sector - 1
        BY Numbers
      <4> QED  BY <3>4, <4>1, <4>2
    <3> QED  BY <3>1, <3>3, <3>4
  <2>4. CASE d # drive
    <3>1. disk'[drive][lba + k] = disk[drive][lba + k]
      BY <2>2, <2>4, AnswerStores, Numbers
    <3>2. phase'[drive] = phase[drive] /\ todo'[drive] = todo[drive]
      BY <1>2, <1>3, <2>4 DEF TypeOK
    <3> QED  BY <2>1, <3>1, <3>2 DEF SectorsWritten, BSY, ERR, DF
  <2> QED  BY <2>3, <2>4
<1> QED  BY <1>4, <1>5, <1>6, <1>7, <1>8, <1>9

-----------------------------------------------------------------------------
(* The driver                                                              *)

LEMMA Accepted ==
  ASSUME TypeOK, NEW c \in Commands, Accept(drive, c)
  PROVE  /\ todo' \in [Drives -> Commands] /\ todo'[drive] = c
         /\ \A d \in Drives : d # drive => todo'[d] = todo[d]
         /\ phase' \in [Drives -> {"ready", "busy", "drq", "err", "fault"}] /\ phase'[drive] = "busy"
         /\ UNCHANGED <<kind, disk>>
  BY DEF Accept, TypeOK

LEMMA SectorGone ==
  ASSUME TypeOK, NEW store \in SUBSET (Nat \X Contents), Transferred(drive, store)
  PROVE  /\ todo' \in [Drives -> Commands]
         /\ todo'[drive].lba = todo[drive].lba + 1 /\ todo'[drive].store = store
         /\ \A d \in Drives : d # drive => todo'[d] = todo[d]
         /\ phase' \in [Drives -> {"ready", "busy", "drq", "err", "fault"}]
         /\ phase'[drive] = IF store = {} /\ todo[drive].left = 1 THEN "ready" ELSE "busy"
         /\ UNCHANGED <<kind, disk>>
<1>1. drive \in Drives /\ todo \in [Drives -> Commands]
      /\ phase \in [Drives -> {"ready", "busy", "drq", "err", "fault"}]
  BY DEF TypeOK
<1>2. Todo(todo[drive].write, todo[drive].lba + 1, todo[drive].left - 1, store) \in Commands
      /\ Todo(todo[drive].write, todo[drive].lba + 1, todo[drive].left - 1, store).lba = todo[drive].lba + 1
      /\ Todo(todo[drive].write, todo[drive].lba + 1, todo[drive].left - 1, store).store = store
  BY <1>1, CommandType
<1>3. todo' = [todo EXCEPT ![drive] = Todo(todo[drive].write, todo[drive].lba + 1, todo[drive].left - 1, store)]
  BY DEF Transferred
<1>4. phase' = [phase EXCEPT ![drive] = IF store = {} /\ todo[drive].left = 1 THEN "ready" ELSE "busy"]
      /\ UNCHANGED <<kind, disk>>
  BY DEF Transferred
<1> QED  BY <1>1, <1>2, <1>3, <1>4

(* Except in a write, no drive has anything to store.                      *)
LEMMA NothingPending ==
  ASSUME IdeInv, pc \notin {"write?", "done?"}
  PROVE  \A d \in Drives : todo[d].store = {}
  BY DEF IdeInv, InStep, Pending

LEMMA TickKeeps == ASSUME IdeInv, Tick PROVE IdeInv'
<1>1. elapsed' \in Nat
  <2>1. elapsed \in Nat /\ elapsed' = elapsed + 1
    BY Numbers DEF IdeInv, Tick
  <2> QED  BY <2>1
<1> USE DEF IdeInv, Tick
<1>2. TypeOK'
  BY <1>1 DEF TypeOK, args, devices
<1>3. Asked'
  BY DEF Asked, InCall, args
<1>4. InStep'
  BY DEF InStep, Pending, Sent, BSY, args, devices
<1>5. SectorsRead' /\ SectorsWritten' /\ ReadsRight' /\ WritesRight'
  BY DEF SectorsRead, SectorsWritten, ReadsRight, WritesRight, Sent, BSY, ERR, DF, args, devices
<1> QED  BY <1>2, <1>3, <1>4, <1>5

(* The probe goes on to the next drive, or ends.                           *)
LEMMA NextDriveType ==
  ASSUME TypeOK, NextDrive
  PROVE  pc' \in {"probe", "idle"} /\ drive' \in Drives
  BY Numbers DEF NextDrive, Drives

LEMMA ProbeKeeps == ASSUME IdeInv, Probe \/ ProbeBusy \/ Identify PROVE IdeInv'
<1> USE DEF IdeInv
<1>1. pc \in {"probe", "probe busy", "probe drq"}
      /\ pc' \in {"probe", "probe busy", "probe drq", "halted", "idle"}
  BY NextDriveType DEF Probe, ProbeBusy, Identify
<1>2. UNCHANGED <<lba, num_sectors, buffer, writing, sector, interrupts, result, disk, kind>>
  BY SectorGone DEF Probe, ProbeBusy, Identify, NextDrive, Accept, Transferred, devices, args
<1>3. drive' \in Drives /\ elapsed' \in Nat
  <2>1. drive' = drive \/ NextDrive
    BY DEF Probe, ProbeBusy, Identify, args
  <2>2. elapsed' = elapsed \/ elapsed' = 0
    BY DEF Probe, ProbeBusy, Identify, NextDrive
  <2> QED  BY <2>1, <2>2, Numbers, NextDriveType
<1>4. /\ todo' \in [Drives -> Commands]
      /\ phase' \in [Drives -> {"ready", "busy", "drq", "err", "fault"}]
      /\ \A d \in Drives : todo'[d].store = {}
  <2>1. \A d \in Drives : todo[d].store = {}
    BY <1>1, NothingPending
  <2>2. CASE UNCHANGED <<todo, phase>>
    BY <2>1, <2>2 DEF TypeOK
  <2>3. CASE Accept(drive, Todo(FALSE, 0, 1, {}))
    <3>1. Todo(FALSE, 0, 1, {}) \in Commands /\ Todo(FALSE, 0, 1, {}).store = {}
      BY CommandType
    <3> QED  BY <2>1, <2>3, <3>1, Accepted
  <2>4. CASE Transferred(drive, {})
    BY <2>1, <2>4, SectorGone
  <2> QED  BY <2>2, <2>3, <2>4 DEF Probe, ProbeBusy, Identify, devices
<1>5. drives' \in [Drives -> {0, 1}]
  BY DEF Probe, ProbeBusy, Identify, TypeOK
<1>6. TypeOK'
  BY <1>1, <1>2, <1>3, <1>4, <1>5 DEF TypeOK
<1>7. Asked'
  BY <1>1, <1>2 DEF Asked, InCall
<1>8. InStep' /\ SectorsRead' /\ SectorsWritten'
  BY <1>1, <1>4 DEF InStep, Pending, SectorsRead, SectorsWritten
<1>9. ReadsRight' /\ WritesRight'
  <2>1. num_sectors' = 0
    BY <1>1, <1>2 DEF Asked
  <2> QED  BY <2>1 DEF ReadsRight, WritesRight
<1> QED  BY <1>6, <1>7, <1>8, <1>9

LEMMA CallKeeps ==
  ASSUME IdeInv, NEW d \in Drives, NEW l \in Lbas, NEW n \in Counts, NEW w \in BOOLEAN,
         l + n - 1 \in Lbas, Call(d, l, n, w)
  PROVE  IdeInv'
<1>1. /\ pc = "idle" /\ drive' = d /\ lba' = l /\ num_sectors' = n /\ writing' = w
      /\ sector' = 0 /\ elapsed' = 0 /\ UNCHANGED <<drives, kind, phase, disk, todo>>
  BY DEF Call, devices
<1>2. l \in Nat /\ n \in Nat \ {0}
  BY IdeAssumption
<1>3. \/ pc' = "idle" /\ result' = -1 /\ UNCHANGED interrupts
      \/ pc' = "ready?" /\ interrupts' = FALSE /\ UNCHANGED result
  BY <1>1 DEF Call
<1>4. buffer' \in [0 .. (MaxCount - 1) -> Contents]
  BY ContentsType DEF Call
<1>5. TypeOK'
  BY <1>1, <1>2, <1>3, <1>4 DEF IdeInv, TypeOK
<1>6. Asked'
  <2>1. CASE pc' = "ready?" /\ interrupts' = FALSE
    BY <1>1, <1>2, <2>1 DEF Asked, InCall
  <2>2. CASE pc' = "idle" /\ UNCHANGED interrupts
    <3>1. interrupts # FALSE
      BY <1>1 DEF IdeInv, Asked, InCall
    <3> QED  BY <1>1, <1>2, <2>2, <3>1 DEF Asked, InCall
  <2> QED  BY <1>3, <2>1, <2>2
<1>7. InStep'
  BY <1>1, <1>3, NothingPending DEF InStep
<1>8. SectorsRead' /\ SectorsWritten' /\ ReadsRight' /\ WritesRight'
  BY <1>3 DEF SectorsRead, SectorsWritten, ReadsRight, WritesRight
<1> QED  BY <1>5, <1>6, <1>7, <1>8 DEF IdeInv

LEMMA CommandKeeps == ASSUME IdeInv, Command PROVE IdeInv'
<1>1. /\ pc = "ready?" /\ elapsed' = 0
      /\ Accept(drive, Todo(writing, lba, num_sectors, {}))
      /\ UNCHANGED <<drives, drive, lba, num_sectors, writing, buffer, sector, interrupts, result>>
      /\ \/ pc' = "write?" /\ writing = TRUE
         \/ pc' = "read?" /\ writing = FALSE
  BY DEF Command, args, IdeInv, TypeOK
<1>2. Todo(writing, lba, num_sectors, {}) \in Commands
      /\ Todo(writing, lba, num_sectors, {}).lba = lba /\ Todo(writing, lba, num_sectors, {}).store = {}
  <2>1. writing \in BOOLEAN
    BY DEF IdeInv, TypeOK
  <2> QED  BY <2>1, Numbers, CommandType DEF IdeInv
<1>3. /\ todo' \in [Drives -> Commands]
      /\ todo'[drive].lba = lba /\ \A d \in Drives : todo'[d].store = {}
      /\ phase' \in [Drives -> {"ready", "busy", "drq", "err", "fault"}]
      /\ UNCHANGED <<kind, disk>>
  BY <1>1, <1>2, Accepted, NothingPending DEF IdeInv
<1>4. sector = 0 /\ num_sectors > 0 /\ interrupts = FALSE
  BY <1>1 DEF IdeInv, Asked, InCall
<1>5. TypeOK'
  BY <1>1, <1>3 DEF IdeInv, TypeOK
<1>6. Asked'
  BY <1>1, <1>4 DEF IdeInv, Asked, InCall
<1>7. InStep'
  BY <1>1, <1>3, <1>4, Numbers DEF IdeInv, InStep
<1>8. SectorsRead' /\ SectorsWritten' /\ ReadsRight' /\ WritesRight'
  BY <1>1, <1>4 DEF SectorsRead, SectorsWritten, ReadsRight, WritesRight
<1> QED  BY <1>5, <1>6, <1>7, <1>8 DEF IdeInv

(* The ways out of a call: nothing is left to store.                       *)
LEMMA GiveUpKeeps == ASSUME IdeInv, GiveUp PROVE IdeInv'
<1>1. /\ InCall /\ pc' = "idle" /\ result' = -1 /\ interrupts' = TRUE
      /\ UNCHANGED <<drives, args, elapsed, buffer, sector, devices>>
  BY DEF GiveUp, Fail, Return, InCall
<1>2. TypeOK'
  BY <1>1 DEF IdeInv, TypeOK, args, devices
<1>3. Asked'
  BY <1>1 DEF IdeInv, Asked, InCall, args
<1>4. \A d \in Drives : todo[d].store = {}
  <2>1. pc \in {"write?", "done?"} => ~BSY(drive)
    <3>1. elapsed = 0
      BY <1>1 DEF IdeInv, Asked
    <3>2. ~(elapsed > Timeout)
      BY <3>1, IdeAssumption
    <3> QED  BY <3>2 DEF GiveUp, Refused, ERR, DF, BSY
  <2> QED  BY <2>1 DEF IdeInv, InStep, Pending
<1>5. InStep'
  BY <1>1, <1>4 DEF InStep, devices
<1>6. SectorsRead' /\ SectorsWritten' /\ ReadsRight' /\ WritesRight'
  BY <1>1 DEF SectorsRead, SectorsWritten, ReadsRight, WritesRight
<1> QED  BY <1>2, <1>3, <1>5, <1>6 DEF IdeInv

LEMMA WriteDoneKeeps == ASSUME IdeInv, WriteDone PROVE IdeInv'
<1>1. /\ pc = "done?" /\ pc' = "idle" /\ result' = 0 /\ interrupts' = TRUE
      /\ UNCHANGED <<drives, drive, lba, num_sectors, writing, elapsed, buffer, sector, devices>>
  BY DEF WriteDone, Return, args
<1>2. ~BSY(drive) /\ ~ERR(drive) /\ ~DF(drive)
  BY DEF WriteDone, Ready, Refused, DRDY
<1>3. TypeOK'
  BY <1>1 DEF IdeInv, TypeOK, devices
<1>4. Asked'
  BY <1>1 DEF IdeInv, Asked, InCall
<1>5. InStep'
  BY <1>1, <1>2 DEF IdeInv, InStep, Pending, devices
<1>6. SectorsRead' /\ SectorsWritten'
  BY <1>1 DEF SectorsRead, SectorsWritten
<1>7. ReadsRight' /\ WritesRight'
  BY <1>1, <1>2 DEF IdeInv, Asked, SectorsWritten, ReadsRight, WritesRight, devices
<1> QED  BY <1>3, <1>4, <1>5, <1>6, <1>7 DEF IdeInv

LEMMA ReadSectorKeeps == ASSUME IdeInv, ReadSector PROVE IdeInv'
<1>1. /\ pc = "read?" /\ DRQ(drive) /\ writing = FALSE /\ sector < num_sectors
      /\ todo[drive].lba = lba + sector /\ interrupts = FALSE
      /\ num_sectors \in Nat \ {0} /\ num_sectors <= MaxCount /\ lba + sector \in Lbas
  <2>1. sector \in 0 .. (num_sectors - 1)
    BY Numbers DEF IdeInv, ReadSector, Asked
  <2> QED  BY <2>1, SectorsExist DEF IdeInv, ReadSector, Asked, InCall, InStep
<1>2. /\ buffer' = [buffer EXCEPT ![sector] = disk[drive][lba + sector]]
      /\ sector' = sector + 1 /\ UNCHANGED <<drives, drive, lba, num_sectors, writing, elapsed>>
      /\ \/ sector' < num_sectors /\ UNCHANGED <<pc, interrupts, result>>
         \/ sector' = num_sectors /\ pc' = "idle" /\ interrupts' = TRUE /\ result' = 0
  BY <1>1 DEF ReadSector, Data, Return, args
<1>3. /\ todo' \in [Drives -> Commands] /\ todo'[drive].lba = lba + sector + 1
      /\ \A d \in Drives : todo'[d].store = {}
      /\ phase' \in [Drives -> {"ready", "busy", "drq", "err", "fault"}]
      /\ UNCHANGED <<kind, disk>>
  <2>1. Transferred(drive, {}) /\ {} \in SUBSET (Nat \X Contents)
    BY DEF ReadSector
  <2> QED  BY <1>1, <2>1, SectorGone, NothingPending DEF IdeInv
<1>4. /\ \A k \in 0 .. sector : buffer'[k] = disk[drive][lba + k]
      /\ buffer' \in [0 .. (MaxCount - 1) -> Contents]
  <2>1. sector \in 0 .. (MaxCount - 1)
    BY <1>1, Numbers, MaxCountType DEF IdeInv
  <2>2. buffer \in [0 .. (MaxCount - 1) -> Contents] /\ disk[drive][lba + sector] \in Contents
    BY <1>1 DEF IdeInv, TypeOK
  <2>3. \A k \in 0 .. (sector - 1) : buffer[k] = disk[drive][lba + k] /\ k \in 0 .. (MaxCount - 1)
    BY <1>1, <2>1, MaxCountType DEF IdeInv, SectorsRead
  <2>4. \A k \in 0 .. sector : k = sector \/ k \in 0 .. (sector - 1)
    BY <2>1, MaxCountType
  <2> QED  BY <1>2, <2>1, <2>2, <2>3, <2>4
<1>5. sector' \in Nat /\ sector = sector' - 1
  BY <1>2, Numbers DEF IdeInv
<1>6. TypeOK'
  BY <1>1, <1>2, <1>3, <1>4, <1>5 DEF IdeInv, TypeOK
<1>7. Asked'
  BY <1>1, <1>2 DEF IdeInv, Asked, InCall
<1>8. InStep'
  <2>1. todo'[drive].lba = lba' + sector'
    BY <1>2, <1>3, Numbers DEF IdeInv
  <2> QED  BY <1>1, <1>2, <1>3, <2>1 DEF InStep
<1>9. SectorsRead' /\ SectorsWritten'
  BY <1>1, <1>2, <1>3, <1>4, <1>5 DEF SectorsRead, SectorsWritten
<1>10. ReadsRight' /\ WritesRight'
  BY <1>1, <1>2, <1>3, <1>4, <1>5 DEF ReadsRight, WritesRight
<1> QED  BY <1>6, <1>7, <1>8, <1>9, <1>10 DEF IdeInv

LEMMA WriteSectorKeeps == ASSUME IdeInv, WriteSector PROVE IdeInv'
<1>1. /\ pc = "write?" /\ DRQ(drive) /\ writing = TRUE /\ sector < num_sectors
      /\ todo[drive].lba = lba + sector /\ interrupts = FALSE
      /\ num_sectors \in Nat \ {0} /\ num_sectors <= MaxCount
  BY SectorsExist DEF IdeInv, WriteSector, Asked, InCall, InStep
<1>2. /\ Transferred(drive, {<<lba + sector, buffer[sector]>>})
      /\ sector' = sector + 1 /\ elapsed' = 0
      /\ \/ sector' < num_sectors /\ pc' = "write?"
         \/ sector' = num_sectors /\ pc' = "done?"
      /\ UNCHANGED <<drives, drive, lba, num_sectors, writing, buffer, interrupts, result>>
  <2>1. sector \in Nat /\ num_sectors \in Nat
    BY Numbers DEF IdeInv
  <2> QED  BY <1>1, <2>1 DEF WriteSector, args
<1>3. sector' \in Nat /\ sector = sector' - 1 /\ sector' > 0 /\ lba + sector \in Nat
      /\ lba' + sector' - 1 = lba + sector
  BY <1>2, Numbers DEF IdeInv
<1>4. Sent' = <<lba + sector, buffer[sector]>>
  BY <1>2, <1>3 DEF Sent
<1>5. /\ todo' \in [Drives -> Commands] /\ todo'[drive].lba = lba' + sector'
      /\ todo'[drive].store = {Sent'}
      /\ \A d \in Drives : d # drive => todo'[d].store = {}
      /\ phase' \in [Drives -> {"ready", "busy", "drq", "err", "fault"}]
      /\ phase'[drive] = "busy"
      /\ UNCHANGED <<kind, disk>>
  <2>1. sector \in 0 .. (MaxCount - 1)
    BY <1>1, Numbers, MaxCountType DEF IdeInv
  <2>2. buffer[sector] \in Contents
    BY <2>1 DEF IdeInv, TypeOK
  <2>3. {<<lba + sector, buffer[sector]>>} \in SUBSET (Nat \X Contents)
    BY <1>3, <2>2
  <2>4. todo'[drive].lba = lba + sector + 1
    BY <1>1, <1>2, <2>3, SectorGone DEF IdeInv
  <2>5. todo'[drive].lba = lba' + sector'
    BY <1>2, <2>4, Numbers DEF IdeInv
  <2>6. \A d \in Drives : d # drive => todo[d].store = {}
    BY DEF IdeInv, InStep
  <2>7. {<<lba + sector, buffer[sector]>>} # {}
    OBVIOUS
  <2> QED  BY <1>2, <1>4, <2>3, <2>5, <2>6, <2>7, SectorGone DEF IdeInv
<1>6. TypeOK'
  BY <1>1, <1>2, <1>3, <1>5 DEF IdeInv, TypeOK
<1>7. Asked'
  BY <1>1, <1>2 DEF IdeInv, Asked, InCall
<1>8. InStep'
  BY <1>2, <1>3, <1>5 DEF InStep, Pending, BSY
<1>9. SectorsWritten'
  <2>1. \A k \in 0 .. (sector - 1) : disk[drive][lba + k] = buffer[k]
    BY <1>1 DEF IdeInv, SectorsWritten, DRQ, BSY, ERR, DF
  <2>2. \A k \in 0 .. sector : k = sector \/ k \in 0 .. (sector - 1)
    BY Numbers DEF IdeInv
  <2> QED  BY <1>2, <1>3, <1>5, <2>1, <2>2 DEF SectorsWritten, BSY
<1>10. SectorsRead' /\ ReadsRight' /\ WritesRight'
  BY <1>2 DEF SectorsRead, ReadsRight, WritesRight
<1> QED  BY <1>6, <1>7, <1>8, <1>9, <1>10 DEF IdeInv

LEMMA StepKeepsIde == IdeInv /\ [Next]_vars => IdeInv'
<1> SUFFICES ASSUME IdeInv, [Next]_vars PROVE IdeInv'
  OBVIOUS
<1>1. CASE Probe \/ ProbeBusy \/ Identify
  BY <1>1, ProbeKeeps
<1>2. CASE Command
  BY <1>2, CommandKeeps
<1>3. CASE ReadSector
  BY <1>3, ReadSectorKeeps
<1>4. CASE WriteSector
  BY <1>4, WriteSectorKeeps
<1>5. CASE WriteDone
  BY <1>5, WriteDoneKeeps
<1>6. CASE GiveUp
  BY <1>6, GiveUpKeeps
<1>7. CASE Tick
  BY <1>7, TickKeeps
<1>8. CASE \E d \in Drives, l \in Lbas, n \in Counts, w \in BOOLEAN :
             l + n - 1 \in Lbas /\ Call(d, l, n, w)
  BY <1>8, CallKeeps
<1>9. CASE \E d \in Drives : Answer(d)
  BY <1>9, AnswerKeeps
<1>10. CASE UNCHANGED vars
  BY <1>10 DEF vars, driver, args, devices, IdeInv, TypeOK, Asked, InCall, InStep, Pending, Sent,
    SectorsRead, SectorsWritten, ReadsRight, WritesRight, BSY, ERR, DF
<1> QED  BY <1>1, <1>2, <1>3, <1>4, <1>5, <1>6, <1>7, <1>8, <1>9, <1>10 DEF Next, Driver

-----------------------------------------------------------------------------

(* The inductive invariant: where a call and its drive are with each other *)
(* (ide.c:178-346).                                                        *)
THEOREM IdeInvariant == Spec => []IdeInv
  BY InitKeepsIde, StepKeepsIde, PTL DEF Spec

(* A read that returns 0 has filled the buffer with the sectors asked for. *)
THEOREM IdeReadsRight == Spec => []ReadsRight
<1>1. IdeInv => ReadsRight
  BY DEF IdeInv
<1> QED  BY <1>1, IdeInvariant, PTL

(* When a write returns 0 all its sectors are on the disk.                 *)
THEOREM IdeWritesRight == Spec => []WritesRight
<1>1. IdeInv => WritesRight
  BY DEF IdeInv
<1> QED  BY <1>1, IdeInvariant, PTL

(* Only a write changes a disk, and only where it was asked to.            *)
THEOREM IdeOnlyTheTarget == Spec => OnlyTheTarget
<1> DEFINE Target ==
      \A d \in Drives, l \in Lbas : disk'[d][l] # disk[d][l] =>
        writing /\ d = drive /\ l \in lba .. (lba + num_sectors - 1)
<1>1. IdeInv /\ [Next]_vars => [Target]_vars
  <2> SUFFICES ASSUME IdeInv, Next PROVE Target
    OBVIOUS
  <2>1. CASE \E d \in Drives : Answer(d)
    <3> SUFFICES ASSUME NEW e \in Drives, Answer(e), NEW d \in Drives, NEW l \in Lbas,
                        disk'[d][l] # disk[d][l]
                 PROVE  writing /\ d = drive /\ l \in lba .. (lba + num_sectors - 1)
      BY <2>1
    <3>1. d = drive /\ Pending /\ l = lba + sector - 1
      BY AnswerStores
    <3>2. writing /\ sector > 0 /\ sector <= num_sectors
      BY <3>1, SectorsExist DEF IdeInv, Pending, Asked, InCall
    <3>3. l \in lba .. (lba + num_sectors - 1)
      BY <3>1, <3>2, Numbers DEF IdeInv
    <3> QED  BY <3>1, <3>2, <3>3
  <2>2. CASE ~\E d \in Drives : Answer(d)
    <3>1. UNCHANGED disk
      BY <2>2 DEF Next, Driver, Probe, ProbeBusy, Identify, Command, ReadSector, WriteSector,
        WriteDone, GiveUp, Fail, Tick, Call, Accept, Transferred, devices
    <3> QED  BY <3>1
  <2> QED  BY <2>1, <2>2
<1> QED  BY <1>1, IdeInvariant, PTL DEF Spec, OnlyTheTarget

=============================================================================
