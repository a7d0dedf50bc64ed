----------------------------- MODULE DiskProofs -----------------------------
(***************************************************************************)
(* The IDE driver, and what the ext2 reader finds on the disk: inodes and  *)
(* the bytes of files.  For every drive, request, file and layout.         *)
(***************************************************************************)
EXTENDS Ide, Ext2Data, Ext2Inodes, TLAPS

\* Places of the driver between the command it has written and its return.
Working == {"identified", "drq", "transfer", "written", "flush", "flushed"}

Sectors == {"old", "new", "none"} \X Int \X Int
Still(d) == ~d.bsy /\ ~d.drq

Drive ==
  [bsy : BOOLEAN, drq : BOOLEAN, err : BOOLEAN, lba : Int, left : Int, data : Sectors,
   op : {"none", "identify", "read", "write", "flush"}]

IdeTypes ==
  /\ present \subseteq Drives /\ selected \in Drives
  /\ exists \in [Drives -> BOOLEAN] /\ \A d \in Drives : exists[d] => d \in present
  /\ drives \in [Drives -> Drive]
  /\ disk \in [Drives -> [LBAs -> Sectors]]
  /\ ipc \in Working \cup {"idle", "start", "command"}
  /\ call \in [op : {"identify", "read", "write"}, drive : Drives, lba : LBAs, count : Nat]
  /\ done \in Nat
  /\ call.op = "identify" => call.count = 1
  /\ call.op # "identify" /\ call.count > 0 => call.lba + call.count - 1 \in LBAs
  /\ ipc # "idle" => call.count > 0 /\ call.drive \in present
  /\ ipc \in {"start", "command"} =>
       exists[call.drive] /\ done = 0 /\ buffer = <<>> /\ call.op # "identify"

\* What ATA says of a drive's bits.
DriveOK(d) ==
  /\ ~(d.bsy /\ d.drq)
  /\ d.err => Still(d)
  /\ d.data # NoData => d.bsy

\* Of the sectors to write, the first n are on the disk.
StoredUpTo(n) == \A k \in 0..(n - 1) : disk[call.drive][call.lba + k] = Payload(k)

\* The drive is where the driver takes it to be.
InStep(d, n) == d.lba = call.lba + n /\ d.left = call.count - n

\* The drive d that was commanded, and the driver.
Serving(d) ==
  /\ d.op = IF ipc = "flushed" THEN "flush" ELSE call.op
  /\ ipc = "identified" => call.op = "identify"
  /\ ipc \in {"written", "flush", "flushed"} => call.op = "write"
  /\ ipc \in {"identified", "drq", "transfer"} =>
       /\ done < call.count /\ d.data = NoData
       /\ ~d.err => InStep(d, done) /\ (call.op = "write" => StoredUpTo(done))
  /\ ipc = "transfer" => d.drq
  /\ ipc = "written" =>
       /\ done > 0 /\ done <= call.count
       /\ d.bsy => d.data = Payload(done - 1) /\ InStep(d, done - 1)
       /\ ~d.bsy /\ ~d.err => InStep(d, done) /\ StoredUpTo(done)
       /\ d.drq => done < call.count
  /\ ipc = "flush" => Still(d)
  /\ ipc = "flushed" => ~d.drq /\ d.data = NoData
  /\ ipc \in {"flush", "flushed"} => done = call.count
  /\ ipc \in {"written", "flush", "flushed"} => StoredUpTo(done - 1)

\* The call that is being made, or was made last.
Exchange ==
  /\ buffer \in Seq(Sectors)
  /\ ipc \notin Working => \A d \in Drives : Still(drives[d])
  /\ ipc \in Working =>
       /\ selected = call.drive
       /\ \A d \in Drives \ {call.drive} : Still(drives[d])
       /\ Serving(drives[call.drive])
  /\ call.op = "read" /\ (ipc \in Working \/ (ipc = "idle" /\ rc = 0)) =>
       /\ Len(buffer) = done
       /\ \A k \in 1..done : buffer[k] = disk[call.drive][call.lba + k - 1]
  /\ call.op = "read" /\ ipc = "idle" /\ rc = 0 => done = call.count
  /\ WriteStored

IdeInv ==
  /\ IdeTypes
  /\ \A d \in Drives : DriveOK(drives[d])
  /\ ~late => Exchange

\* The three answers of a drive, field by field.
LEMMA AnswerFields ==
  ASSUME IdeTypes, NEW d \in Drives, drive_answers(d)
  PROVE  /\ drives' \in [Drives -> Drive] /\ drives[d].bsy /\ ~drives'[d].bsy
         /\ \A e \in Drives \ {d} : drives'[e] = drives[e]
         /\ drives'[d].op = drives[d].op /\ drives'[d].data = NoData
         /\ \/ /\ drives'[d].err /\ drives'[d].drq = drives[d].drq /\ disk' = disk
            \/ /\ drives[d].data = NoData /\ drives'[d].drq = (drives[d].op # "flush")
               /\ drives'[d].err = drives[d].err
               /\ drives'[d].lba = drives[d].lba /\ drives'[d].left = drives[d].left
               /\ disk' = disk
            \/ /\ drives[d].data # NoData /\ drives'[d].drq = (drives[d].left > 1)
               /\ drives'[d].err = drives[d].err
               /\ drives'[d].lba = drives[d].lba + 1 /\ drives'[d].left = drives[d].left - 1
               /\ disk' = [disk EXCEPT ![d][drives[d].lba] = drives[d].data]
<1>1. drives \in [Drives -> Drive] /\ drives[d] \in Drive /\ NoData \in Sectors
  <2>1. NoData \in Sectors
    BY DEF NoData, Sectors
  <2>2. QED
    BY <2>1 DEF IdeTypes
<1>2. CASE /\ drives' = [drives EXCEPT ![d].bsy = FALSE, ![d].err = TRUE, ![d].left = 0,
                                       ![d].data = NoData]
           /\ UNCHANGED disk
  <2>0. PICK n \in Int : n = 0
    OBVIOUS
  <2> DEFINE r == [drives[d] EXCEPT !.bsy = FALSE, !.err = TRUE, !.left = n, !.data = NoData]
  <2>1. r \in Drive /\ ~r.bsy /\ r.err /\ r.drq = drives[d].drq /\ r.op = drives[d].op
        /\ r.data = NoData
    BY <1>1, Zenon DEF Drive
  <2>2. drives' = [drives EXCEPT ![d] = r]
    BY <1>1, <1>2, <2>0, Zenon DEF Drive
  <2> HIDE DEF r
  <2>3. drives'[d] = r /\ \A e \in Drives \ {d} : drives'[e] = drives[e]
    BY <1>1, <2>2
  <2>4. drives' \in [Drives -> Drive]
    BY <1>1, <2>1, <2>2
  <2>5. QED
    BY <1>2, <2>1, <2>3, <2>4 DEF drive_answers
<1>3. CASE /\ drives[d].data = NoData
           /\ drives' = [drives EXCEPT ![d].bsy = FALSE, ![d].drq = (drives[d].op # "flush")]
           /\ UNCHANGED disk
  <2> DEFINE r == [drives[d] EXCEPT !.bsy = FALSE, !.drq = (drives[d].op # "flush")]
  <2>1. r \in Drive /\ ~r.bsy /\ r.err = drives[d].err /\ r.drq = (drives[d].op # "flush")
        /\ r.op = drives[d].op /\ r.data = drives[d].data
        /\ r.lba = drives[d].lba /\ r.left = drives[d].left
    BY <1>1, Zenon DEF Drive
  <2>2. drives' = [drives EXCEPT ![d] = r]
    BY <1>1, <1>3, Zenon DEF Drive
  <2> HIDE DEF r
  <2>3. drives'[d] = r /\ \A e \in Drives \ {d} : drives'[e] = drives[e]
    BY <1>1, <2>2
  <2>4. drives' \in [Drives -> Drive]
    BY <1>1, <2>1, <2>2
  <2>5. QED
    BY <1>3, <2>1, <2>3, <2>4 DEF drive_answers
<1>4. CASE /\ drives[d].data # NoData
           /\ drives' = [drives EXCEPT ![d].bsy = FALSE, ![d].drq = (drives[d].left > 1),
                                       ![d].lba = @ + 1, ![d].left = @ - 1, ![d].data = NoData]
           /\ disk' = [disk EXCEPT ![d][drives[d].lba] = drives[d].data]
  <2>8. drives[d].lba \in Int /\ drives[d].left \in Int
    BY <1>1, Zenon DEF Drive
  <2>0. PICK lba \in Int, left \in Int : lba = drives[d].lba + 1 /\ left = drives[d].left - 1
    BY <2>8
  <2>9. PICK more \in BOOLEAN : more = (drives[d].left > 1)
    <3>1. CASE drives[d].left > 1
      BY <3>1, Zenon
    <3>2. CASE ~(drives[d].left > 1)
      <4>1. FALSE = (drives[d].left > 1)
        BY <2>8, <3>2
      <4>2. QED
        BY <4>1, Zenon
    <3>3. QED
      BY <3>1, <3>2
  <2> DEFINE r == [drives[d] EXCEPT !.bsy = FALSE, !.drq = more, !.lba = lba, !.left = left,
                                    !.data = NoData]
  <2>1. r \in Drive /\ ~r.bsy /\ r.err = drives[d].err /\ r.drq = more
        /\ r.op = drives[d].op /\ r.data = NoData /\ r.lba = lba /\ r.left = left
    BY <1>1, Zenon DEF Drive
  <2>2. drives' = [drives EXCEPT ![d] = r]
    BY <1>1, <1>4, <2>0, <2>9 DEF Drive
  <2> HIDE DEF r
  <2>3. drives'[d] = r /\ \A e \in Drives \ {d} : drives'[e] = drives[e]
    BY <1>1, <2>2
  <2>4. drives' \in [Drives -> Drive]
    BY <1>1, <2>1, <2>2
  <2>6. drives[d].bsy
    BY DEF drive_answers
  <2>7. drives'[d].drq = (drives[d].left > 1) /\ drives'[d].lba = drives[d].lba + 1
        /\ drives'[d].left = drives[d].left - 1
    BY <2>0, <2>1, <2>3, <2>9
  <2>5. QED
    BY <1>4, <2>1, <2>3, <2>4, <2>6, <2>7, Zenon
<1>5. QED
  BY <1>2, <1>3, <1>4, Zenon DEF drive_answers

\* A drive's answer keeps the bits sound and the data typed.
LEMMA AnswerTypes ==
  ASSUME IdeTypes, \A e \in Drives : DriveOK(drives[e]), NEW d \in Drives, drive_answers(d)
  PROVE  IdeTypes' /\ \A e \in Drives : DriveOK(drives[e])'
<1>1. disk' \in [Drives -> [LBAs -> Sectors]]
  <2>1. disk \in [Drives -> [LBAs -> Sectors]] /\ drives[d].data \in Sectors
    BY DEF IdeTypes, Drive
  <2>2. disk' = disk \/ disk' = [disk EXCEPT ![d][drives[d].lba] = drives[d].data]
    BY AnswerFields
  <2>3. QED
    BY <2>1, <2>2
<1>2. IdeTypes'
  BY <1>1, AnswerFields, Zenon DEF IdeTypes, drive_answers
<1>3. DriveOK(drives[d])'
  BY AnswerFields DEF DriveOK, Still
<1>4. QED
  BY <1>2, <1>3, AnswerFields

\* The arguments of the call.
LEMMA CallTypes ==
  ASSUME IdeTypes
  PROVE  /\ call.drive \in Drives /\ call.lba \in LBAs /\ call.lba \in Int /\ call.count \in Nat
         /\ call.op \in {"identify", "read", "write"} /\ done \in Nat
<1>1. call.drive \in Drives /\ call.lba \in LBAs /\ call.count \in Nat /\ done \in Nat
      /\ call.op \in {"identify", "read", "write"}
  BY DEF IdeTypes
<1>2. LBAs \subseteq Int
  BY IdeAssumption
<1>3. QED
  BY <1>1, <1>2, Zenon

\* A step that does not end a write with success owes nothing about the sectors stored.
LEMMA NothingStored ==
  ASSUME ipc' # "idle" \/ call'.op # "write" \/ rc' # 0
  PROVE  WriteStored'
BY DEF WriteStored

\* Between the places of a call a drive's answer is one the driver expects.
LEMMA AnswerExchange ==
  ASSUME IdeInv, ~late, NEW d \in Drives, drive_answers(d)
  PROVE  Exchange'
<1>1. IdeTypes /\ Exchange /\ DriveOK(drives[d])
  BY DEF IdeInv
<1>2. ipc' = ipc /\ call' = call /\ done' = done /\ buffer' = buffer /\ rc' = rc
      /\ present' = present /\ selected' = selected
  BY DEF drive_answers
<1>3. drives[d].bsy /\ ~drives[d].drq /\ ~drives[d].err
  BY <1>1, AnswerFields DEF DriveOK, Still
<1>4. ipc \in Working /\ d = call.drive /\ Serving(drives[d])
      /\ selected = call.drive /\ \A e \in Drives \ {d} : Still(drives[e])
  BY <1>1, <1>3 DEF Exchange, Still
<1>5. ipc \in {"identified", "drq", "written", "flushed"}
  BY <1>3, <1>4 DEF Serving, Still, Working
<1>6. \A e \in Drives \ {d} : drives'[e] = drives[e]
  BY <1>1, AnswerFields
<1>7. call.drive \in Drives /\ call.lba \in LBAs /\ call.lba \in Int /\ call.count \in Nat
      /\ done \in Nat
  BY <1>1, CallTypes
<1>8. CASE ipc # "written"
  <2>1. drives[d].data = NoData /\ disk' = disk
    BY <1>1, <1>4, <1>5, <1>8, AnswerFields DEF Serving
  <2>2. Serving(drives[d])'
    <3>1. \/ drives'[d].err /\ ~drives'[d].drq
          \/ /\ drives'[d].lba = drives[d].lba /\ drives'[d].left = drives[d].left
             /\ drives'[d].drq = (drives[d].op # "flush") /\ ~drives'[d].err
      BY <1>1, <1>3, <2>1, AnswerFields
    <3>2. drives'[d].op = drives[d].op /\ drives'[d].data = NoData
      BY <1>1, AnswerFields
    <3>3. \A n : StoredUpTo(n)' <=> StoredUpTo(n)
      BY <1>2, <2>1 DEF StoredUpTo
    <3>4. QED
      BY <1>2, <1>3, <1>4, <1>5, <1>8, <3>1, <3>2, <3>3, Zenon DEF Serving, InStep
  <2>3. QED
    BY <1>1, <1>2, <1>4, <1>6, <2>1, <2>2, NothingStored DEF Exchange, Working
<1>9. CASE ipc = "written"
  <2>1. /\ call.op = "write" /\ done > 0 /\ done <= call.count
        /\ drives[d].data = Payload(done - 1) /\ InStep(drives[d], done - 1)
        /\ StoredUpTo(done - 1)
    BY <1>3, <1>4, <1>9 DEF Serving
  <2>2. drives[d].data # NoData
    BY <2>1 DEF Payload, NoData
  <2>3. \/ drives'[d].err /\ ~drives'[d].drq /\ disk' = disk
        \/ /\ drives'[d].drq = (drives[d].left > 1) /\ ~drives'[d].err
           /\ drives'[d].lba = drives[d].lba + 1 /\ drives'[d].left = drives[d].left - 1
           /\ disk' = [disk EXCEPT ![d][drives[d].lba] = drives[d].data]
    BY <1>1, <1>3, <2>2, AnswerFields
  <2>4. drives'[d].op = drives[d].op /\ ~drives'[d].bsy
    BY <1>1, AnswerFields
  <2>5. CASE drives'[d].err /\ ~drives'[d].drq /\ disk' = disk
    <3>1. StoredUpTo(done - 1)'
      BY <1>2, <2>1, <2>5 DEF StoredUpTo
    <3>2. Serving(drives[d])'
      BY <1>2, <1>4, <1>9, <2>1, <2>4, <2>5, <3>1 DEF Serving
    <3>3. QED
      BY <1>1, <1>2, <1>4, <1>6, <1>9, <2>1, <3>2, NothingStored DEF Exchange, Working
  <2>6. CASE /\ drives'[d].drq = (drives[d].left > 1) /\ ~drives'[d].err
             /\ drives'[d].lba = drives[d].lba + 1 /\ drives'[d].left = drives[d].left - 1
             /\ disk' = [disk EXCEPT ![d][drives[d].lba] = drives[d].data]
    <3>1. InStep(drives[d], done)' /\ (drives'[d].drq => done < call.count)
      <4>1. drives[d].lba = call.lba + (done - 1) /\ drives[d].left = call.count - (done - 1)
        BY <2>1 DEF InStep
      <4>2. drives'[d].drq => drives[d].left > 1
        BY <2>6, Zenon
      <4>3. drives'[d].lba = call.lba + done /\ drives'[d].left = call.count - done
        BY <1>7, <2>6, <4>1
      <4>4. drives'[d].drq => done < call.count
        BY <1>7, <4>1, <4>2
      <4>5. QED
        BY <1>2, <4>3, <4>4 DEF InStep
    <3>2. drives[d].lba = call.lba + (done - 1) /\ call.lba + (done - 1) \in LBAs
      <4>1. call.lba + call.count - 1 \in LBAs /\ call.lba \in LBAs
        BY <1>1, <1>7, <2>1 DEF IdeTypes
      <4>2. call.lba + (done - 1) \in call.lba..(call.lba + call.count - 1)
        BY <1>7, <2>1
      <4>3. QED
        BY <2>1, <4>1, <4>2, IdeAssumption, Zenon DEF InStep
    <3>3. disk \in [Drives -> [LBAs -> Sectors]]
      BY <1>1 DEF IdeTypes
    <3>4. \A k \in 0..(done - 1) : disk'[d][call.lba + k] = Payload(k)
      <4>1. SUFFICES ASSUME NEW k \in 0..(done - 1) PROVE disk'[d][call.lba + k] = Payload(k)
        OBVIOUS
      <4>2. CASE k = done - 1
        BY <2>1, <2>6, <3>2, <3>3, <4>2
      <4>3. CASE k # done - 1
        <5>1. k \in 0..(done - 1 - 1) /\ call.lba + k # call.lba + (done - 1)
          BY <1>7, <4>3
        <5>2. disk[d][call.lba + k] = Payload(k)
          BY <1>4, <2>1, <5>1 DEF StoredUpTo
        <5>3. QED
          BY <2>6, <3>2, <3>3, <5>1, <5>2
      <4>4. QED
        BY <4>2, <4>3
    <3>5. StoredUpTo(done)' /\ StoredUpTo(done - 1)'
      BY <1>2, <1>4, <1>7, <3>4 DEF StoredUpTo
    <3>6. Serving(drives[d])'
      BY <1>2, <1>4, <1>9, <2>1, <2>4, <2>6, <3>1, <3>5 DEF Serving
    <3>7. QED
      BY <1>1, <1>2, <1>4, <1>6, <1>9, <2>1, <3>6, NothingStored DEF Exchange, Working
  <2>7. QED
    BY <2>3, <2>5, <2>6
<1>10. QED
  BY <1>8, <1>9

\* A poll changes nothing but the place, the result and the history of time-outs.
LEMMA PollKinds ==
  ASSUME IdeInv, ide_wait_ready \/ ide_wait_drq
  PROVE  /\ UNCHANGED <<Device, done, buffer>>
         /\ ipc # "idle" /\ ipc' \in {"idle", ipc, "command", "drq", "flush", "transfer"}
         /\ ipc' = "command" => ipc = "start"
         /\ \/ late'
            \/ ipc' = ipc /\ rc' = rc
            \/ ipc = "start" /\ ipc' = "command"
            \/ ipc = "identified" /\ ipc' = "drq" /\ Rdy
            \/ ipc = "written" /\ ipc' = (IF done < call.count THEN "drq" ELSE "flush") /\ Rdy
            \/ ipc = "flushed" /\ ipc' = "idle" /\ rc' = 0 /\ Rdy
            \/ ipc = "drq" /\ ipc' = "transfer" /\ Drq
            \/ ipc = "drq" /\ ipc' = "idle" /\ rc' = -1 /\ Err
         /\ late => late'
<1>1. CASE ide_wait_drq
  BY <1>1 DEF ide_wait_drq, Continue, Return, PollAgain
<1>2. CASE ide_wait_ready /\ ipc = "start"
  BY <1>2 DEF ide_wait_ready, Continue, Return, PollAgain
<1>3. CASE ide_wait_ready /\ ipc = "identified"
  BY <1>3 DEF ide_wait_ready, Continue, Return, PollAgain
<1>4. CASE ide_wait_ready /\ ipc = "written"
  BY <1>4 DEF ide_wait_ready, Continue, Return, PollAgain
<1>5. CASE ide_wait_ready /\ ipc = "flushed"
  BY <1>5 DEF ide_wait_ready, Continue, Return, PollAgain
<1>6. ide_wait_ready => ipc \in {"start", "identified", "written", "flushed"}
  BY DEF ide_wait_ready
<1>7. QED
  BY <1>1, <1>2, <1>3, <1>4, <1>5, <1>6

\* The waits keep the invariant: what a wait ends with is what its place promises.
LEMMA PollStep ==
  ASSUME IdeInv, ide_wait_ready \/ ide_wait_drq
  PROVE  IdeInv'
<1>1. IdeTypes /\ \A d \in Drives : DriveOK(drives[d])
  BY DEF IdeInv
<1>2. /\ present' = present /\ exists' = exists /\ selected' = selected /\ drives' = drives
      /\ disk' = disk /\ call' = call /\ done' = done /\ buffer' = buffer
  BY PollKinds DEF Device
<1>3. IdeTypes'
  <2>1. ipc' \in Working \cup {"idle", "start", "command"}
    BY <1>1, PollKinds DEF IdeTypes, Working
  <2>2. ipc' \in {"start", "command"} => ipc \in {"start", "command"}
    BY PollKinds
  <2>3. ipc # "idle"
    BY PollKinds
  <2>4. QED
    BY <1>1, <1>2, <2>1, <2>2, <2>3 DEF IdeTypes
<1>4. \A d \in Drives : DriveOK(drives[d])'
  BY <1>1, <1>2 DEF DriveOK, Still
<1>5. ASSUME ~late' PROVE Exchange'
  <2>1. ~late /\ Exchange
    BY <1>5, PollKinds DEF IdeInv
  <2>2. \A n : StoredUpTo(n)' <=> StoredUpTo(n)
    BY <1>2 DEF StoredUpTo
  <2>3. call.drive \in Drives /\ call.count \in Nat /\ done \in Nat
    BY <1>1, CallTypes
  <2> DEFINE d == drives[call.drive]
  <2>4. DriveOK(d)
    BY <1>1, <2>3
  <2>5. CASE ipc' = ipc /\ rc' = rc
    <3>0. WriteStored
      BY <2>1 DEF Exchange
    <3>1. WriteStored'
      BY <1>2, <2>1, <2>5, <3>0 DEF WriteStored
    <3>2. Serving(d)' <=> Serving(d)
      BY <1>2, <2>2, <2>5 DEF Serving, InStep
    <3>3. QED
      BY <1>2, <1>5, <2>1, <2>5, <3>1, <3>2 DEF Exchange
  <2>6. CASE ipc = "start" /\ ipc' = "command"
    BY <1>2, <2>1, <2>6, NothingStored DEF Exchange, Working
  <2>7. CASE ipc \in Working
    <3>1. /\ selected = call.drive /\ Serving(d)
          /\ \A e \in Drives \ {call.drive} : Still(drives[e])
      BY <2>1, <2>7 DEF Exchange
    <3>2. CASE ipc = "identified" /\ ipc' = "drq" /\ Rdy
      <4>1. Serving(d)'
        BY <1>2, <2>2, <3>1, <3>2 DEF Serving, InStep
      <4>2. QED
        BY <1>2, <2>1, <3>1, <3>2, <4>1, NothingStored DEF Exchange, Working
    <3>3. CASE ipc = "written" /\ ipc' = (IF done < call.count THEN "drq" ELSE "flush") /\ Rdy
      <4>1. ~d.bsy /\ d.data = NoData
        BY <2>4, <3>1, <3>3 DEF Rdy, DriveOK
      <4>2. CASE done < call.count
        <5>1. Serving(d)'
          BY <1>2, <2>2, <3>1, <3>3, <4>1, <4>2 DEF Serving, InStep
        <5>2. QED
          BY <1>2, <2>1, <3>1, <3>3, <4>2, <5>1, NothingStored DEF Exchange, Working
      <4>3. CASE ~(done < call.count)
        <5>0. done <= call.count /\ (d.drq => done < call.count)
          BY <3>1, <3>3 DEF Serving
        <5>1. done = call.count /\ ~d.drq
          BY <2>3, <4>3, <5>0
        <5>2. Serving(d)'
          BY <1>2, <2>2, <3>1, <3>3, <4>1, <4>3, <5>1 DEF Serving, Still
        <5>3. QED
          BY <1>2, <2>1, <3>1, <3>3, <4>3, <5>2, NothingStored DEF Exchange, Working
      <4>4. QED
        BY <4>2, <4>3
    <3>4. CASE ipc = "flushed" /\ ipc' = "idle" /\ rc' = 0 /\ Rdy
      <4>1. Still(d)
        BY <3>1, <3>4 DEF Serving, Rdy, Still
      <4>2. call.op = "write" /\ StoredUpTo(call.count - 1)
        BY <3>1, <3>4 DEF Serving
      <4>3. \A k \in 0..(call.count - 2) : disk[call.drive][call.lba + k] = Payload(k)
        BY <2>3, <4>2 DEF StoredUpTo
      <4>4. QED
        BY <1>2, <2>1, <3>1, <3>4, <4>1, <4>2, <4>3 DEF Exchange, WriteStored, Working
    <3>5. CASE ipc = "drq" /\ ipc' = "transfer" /\ Drq
      <4>1. Serving(d)'
        BY <1>2, <2>2, <3>1, <3>5 DEF Serving, InStep, Drq
      <4>2. QED
        BY <1>2, <2>1, <3>1, <3>5, <4>1, NothingStored DEF Exchange, Working
    <3>6. CASE ipc = "drq" /\ ipc' = "idle" /\ rc' = -1 /\ Err
      <4>1. Still(d)
        BY <2>4, <3>1, <3>6 DEF Err, DriveOK
      <4>2. \A e \in Drives : Still(drives'[e])
        BY <1>2, <3>1, <4>1, Zenon
      <4>3. ipc' \notin Working /\ rc' # 0 /\ buffer' \in Seq(Sectors)
        BY <1>2, <2>1, <3>6 DEF Exchange, Working
      <4>4. WriteStored'
        BY <4>3, NothingStored
      <4>5. QED
        BY <4>2, <4>3, <4>4 DEF Exchange
    <3>7. QED
      BY <1>5, <2>5, <2>6, <3>2, <3>3, <3>4, <3>5, <3>6, PollKinds
  <2>8. CASE ipc \notin Working
    BY <1>5, <2>5, <2>6, <2>8, PollKinds DEF Working
  <2>9. QED
    BY <2>7, <2>8
<1>6. QED
  BY <1>3, <1>4, <1>5 DEF IdeInv

\* A command reaches a drive that is present and has nothing going on, and no other drive.
LEMMA CommandedFields ==
  ASSUME IdeInv, NEW d \in Drives, NEW op \in {"identify", "read", "write", "flush"},
         call'.lba \in Int, call'.count \in Int, drives' = Commanded(d, op)
  PROVE  /\ drives' \in [Drives -> Drive]
         /\ \A e \in Drives : DriveOK(drives'[e])
         /\ \A e \in Drives \ {d} : drives'[e] = drives[e]
         /\ d \notin present => drives' = drives
         /\ d \in present /\ Still(drives[d]) =>
              /\ drives'[d].bsy /\ ~drives'[d].drq /\ ~drives'[d].err /\ drives'[d].op = op
              /\ drives'[d].lba = call'.lba /\ drives'[d].left = call'.count
              /\ drives'[d].data = NoData
<1>1. drives \in [Drives -> Drive] /\ \A e \in Drives : DriveOK(drives[e])
  BY DEF IdeInv, IdeTypes
<1> DEFINE r == [Quiet EXCEPT !.bsy = TRUE, !.op = op, !.lba = call'.lba, !.left = call'.count]
<1>2. /\ r.bsy /\ ~r.drq /\ ~r.err /\ r.op = op /\ r.lba = call'.lba /\ r.left = call'.count
      /\ r.data = NoData
  BY DEF Quiet
<1>3. r \in Drive
  <2>1. NoData \in Sectors
    BY DEF NoData, Sectors
  <2>2. QED
    BY <2>1, Zenon DEF Quiet, Drive
<1>4. drives' = drives \/ drives' = [drives EXCEPT ![d] = r]
  BY DEF Commanded
<1>5. d \in present /\ Still(drives[d]) => drives' = [drives EXCEPT ![d] = r]
  BY DEF Commanded, Still
<1>6. d \notin present => drives' = drives
  BY DEF Commanded
<1>7. DriveOK(r)
  BY <1>2 DEF DriveOK
<1> HIDE DEF r
<1>8. QED
  BY <1>1, <1>2, <1>3, <1>4, <1>5, <1>6, <1>7

\* Identification starts the exchange with the drive, or finds that there is none.
LEMMA IdentifyStep ==
  ASSUME IdeInv, NEW d \in Drives, ide_identify(d)
  PROVE  IdeInv'
<1>1. /\ ipc = "idle" /\ done' = 0 /\ buffer' = <<>> /\ present' = present /\ disk' = disk
      /\ late' = late /\ exists' = exists /\ selected' = d /\ drives' = Commanded(d, "identify")
      /\ call' = [op |-> "identify", drive |-> d, lba |-> 0, count |-> 1]
      /\ IF d \in present THEN ipc' = "identified" ELSE ipc' = "idle" /\ rc' = -1
  BY DEF ide_identify, StartCall
<1>2. call'.op = "identify" /\ call'.drive = d /\ call'.lba = 0 /\ call'.count = 1
  BY <1>1
<1>3. /\ drives' \in [Drives -> Drive]
      /\ \A e \in Drives : DriveOK(drives'[e])
      /\ \A e \in Drives \ {d} : drives'[e] = drives[e]
      /\ d \notin present => drives' = drives
      /\ d \in present /\ Still(drives[d]) =>
           /\ drives'[d].bsy /\ ~drives'[d].drq /\ ~drives'[d].err
           /\ drives'[d].op = "identify" /\ drives'[d].data = NoData
           /\ drives'[d].lba = 0 /\ drives'[d].left = 1
  <2>1. call'.lba \in Int /\ call'.count \in Int
        /\ "identify" \in {"identify", "read", "write", "flush"}
    BY <1>2
  <2>2. QED
    BY <1>1, <1>2, <2>1, CommandedFields, Zenon
<1>4. IdeTypes'
  <2>1. call' \in [op : {"identify", "read", "write"}, drive : Drives, lba : LBAs, count : Nat]
    BY <1>1, IdeAssumption
  <2>2. buffer' \in Seq(Sectors)
    BY <1>1
  <2>3. ipc' \in {"identified", "idle"}
    BY <1>1
  <2>4. QED
    BY <1>1, <1>2, <1>3, <2>1, <2>2, <2>3 DEF IdeInv, IdeTypes, Working
<1>5. ASSUME ~late' PROVE Exchange'
  <2>1. Exchange /\ \A e \in Drives : Still(drives[e])
    BY <1>1, <1>5 DEF IdeInv, Exchange, Working
  <2>2. CASE d \in present
    <3>1. ipc' = "identified"
      BY <1>1, <2>2
    <3>2. /\ drives'[d].bsy /\ ~drives'[d].drq /\ ~drives'[d].err
          /\ drives'[d].op = "identify" /\ drives'[d].data = NoData
          /\ drives'[d].lba = 0 /\ drives'[d].left = 1
      BY <1>3, <2>1, <2>2, Zenon
    <3>4. InStep(drives[d], done)'
      BY <1>1, <1>2, <3>2 DEF InStep
    <3>9. done' < call'.count
      BY <1>1, <1>2
    <3>5. Serving(drives[d])'
      BY <1>2, <3>1, <3>2, <3>4, <3>9 DEF Serving
    <3>6. \A e \in Drives \ {d} : Still(drives'[e])
      BY <1>3, <2>1, Zenon
    <3>7. ipc' \in Working /\ ipc' # "idle" /\ buffer' \in Seq(Sectors) /\ selected' = call'.drive
      BY <1>1, <1>2, <3>1 DEF Working
    <3>8. WriteStored'
      BY <3>7, NothingStored
    <3>3. QED
      BY <1>2, <3>5, <3>6, <3>7, <3>8 DEF Exchange
  <2>3. CASE d \notin present
    <3>1. ipc' \notin Working /\ rc' # 0 /\ buffer' \in Seq(Sectors)
      BY <1>1, <2>3 DEF Working
    <3>2. \A e \in Drives : Still(drives'[e])
      BY <1>3, <2>1, <2>3, Zenon
    <3>3. WriteStored'
      BY <1>2, NothingStored
    <3>4. QED
      BY <1>2, <3>1, <3>2, <3>3 DEF Exchange
  <2>4. QED
    BY <2>2, <2>3
<1>6. QED
  BY <1>3, <1>4, <1>5 DEF IdeInv

\* A transfer is refused, or waits for its drive with nothing moved yet.
LEMMA TransferStep ==
  ASSUME IdeInv, NEW d \in Drives, NEW op \in {"read", "write"}, NEW lba \in LBAs,
         NEW count \in 0..MaxCount, lba + count - 1 \in LBAs \union {lba - 1},
         ide_transfer_sectors(op, d, lba, count)
  PROVE  IdeInv'
<1>1. /\ ipc = "idle" /\ done' = 0 /\ buffer' = <<>> /\ present' = present /\ disk' = disk
      /\ late' = late /\ exists' = exists /\ selected' = selected /\ drives' = drives
      /\ call' = [op |-> op, drive |-> d, lba |-> lba, count |-> count]
      /\ IF exists[d] /\ count > 0 THEN ipc' = "start" /\ rc' = 1 ELSE ipc' = "idle" /\ rc' = -1
  BY DEF ide_transfer_sectors, StartCall
<1>2. call'.op = op /\ call'.drive = d /\ call'.lba = lba /\ call'.count = count
  BY <1>1
<1>3. lba \in Int /\ count \in Nat
  BY IdeAssumption
<1>4. IdeTypes'
  <2>1. call' \in [op : {"identify", "read", "write"}, drive : Drives, lba : LBAs, count : Nat]
    BY <1>1, <1>3
  <2>2. buffer' \in Seq(Sectors)
    BY <1>1
  <2>3. count > 0 => lba + count - 1 \in LBAs
    BY <1>3
  <2>4. QED
    BY <1>1, <1>2, <2>1, <2>2, <2>3 DEF IdeInv, IdeTypes, Working
<1>5. \A e \in Drives : DriveOK(drives[e])'
  BY <1>1 DEF IdeInv, DriveOK, Still
<1>6. ASSUME ~late' PROVE Exchange'
  <2>1. \A e \in Drives : Still(drives[e])
    BY <1>1, <1>6 DEF IdeInv, Exchange, Working
  <2>2. rc' # 0 /\ ipc' \in {"start", "idle"}
    BY <1>1
  <2>3. QED
    BY <1>1, <2>1, <2>2, NothingStored DEF Exchange, Working
<1>7. QED
  BY <1>4, <1>5, <1>6 DEF IdeInv

\* The command of a transfer reaches the drive of the call, which is still.
LEMMA SendStep ==
  ASSUME IdeInv, send_command
  PROVE  IdeInv'
<1>1. /\ ipc = "command" /\ ipc' = "drq" /\ call' = call /\ selected' = call.drive
      /\ drives' = Commanded(call.drive, call.op) /\ present' = present /\ exists' = exists
      /\ disk' = disk /\ done' = done /\ buffer' = buffer /\ rc' = rc /\ late' = late
  BY DEF send_command, Continue
<1>2. /\ IdeTypes /\ call.drive \in Drives /\ call.lba \in Int /\ call.count \in Nat
      /\ call.op \in {"read", "write"} /\ done = 0 /\ buffer = <<>> /\ call.count > 0
      /\ call.drive \in present
  BY <1>1, CallTypes DEF IdeInv, IdeTypes
<1>3. /\ drives' \in [Drives -> Drive]
      /\ \A e \in Drives : DriveOK(drives'[e])
      /\ \A e \in Drives \ {call.drive} : drives'[e] = drives[e]
      /\ Still(drives[call.drive]) =>
           /\ ~drives'[call.drive].drq /\ drives'[call.drive].op = call.op
           /\ drives'[call.drive].lba = call.lba /\ drives'[call.drive].left = call.count
           /\ drives'[call.drive].data = NoData
  <2>1. call'.lba \in Int /\ call'.count \in Int /\ call'.lba = call.lba /\ call'.count = call.count
        /\ call.op \in {"identify", "read", "write", "flush"}
    BY <1>1, <1>2
  <2>2. QED
    BY <1>1, <1>2, <2>1, CommandedFields, Zenon
<1>4. IdeTypes'
  BY <1>1, <1>2, <1>3 DEF IdeTypes, Working
<1>5. ASSUME ~late' PROVE Exchange'
  <2>1. Exchange /\ \A e \in Drives : Still(drives[e])
    BY <1>1, <1>5 DEF IdeInv, Exchange, Working
  <2>2. StoredUpTo(0)'
    BY DEF StoredUpTo
  <2>5. /\ ~drives'[call.drive].drq /\ drives'[call.drive].op = call.op
        /\ drives'[call.drive].lba = call.lba /\ drives'[call.drive].left = call.count
        /\ drives'[call.drive].data = NoData
    BY <1>2, <1>3, <2>1, Zenon
  <2>11. /\ drives'[call'.drive].lba = call'.lba /\ drives'[call'.drive].left = call'.count
         /\ done' = 0 /\ call'.lba \in Int /\ call'.count \in Nat
    BY <1>1, <1>2, <2>5, Zenon
  <2>6. InStep(drives[call.drive], done)'
    BY <2>11 DEF InStep
  <2>3. Serving(drives[call.drive])'
    BY <1>1, <1>2, <2>2, <2>5, <2>6 DEF Serving
  <2>7. \A e \in Drives \ {call.drive} : Still(drives'[e])
    BY <1>3, <2>1, Zenon
  <2>8. ipc' \in Working /\ ipc' # "idle" /\ selected' = call'.drive /\ call' = call
        /\ buffer' = <<>> /\ done' = 0
    BY <1>1, <1>2 DEF Working
  <2>9. WriteStored'
    BY <2>8, NothingStored
  <2>10. buffer' \in Seq(Sectors) /\ Len(buffer') = done' /\ 1..done' = {}
    BY <2>8
  <2>4. QED
    BY <2>3, <2>7, <2>8, <2>9, <2>10, Zenon DEF Exchange
<1>6. QED
  BY <1>3, <1>4, <1>5 DEF IdeInv

\* A sector through the data register changes the drive that offers it or asks for it.
LEMMA MovedFields ==
  ASSUME IdeInv, NEW op \in {"identify", "read", "write"}, NEW data \in Sectors,
         drives' = Moved(op, data)
  PROVE  /\ drives' \in [Drives -> Drive]
         /\ \A e \in Drives : DriveOK(drives'[e])
         /\ \A e \in Drives \ {selected} : drives'[e] = drives[e]
         /\ drives[selected].drq /\ drives[selected].op = op =>
              /\ ~drives'[selected].drq /\ ~drives'[selected].err /\ drives'[selected].op = op
              /\ op = "write" =>
                   /\ drives'[selected].bsy /\ drives'[selected].data = data
                   /\ drives'[selected].lba = drives[selected].lba
                   /\ drives'[selected].left = drives[selected].left
              /\ op # "write" =>
                   /\ drives'[selected].bsy = (drives[selected].left > 1)
                   /\ drives'[selected].data = NoData
                   /\ drives'[selected].lba = drives[selected].lba + 1
                   /\ drives'[selected].left = drives[selected].left - 1
<1>1. /\ drives \in [Drives -> Drive] /\ selected \in Drives
      /\ \A e \in Drives : DriveOK(drives[e])
  BY DEF IdeInv, IdeTypes
<1>2. PICK d \in Drive : d = drives[selected] /\ DriveOK(d)
  BY <1>1
<1>3. CASE ~d.drq \/ d.op # op
  <2>1. drives' = drives
    BY <1>2, <1>3 DEF Moved
  <2>2. QED
    BY <1>1, <1>2, <1>3, <2>1
<1>4. CASE d.drq /\ d.op = op /\ op = "write"
  <2> DEFINE r == [d EXCEPT !.drq = FALSE, !.bsy = TRUE, !.data = data]
  <2>1. /\ r \in Drive /\ ~r.drq /\ ~r.err /\ r.op = op /\ r.bsy /\ r.data = data
        /\ r.lba = d.lba /\ r.left = d.left
    BY <1>2, <1>4, Zenon DEF Drive, DriveOK, Still
  <2>2. drives' = [drives EXCEPT ![selected] = r]
    BY <1>1, <1>2, <1>4, Zenon DEF Moved, Drive
  <2> HIDE DEF r
  <2>3. DriveOK(r)
    BY <2>1 DEF DriveOK
  <2>4. QED
    BY <1>1, <1>2, <1>4, <2>1, <2>2, <2>3
<1>5. CASE d.drq /\ d.op = op /\ op # "write"
  <2>a. PICK next \in Int, rest \in Int : next = d.lba + 1 /\ rest = d.left - 1
    BY <1>2 DEF Drive
  <2>b. (d.left > 1) = TRUE \/ (d.left > 1) = FALSE
    OBVIOUS
  <2>0. PICK more \in BOOLEAN : more = (d.left > 1)
    BY <2>b, Zenon
  <2> DEFINE r == [d EXCEPT !.drq = FALSE, !.bsy = more, !.lba = next, !.left = rest]
  <2>1. /\ r \in Drive /\ ~r.drq /\ r.err = d.err /\ r.op = op /\ r.bsy = more
        /\ r.data = d.data /\ r.lba = next /\ r.left = rest
    BY <1>2, <1>5, Zenon DEF Drive
  <2>2. drives' = [drives EXCEPT ![selected] = r]
    BY <1>1, <1>2, <1>5, <2>a, <2>0 DEF Moved, Drive
  <2> HIDE DEF r
  <2>3. ~d.err /\ d.data = NoData
    BY <1>2, <1>5 DEF DriveOK, Still
  <2>4. DriveOK(r)
    BY <2>1, <2>3 DEF DriveOK
  <2>5. QED
    BY <1>1, <1>2, <1>5, <2>a, <2>0, <2>1, <2>2, <2>3, <2>4
<1>6. QED
  BY <1>3, <1>4, <1>5

\* At a transfer the drive of the call offers or wants the sector number done.
LEMMA Offered ==
  ASSUME IdeInv, ~late, ipc = "transfer"
  PROVE  /\ selected = call.drive /\ call.drive \in present /\ Exchange
         /\ drives[call.drive].drq /\ drives[call.drive].op = call.op
         /\ InStep(drives[call.drive], done) /\ done < call.count
         /\ call.op = "write" => StoredUpTo(done)
         /\ \A e \in Drives \ {call.drive} : Still(drives[e])
<1>1. IdeTypes /\ Exchange /\ call.drive \in Drives /\ DriveOK(drives[call.drive])
  BY CallTypes DEF IdeInv
<1>2. Serving(drives[call.drive]) /\ selected = call.drive
      /\ \A e \in Drives \ {call.drive} : Still(drives[e])
  BY <1>1 DEF Exchange, Working
<1>3. drives[call.drive].drq /\ ~drives[call.drive].err
  BY <1>1, <1>2 DEF Serving, DriveOK, Still
<1>4. QED
  BY <1>1, <1>2, <1>3 DEF Serving, IdeTypes

\* A sector read is the next one of the call.
LEMMA ReadStep ==
  ASSUME IdeInv, read_data
  PROVE  IdeInv'
<1>1. /\ ipc = "transfer" /\ call.op = "read" /\ done' = done + 1
      /\ drives' = Moved("read", NoData) /\ present' = present /\ exists' = exists
      /\ selected' = selected /\ disk' = disk /\ call' = call /\ late' = late
      /\ \/ done' < call.count /\ ipc' = "drq" /\ rc' = rc
         \/ done' = call.count /\ ipc' = "idle" /\ rc' = 0
  BY DEF read_data, Continue, Return
<1>2. IdeTypes /\ call.drive \in Drives /\ call.lba \in Int /\ call.count \in Nat /\ done \in Nat
  BY CallTypes DEF IdeInv
<1>3. NoData \in Sectors
  BY DEF NoData, Sectors
<1>4. /\ drives' \in [Drives -> Drive]
      /\ \A e \in Drives : DriveOK(drives'[e])
      /\ \A e \in Drives \ {selected} : drives'[e] = drives[e]
      /\ drives[selected].drq /\ drives[selected].op = "read" =>
           /\ ~drives'[selected].drq /\ ~drives'[selected].err
           /\ drives'[selected].op = "read" /\ drives'[selected].data = NoData
           /\ drives'[selected].bsy = (drives[selected].left > 1)
           /\ drives'[selected].lba = drives[selected].lba + 1
           /\ drives'[selected].left = drives[selected].left - 1
  BY <1>1, <1>3, MovedFields
<1>5. IdeTypes'
  <2>1. ipc' \in Working \cup {"idle", "start", "command"} /\ ipc' \notin {"start", "command"}
        /\ ipc # "idle"
    BY <1>1 DEF Working
  <2>2. done' \in Nat
    BY <1>1, <1>2
  <2>3. QED
    BY <1>1, <1>2, <1>4, <2>1, <2>2 DEF IdeTypes
<1>6. ASSUME ~late' PROVE Exchange'
  <2>1. /\ selected = call.drive /\ call.drive \in present /\ Exchange
        /\ drives[call.drive].drq /\ drives[call.drive].op = "read"
        /\ drives[call.drive].lba = call.lba + done
        /\ drives[call.drive].left = call.count - done /\ done < call.count
        /\ \A e \in Drives \ {call.drive} : Still(drives[e])
    BY <1>1, <1>6, Offered DEF InStep
  <2>2. call.lba + done \in LBAs
    <3>1. call.lba + call.count - 1 \in LBAs /\ call.lba \in LBAs
      BY <1>1, <1>2, <2>1 DEF IdeTypes
    <3>2. call.lba + done \in call.lba..(call.lba + call.count - 1)
      BY <1>2, <2>1
    <3>3. QED
      BY <3>1, <3>2, IdeAssumption, Zenon
  <2>3. PICK s \in Sectors : s = disk[call.drive][call.lba + done]
    BY <1>2, <2>2 DEF IdeTypes
  <2>4. buffer' = Append(buffer, s)
    BY <2>1, <2>3 DEF read_data, Drq, Present
  <2>5. /\ buffer \in Seq(Sectors) /\ Len(buffer) = done
        /\ \A k \in 1..done : buffer[k] = disk[call.drive][call.lba + k - 1]
    BY <1>1, <2>1 DEF Exchange, Working
  <2>6. buffer' \in Seq(Sectors) /\ Len(buffer') = done + 1
    BY <2>4, <2>5
  <2>7. \A k \in 1..(done + 1) : buffer'[k] = disk[call.drive][call.lba + k - 1]
    <3>1. buffer'[done + 1] = s /\ call.lba + (done + 1) - 1 = call.lba + done
      BY <1>2, <2>4, <2>5
    <3>2. \A k \in 1..done : buffer'[k] = buffer[k]
      BY <1>2, <2>4, <2>5
    <3>3. \A k \in 1..(done + 1) : k \in 1..done \/ k = done + 1
      BY <1>2
    <3>4. QED
      BY <2>3, <2>5, <3>1, <3>2, <3>3
  <2>8. CASE done' < call.count /\ ipc' = "drq" /\ rc' = rc
    <3>1. InStep(drives[call.drive], done)'
      <4>0. /\ drives'[call.drive].lba = drives[call.drive].lba + 1
            /\ drives'[call.drive].left = drives[call.drive].left - 1
        BY <1>4, <2>1, Zenon
      <4>1. /\ drives'[call.drive].lba = call.lba + (done + 1)
            /\ drives'[call.drive].left = call.count - (done + 1)
        BY <1>2, <2>1, <4>0
      <4>2. QED
        BY <1>1, <4>1 DEF InStep
    <3>2. Serving(drives[call.drive])'
      BY <1>1, <1>4, <2>1, <2>8, <3>1 DEF Serving
    <3>4. \A e \in Drives \ {call.drive} : Still(drives'[e])
      BY <1>4, <2>1, Zenon
    <3>3. QED
      BY <1>1, <2>1, <2>6, <2>7, <2>8, <3>2, <3>4, NothingStored DEF Exchange, Working
  <2>9. CASE done' = call.count /\ ipc' = "idle" /\ rc' = 0
    <3>0. ~(drives[call.drive].left > 1)
      BY <1>1, <1>2, <2>1, <2>9
    <3>1. ~drives'[call.drive].bsy
      BY <1>4, <2>1, <3>0, Zenon
    <3>2. \A e \in Drives : Still(drives'[e])
      BY <1>4, <2>1, <3>1 DEF Still
    <3>3. QED
      BY <1>1, <2>6, <2>7, <2>9, <3>2, NothingStored DEF Exchange, Working
  <2>10. QED
    BY <1>1, <2>8, <2>9
<1>7. QED
  BY <1>4, <1>5, <1>6 DEF IdeInv

\* The identification data leave the drive still.
LEMMA IdentifyDataStep ==
  ASSUME IdeInv, identify_data
  PROVE  IdeInv'
<1>1. /\ ipc = "transfer" /\ call.op = "identify" /\ ipc' = "idle"
      /\ drives' = Moved("identify", NoData) /\ present' = present /\ done' = done
      /\ buffer' = buffer /\ selected' = selected /\ disk' = disk /\ call' = call /\ late' = late
      /\ exists' = [exists EXCEPT ![call.drive] = TRUE] \/ exists' = exists
  BY DEF identify_data, Continue, Return
<1>2. IdeTypes /\ call.drive \in Drives /\ call.lba \in Int /\ call.count \in Nat /\ done \in Nat
      /\ call.drive \in present
  BY <1>1, CallTypes DEF IdeInv, IdeTypes
<1>3. NoData \in Sectors
  BY DEF NoData, Sectors
<1>4. /\ drives' \in [Drives -> Drive]
      /\ \A e \in Drives : DriveOK(drives'[e])
      /\ \A e \in Drives \ {selected} : drives'[e] = drives[e]
      /\ drives[selected].drq /\ drives[selected].op = "identify" =>
           ~drives'[selected].drq /\ drives'[selected].bsy = (drives[selected].left > 1)
  BY <1>1, <1>3, MovedFields
<1>5. exists' \in [Drives -> BOOLEAN] /\ \A d \in Drives : exists'[d] => d \in present
  BY <1>1, <1>2, Zenon DEF IdeTypes
<1>6. IdeTypes'
  BY <1>1, <1>2, <1>4, <1>5 DEF IdeTypes, Working
<1>7. ASSUME ~late' PROVE Exchange'
  <2>1. /\ selected = call.drive /\ Exchange
        /\ drives[call.drive].drq /\ drives[call.drive].op = "identify"
        /\ drives[call.drive].left = call.count - done /\ done < call.count
        /\ \A e \in Drives \ {call.drive} : Still(drives[e])
    BY <1>1, <1>7, Offered DEF InStep
  <2>2. call.count = 1
    BY <1>1, <1>2 DEF IdeTypes
  <2>0. ~(drives[call.drive].left > 1)
    BY <1>2, <2>1, <2>2
  <2>3. ~drives'[call.drive].bsy
    BY <1>4, <2>0, <2>1, Zenon
  <2>4. \A e \in Drives : Still(drives'[e])
    BY <1>4, <2>1, <2>3 DEF Still
  <2>5. QED
    BY <1>1, <2>1, <2>4, NothingStored DEF Exchange, Working
<1>8. QED
  BY <1>4, <1>6, <1>7 DEF IdeInv

\* A sector written is the caller's sector of that number.
LEMMA WriteStep ==
  ASSUME IdeInv, write_data
  PROVE  IdeInv'
<1>1. /\ ipc = "transfer" /\ call.op = "write" /\ done' = done + 1 /\ ipc' = "written"
      /\ drives' = Moved("write", Payload(done)) /\ present' = present /\ exists' = exists
      /\ selected' = selected /\ disk' = disk /\ call' = call /\ buffer' = buffer
      /\ rc' = rc /\ late' = late
  BY DEF write_data, Continue
<1>2. IdeTypes /\ call.drive \in Drives /\ call.lba \in Int /\ call.count \in Nat /\ done \in Nat
  BY CallTypes DEF IdeInv
<1>3. Payload(done) \in Sectors
  BY <1>2 DEF Payload, Sectors
<1>4. /\ drives' \in [Drives -> Drive]
      /\ \A e \in Drives : DriveOK(drives'[e])
      /\ \A e \in Drives \ {selected} : drives'[e] = drives[e]
      /\ drives[selected].drq /\ drives[selected].op = "write" =>
           /\ ~drives'[selected].drq /\ drives'[selected].op = "write"
           /\ drives'[selected].bsy /\ drives'[selected].data = Payload(done)
           /\ drives'[selected].lba = drives[selected].lba
           /\ drives'[selected].left = drives[selected].left
  BY <1>1, <1>3, MovedFields
<1>5. IdeTypes'
  <2>1. ipc' \in Working \cup {"idle", "start", "command"} /\ ipc' \notin {"start", "command"}
        /\ ipc # "idle"
    BY <1>1 DEF Working
  <2>2. done' \in Nat
    BY <1>1, <1>2
  <2>3. QED
    BY <1>1, <1>2, <1>4, <2>1, <2>2 DEF IdeTypes
<1>6. ASSUME ~late' PROVE Exchange'
  <2>1. /\ selected = call.drive /\ Exchange
        /\ drives[call.drive].drq /\ drives[call.drive].op = "write"
        /\ InStep(drives[call.drive], done) /\ done < call.count /\ StoredUpTo(done)
        /\ \A e \in Drives \ {call.drive} : Still(drives[e])
    BY <1>1, <1>6, Offered
  <2>2. done' - 1 = done
    BY <1>1, <1>2
  <2>3. InStep(drives[call.drive], done - 1)' /\ StoredUpTo(done - 1)'
    BY <1>1, <1>4, <2>1, <2>2 DEF InStep, StoredUpTo
  <2>4. drives'[call.drive].data = Payload(done - 1)'
    BY <1>4, <2>1, <2>2 DEF Payload
  <2>8. done \in Nat /\ call.count \in Nat /\ done < call.count /\ done' = done + 1
    BY <1>1, <1>2, <2>1, Zenon
  <2>5. done' > 0 /\ done' <= call.count
    BY <2>8
  <2>6. Serving(drives[call.drive])'
    BY <1>1, <1>4, <2>1, <2>3, <2>4, <2>5 DEF Serving
  <2>7. QED
    BY <1>1, <1>4, <2>1, <2>6, NothingStored DEF Exchange, Working
<1>7. QED
  BY <1>4, <1>5, <1>6 DEF IdeInv

\* The flush finds the drive still.
LEMMA FlushStep ==
  ASSUME IdeInv, ide_flush
  PROVE  IdeInv'
<1>1. /\ ipc = "flush" /\ ipc' = "flushed" /\ call' = call /\ selected' = selected
      /\ drives' = Commanded(selected, "flush") /\ present' = present /\ exists' = exists
      /\ disk' = disk /\ done' = done /\ buffer' = buffer /\ rc' = rc /\ late' = late
  BY DEF ide_flush, Continue
<1>2. /\ IdeTypes /\ call.drive \in Drives /\ call.lba \in Int /\ call.count \in Nat
      /\ selected \in Drives /\ call.drive \in present
  BY <1>1, CallTypes DEF IdeInv, IdeTypes
<1>3. /\ drives' \in [Drives -> Drive]
      /\ \A e \in Drives : DriveOK(drives'[e])
      /\ \A e \in Drives \ {selected} : drives'[e] = drives[e]
      /\ selected \in present /\ Still(drives[selected]) =>
           /\ ~drives'[selected].drq /\ drives'[selected].op = "flush"
           /\ drives'[selected].data = NoData
  <2>1. call'.lba \in Int /\ call'.count \in Int
        /\ "flush" \in {"identify", "read", "write", "flush"}
    BY <1>1, <1>2
  <2>2. QED
    BY <1>1, <1>2, <2>1, CommandedFields, Zenon
<1>4. IdeTypes'
  BY <1>1, <1>2, <1>3 DEF IdeTypes, Working
<1>5. ASSUME ~late' PROVE Exchange'
  <2>1. /\ Exchange /\ selected = call.drive /\ Serving(drives[call.drive])
        /\ \A e \in Drives \ {call.drive} : Still(drives[e])
    BY <1>1, <1>5 DEF IdeInv, Exchange, Working
  <2>2. Still(drives[call.drive]) /\ done = call.count /\ call.op = "write"
        /\ StoredUpTo(done - 1)
    BY <1>1, <2>1 DEF Serving
  <2>3. StoredUpTo(done - 1)'
    BY <1>1, <2>2, Zenon DEF StoredUpTo
  <2>4. Serving(drives[call.drive])'
    BY <1>1, <1>2, <1>3, <2>1, <2>2, <2>3, Zenon DEF Serving
  <2>5. QED
    BY <1>1, <1>3, <2>1, <2>2, <2>4, NothingStored DEF Exchange, Working
<1>6. QED
  BY <1>3, <1>4, <1>5 DEF IdeInv

\* The invariant of the driver and its drives is inductive.
LEMMA IdeInductive ==
  /\ IdeInit => IdeInv
  /\ IdeInv /\ [IdeNext]_ivars => IdeInv'
<1>1. ASSUME IdeInit PROVE IdeInv
  <2>1. Quiet \in Drive /\ DriveOK(Quiet) /\ Still(Quiet)
    <3>1. NoData \in Sectors
      BY DEF NoData, Sectors
    <3>2. QED
      BY <3>1 DEF Quiet, Drive, DriveOK, Still
  <2>2. \A d \in Drives, s \in LBAs : Old(d, s) \in Sectors
    BY IdeAssumption DEF Old, Sectors, Drives
  <2>3. drives \in [Drives -> Drive] /\ \A d \in Drives : drives[d] = Quiet
    BY <1>1, <2>1 DEF IdeInit
  <2>4. disk \in [Drives -> [LBAs -> Sectors]]
    BY <1>1, <2>2 DEF IdeInit
  <2>5. call.op = "identify" /\ call.count = 1
        /\ call \in [op : {"identify", "read", "write"}, drive : Drives, lba : LBAs, count : Nat]
    BY <1>1, IdeAssumption DEF IdeInit, Drives
  <2>6. IdeTypes
    BY <1>1, <2>3, <2>4, <2>5 DEF IdeInit, IdeTypes, Drives, Working
  <2>7. Exchange
    BY <1>1, <2>1, <2>3, <2>5 DEF IdeInit, Exchange, WriteStored, Working
  <2>8. QED
    BY <2>1, <2>3, <2>6, <2>7 DEF IdeInv
<1>2. ASSUME IdeInv, [IdeNext]_ivars PROVE IdeInv'
  <2>1. ASSUME NEW d \in Drives, drive_answers(d) PROVE IdeInv'
    <3>1. IdeTypes' /\ \A e \in Drives : DriveOK(drives[e])'
      BY <1>2, <2>1, AnswerTypes DEF IdeInv
    <3>2. late' = late
      BY <2>1 DEF drive_answers
    <3>3. QED
      BY <1>2, <2>1, <3>1, <3>2, AnswerExchange DEF IdeInv
  <2>2. CASE UNCHANGED ivars
    <3>1. IdeTypes'
      BY <1>2, <2>2 DEF ivars, IdeInv, IdeTypes
    <3>2. \A e \in Drives : DriveOK(drives[e])'
      BY <1>2, <2>2 DEF ivars, IdeInv
    <3>3. ASSUME ~late' PROVE Exchange'
      <4>1. Exchange
        BY <1>2, <2>2, <3>3 DEF ivars, IdeInv
      <4>2. WriteStored' = WriteStored
        BY <2>2 DEF ivars, WriteStored
      <4>3. Serving(drives[call.drive])' <=> Serving(drives[call.drive])
        <5>1. \A n : StoredUpTo(n)' <=> StoredUpTo(n)
          BY <2>2 DEF ivars, StoredUpTo
        <5>2. QED
          BY <2>2, <5>1 DEF ivars, Serving, InStep
      <4>4. QED
        BY <2>2, <4>1, <4>2, <4>3 DEF ivars, Exchange
    <3>4. QED
      BY <3>1, <3>2, <3>3 DEF IdeInv
  <2>3. QED
    BY <1>2, <2>1, <2>2, IdentifyStep, TransferStep, PollStep, SendStep, ReadStep,
       IdentifyDataStep, WriteStep, FlushStep DEF IdeNext
<1>3. QED
  BY <1>1, <1>2

\* ide_read_sectors: whatever the drives answer and however often a wait polls them, a read
\* that returns 0 with no wait ever timed out has the sectors asked for in the buffer.
THEOREM IdeReadExact == IdeSpec => []ReadExact
<1>1. IdeInv => ReadExact
  <2>1. SUFFICES ASSUME IdeInv, ipc = "idle", call.op = "read", rc = 0, ~late
                 PROVE  buffer = [k \in 1..call.count |-> disk[call.drive][call.lba + k - 1]]
    BY DEF ReadExact
  <2>2. /\ buffer \in Seq(Sectors) /\ Len(buffer) = call.count
        /\ \A k \in 1..call.count : buffer[k] = disk[call.drive][call.lba + k - 1]
    BY <2>1 DEF IdeInv, Exchange
  <2>3. buffer = [k \in 1..Len(buffer) |-> buffer[k]]
    BY <2>2
  <2>4. QED
    BY <2>2, <2>3
<1>2. QED
  BY <1>1, IdeInductive, PTL DEF IdeSpec

\* ide_write_sectors: a write that returns 0 with no wait ever timed out has stored every
\* sector but the last, whose ERR the driver does not look at.
THEOREM IdeWriteStored == IdeSpec => []WriteStored
<1>1. IdeInv => WriteStored
  BY DEF IdeInv, Exchange, WriteStored
<1>2. QED
  BY <1>1, IdeInductive, PTL DEF IdeSpec

-----------------------------------------------------------------------------
\* Quotient and remainder.
LEMMA DivMod ==
  ASSUME NEW a \in Nat, NEW b \in Nat, b > 0
  PROVE  /\ a \div b \in Nat /\ a % b \in Nat /\ a % b < b
         /\ a = b * (a \div b) + (a % b)
<1>1. a \div b \in Nat /\ a % b \in Nat /\ a % b < b
  OBVIOUS
<1>2. a % b = a - b * (a \div b)
  OBVIOUS
<1>3. PICK p \in Int : p = b * (a \div b)
  BY <1>1
<1>4. a = p + (a % b)
  BY <1>1, <1>2, <1>3
<1>5. QED
  BY <1>1, <1>3, <1>4

\* A product grows with its factor.
LEMMA Grows ==
  ASSUME NEW b \in Nat, NEW p \in Int, NEW q \in Int, p < q
  PROVE  b * p + b <= b * q
<1>1. b * (p + 1) = b * p + b
  OBVIOUS
<1>2. b * (q - (p + 1)) >= 0 /\ b * (q - (p + 1)) = b * q - b * (p + 1)
  OBVIOUS
<1>3. b * p \in Int /\ b * q \in Int /\ b * (p + 1) \in Int
  OBVIOUS
<1>4. QED
  BY <1>1, <1>2, <1>3

\* There is one way to write a number with a quotient and a remainder.
LEMMA DivUnique ==
  ASSUME NEW b \in Nat, NEW p \in Int, NEW q \in Int, NEW r \in Int, NEW s \in Int,
         0 <= r, r < b, 0 <= s, s < b, b * p + r = b * q + s
  PROVE  p = q /\ r = s
<1>1. b * p \in Int /\ b * q \in Int
  OBVIOUS
<1>2. ~(p < q)
  BY <1>1, Grows
<1>3. ~(q < p)
  BY <1>1, Grows
<1>4. p = q
  BY <1>2, <1>3
<1>5. QED
  BY <1>1, <1>4

\* The quotient is the one whose block holds the number.
LEMMA DivIs ==
  ASSUME NEW a \in Nat, NEW b \in Nat, NEW q \in Int, b * q <= a, a < b * q + b
  PROVE  a \div b = q /\ a % b = a - b * q
<1>1. b > 0 /\ b * q \in Int
  OBVIOUS
<1>2. a \div b \in Nat /\ a % b \in Nat /\ a % b < b /\ a = b * (a \div b) + (a % b)
  BY <1>1, DivMod
<1>3. PICK r \in Int : r = a - b * q
  BY <1>1
<1>4. 0 <= r /\ r < b /\ b * q + r = b * (a \div b) + (a % b)
  BY <1>1, <1>2, <1>3
<1>5. q = a \div b /\ r = a % b
  BY <1>2, <1>4, DivUnique
<1>6. QED
  BY <1>3, <1>5

\* Rounding up.
LEMMA CeilDivIs ==
  ASSUME NEW a \in Nat, NEW b \in Nat, b > 0
  PROVE  /\ CeilDiv(a, b) \in Nat
         /\ a <= b * CeilDiv(a, b) /\ b * CeilDiv(a, b) < a + b
<1>1. a + b - 1 \in Nat
  OBVIOUS
<1>2. PICK q \in Nat : q = (a + b - 1) \div b
  BY <1>1, DivMod
<1>3. PICK r \in Nat : r < b /\ a + b - 1 = b * q + r
  BY <1>1, <1>2, DivMod
<1>4. b * q \in Int
  OBVIOUS
<1>5. a <= b * q /\ b * q < a + b
  BY <1>3, <1>4
<1>6. QED
  BY <1>2, <1>5 DEF CeilDiv

-----------------------------------------------------------------------------
\* The arithmetic of the layout, as the disk in use has it.
LEMMA Layout ==
  ASSUME superblock \in Superblocks
  PROVE  /\ superblock.blocks_count \in Nat /\ superblock.first_data_block \in Nat
         /\ superblock.blocks_per_group \in Nat /\ superblock.blocks_per_group > 0
         /\ superblock.inodes_per_group \in Nat /\ superblock.inodes_per_group > 0
         /\ superblock.inode_size \in Nat /\ superblock.inode_size > 0
         /\ superblock.block_size \in Nat /\ superblock.block_size > 0
         /\ inodes_per_block \in Nat /\ inodes_per_block > 0
         /\ superblock.block_size = superblock.inode_size * inodes_per_block
         /\ Groups \in Nat /\ groups_count \in Nat /\ Groups <= groups_count
         /\ TableBlocks \in Nat /\ 4 + TableBlocks <= superblock.blocks_per_group
         /\ superblock.inodes_per_group * superblock.inode_size
              <= superblock.block_size * TableBlocks
         /\ superblock.blocks_per_group * (Groups - 1) + 4 + TableBlocks
              <= superblock.blocks_count
<1> DEFINE sb == superblock
<1>1. /\ sb.blocks_count \in Nat /\ sb.first_data_block \in Nat /\ sb.blocks_per_group \in Nat
      /\ sb.inodes_per_group \in Nat /\ sb.inode_size \in Nat /\ sb.block_size \in Nat
  BY InodesAssumption
<1>2. MadeByMkfs(sb)
  BY InodesAssumption
<1>3. /\ sb.blocks_per_group > 0 /\ sb.inodes_per_group > 0 /\ sb.inode_size > 0
      /\ sb.block_size >= sb.inode_size /\ sb.block_size % sb.inode_size = 0
      /\ sb.first_data_block <= sb.blocks_count
      /\ 4 + TableBlocks <= sb.blocks_per_group
      /\ sb.blocks_per_group * (Groups - 1) + 4 + TableBlocks <= sb.blocks_count
  BY <1>2 DEF MadeByMkfs, TableBlocks, Groups
<1>4. /\ inodes_per_block \in Nat /\ inodes_per_block > 0
      /\ sb.block_size = sb.inode_size * inodes_per_block
  <2>1. PICK q \in Nat : q = inodes_per_block /\ sb.block_size = sb.inode_size * q
    BY <1>1, <1>3, DivMod DEF inodes_per_block
  <2>2. q > 0
    BY <1>1, <1>3, <2>1
  <2>3. QED
    BY <2>1, <2>2
<1>5. /\ TableBlocks \in Nat
      /\ sb.inodes_per_group * sb.inode_size <= sb.block_size * TableBlocks
  <2>1. sb.inodes_per_group * sb.inode_size \in Nat /\ sb.block_size > 0
    BY <1>1, <1>3
  <2>2. QED
    BY <1>1, <2>1, CeilDivIs, Zenon DEF TableBlocks
<1>6. Groups \in Nat /\ groups_count \in Nat /\ Groups <= groups_count
  <2>1. PICK n \in Nat : n = sb.blocks_count - sb.first_data_block /\ n <= sb.blocks_count
    BY <1>1, <1>3
  <2>2. PICK g, h \in Nat :
          /\ g = Groups /\ h = groups_count
          /\ sb.blocks_per_group * g < n + sb.blocks_per_group
          /\ sb.blocks_count <= sb.blocks_per_group * h
    BY <1>1, <1>3, <2>1, CeilDivIs, Zenon DEF Groups, groups_count
  <2>3. sb.blocks_per_group * g \in Int /\ sb.blocks_per_group * h \in Int
    BY <1>1
  <2>4. ~(h < g)
    <3>1. h < g => sb.blocks_per_group * h + sb.blocks_per_group <= sb.blocks_per_group * g
      BY <1>1, Grows
    <3>2. QED
      BY <1>1, <2>1, <2>2, <2>3, <3>1
  <2>5. QED
    BY <2>2, <2>4
<1>7. sb.block_size > 0
  BY <1>1, <1>3
<1>8. QED
  BY <1>1, <1>3, <1>4, <1>5, <1>6, <1>7

\* Where the inodes are: inside the table of their group, which is inside the disk.
LEMMA InodePlace ==
  ASSUME superblock \in Superblocks, NEW n \in Inodes
  PROVE  \E g \in Nat, i \in Nat, b \in Nat, o \in Nat :
           /\ g = ext2_get_inode_block_group(n) /\ i = ext2_get_inode_index(n)
           /\ n = superblock.inodes_per_group * g + i + 1 /\ i < superblock.inodes_per_group
           /\ i = inodes_per_block * b + o /\ o < inodes_per_block
           /\ b < TableBlocks /\ g < Groups
           /\ bg_inode_table(g) = superblock.blocks_per_group * g + 4
           /\ InodeBlock(n) = superblock.blocks_per_group * g + (4 + b)
           /\ InodeOffset(n) = superblock.inode_size * o
<1> DEFINE sb == superblock
<1>1. /\ sb.inodes_per_group \in Nat /\ sb.inodes_per_group > 0 /\ Groups \in Nat
      /\ sb.inode_size \in Nat /\ sb.inode_size > 0 /\ TableBlocks \in Nat
      /\ inodes_per_block \in Nat /\ inodes_per_block > 0
      /\ sb.block_size \in Nat /\ sb.block_size > 0
      /\ sb.block_size = sb.inode_size * inodes_per_block
      /\ sb.inodes_per_group * sb.inode_size <= sb.block_size * TableBlocks
      /\ sb.blocks_per_group \in Nat
  BY Layout
<1> HIDE DEF sb
<1>2. n \in Nat /\ n > 0 /\ n <= sb.inodes_per_group * Groups /\ n - 1 \in Nat
  BY <1>1 DEF Inodes, sb
<1>3. PICK g, i \in Nat :
        /\ g = ext2_get_inode_block_group(n) /\ i = ext2_get_inode_index(n)
        /\ n - 1 = sb.inodes_per_group * g + i /\ i < sb.inodes_per_group
  <2>1. PICK m \in Nat : m = n - 1
    BY <1>2
  <2>2. /\ m \div sb.inodes_per_group \in Nat /\ m % sb.inodes_per_group \in Nat
        /\ m % sb.inodes_per_group < sb.inodes_per_group
        /\ m = sb.inodes_per_group * (m \div sb.inodes_per_group) + (m % sb.inodes_per_group)
    BY <1>1, DivMod
  <2>3. QED
    BY <2>1, <2>2 DEF ext2_get_inode_block_group, ext2_get_inode_index, sb
<1>4. PICK b, o \in Nat :
        /\ b = i \div inodes_per_block /\ o = i % inodes_per_block
        /\ i = inodes_per_block * b + o /\ o < inodes_per_block
  BY <1>1, DivMod
<1>5. g < Groups
  <2>1. ~(Groups <= g)
    <3>1. Groups < g => sb.inodes_per_group * Groups + sb.inodes_per_group <= sb.inodes_per_group * g
      BY <1>1, Grows
    <3>2. sb.inodes_per_group * Groups \in Int /\ sb.inodes_per_group * g \in Int
      BY <1>1
    <3>3. QED
      BY <1>1, <1>2, <1>3, <3>1, <3>2
  <2>2. QED
    BY <1>1, <2>1
<1>6. b < TableBlocks
  <2>1. SUFFICES ASSUME TableBlocks <= b PROVE FALSE
    BY <1>1
  <2>2. sb.block_size * TableBlocks <= sb.block_size * b
    <3>1. TableBlocks < b => sb.block_size * TableBlocks + sb.block_size <= sb.block_size * b
      BY <1>1, Grows
    <3>2. sb.block_size * TableBlocks \in Int /\ sb.block_size * b \in Int
      BY <1>1
    <3>3. QED
      BY <1>1, <2>1, <3>1, <3>2
  <2>3. inodes_per_block * b < sb.inodes_per_group
    <3>1. PICK p \in Int : p = inodes_per_block * b
      BY <1>1
    <3>2. p <= i
      BY <1>1, <1>4, <3>1
    <3>3. QED
      BY <1>1, <1>3, <3>1, <3>2
  <2>4. PICK p \in Int : p = inodes_per_block * b
    BY <1>1
  <2>5. sb.inode_size * p + sb.inode_size <= sb.inode_size * sb.inodes_per_group
    BY <1>1, <2>3, <2>4, Grows
  <2>6. sb.inode_size * p = sb.block_size * b
    <3>1. sb.inode_size * (inodes_per_block * b) = (sb.inode_size * inodes_per_block) * b
      BY <1>1
    <3>2. QED
      BY <1>1, <2>4, <3>1
  <2>7. sb.inode_size * sb.inodes_per_group = sb.inodes_per_group * sb.inode_size
    BY <1>1
  <2>8. sb.block_size * b \in Int /\ sb.inodes_per_group * sb.inode_size \in Int
        /\ sb.block_size * TableBlocks \in Int
    BY <1>1
  <2>9. QED
    BY <1>1, <2>2, <2>5, <2>6, <2>7, <2>8
<1>7. /\ bg_inode_table(g) = sb.blocks_per_group * g + 4
      /\ InodeBlock(n) = bg_inode_table(g) + b /\ InodeOffset(n) = o * sb.inode_size
  BY <1>3, <1>4 DEF bg_inode_table, InodeBlock, InodeOffset, sb
<1>8. /\ sb.blocks_per_group * g \in Int /\ o * sb.inode_size = sb.inode_size * o
  BY <1>1
<1>9. InodeBlock(n) = sb.blocks_per_group * g + (4 + b) /\ InodeOffset(n) = sb.inode_size * o
  BY <1>7, <1>8
<1>10. n = sb.inodes_per_group * g + i + 1
  <2>1. sb.inodes_per_group * g \in Int
    BY <1>1
  <2>2. QED
    BY <1>2, <1>3, <2>1
<1>11. QED
  BY <1>3, <1>4, <1>5, <1>6, <1>7, <1>9, <1>10, Zenon DEF sb

\* No two inodes are in the same place.
LEMMA InodesDistinct ==
  ASSUME superblock \in Superblocks, NEW n \in Inodes, NEW m \in Inodes,
         InodeBlock(n) = InodeBlock(m), InodeOffset(n) = InodeOffset(m)
  PROVE  n = m
<1> DEFINE sb == superblock
<1>1. /\ sb.blocks_per_group \in Nat /\ sb.inode_size \in Nat /\ sb.inode_size > 0
      /\ TableBlocks \in Nat /\ 4 + TableBlocks <= sb.blocks_per_group
  BY Layout
<1>2. PICK g \in Nat, i \in Nat, b \in Nat, o \in Nat :
        /\ n = sb.inodes_per_group * g + i + 1 /\ i = inodes_per_block * b + o
        /\ b < TableBlocks /\ InodeBlock(n) = sb.blocks_per_group * g + (4 + b)
        /\ InodeOffset(n) = sb.inode_size * o
  BY InodePlace
<1>3. PICK h \in Nat, j \in Nat, c \in Nat, p \in Nat :
        /\ m = sb.inodes_per_group * h + j + 1 /\ j = inodes_per_block * c + p
        /\ c < TableBlocks /\ InodeBlock(m) = sb.blocks_per_group * h + (4 + c)
        /\ InodeOffset(m) = sb.inode_size * p
  BY InodePlace
<1> HIDE DEF sb
<1>4. g = h /\ 4 + b = 4 + c
  <2>1. PICK r, s \in Int : r = 4 + b /\ s = 4 + c
    OBVIOUS
  <2>2. 0 <= r /\ r < sb.blocks_per_group /\ 0 <= s /\ s < sb.blocks_per_group
    BY <1>1, <1>2, <1>3, <2>1
  <2>3. sb.blocks_per_group * g + r = sb.blocks_per_group * h + s
    BY <1>2, <1>3, <2>1
  <2>4. QED
    BY <1>1, <2>1, <2>2, <2>3, DivUnique
<1>5. o = p
  <2>1. PICK z \in Int : z = 0
    OBVIOUS
  <2>2. sb.inode_size * o + z = sb.inode_size * p + z /\ 0 <= z /\ z < sb.inode_size
    BY <1>1, <1>2, <1>3, <2>1
  <2>3. QED
    BY <1>1, <2>2, DivUnique
<1>6. QED
  BY <1>2, <1>3, <1>4, <1>5

\* Every inode lies on the disk.
LEMMA InodeOnDisk ==
  ASSUME superblock \in Superblocks, NEW n \in Inodes
  PROVE  /\ InodeBlock(n) \in 0..(superblock.blocks_count - 1)
         /\ InodeOffset(n) \in 0..(superblock.block_size - 1)
         /\ Accepted(n)
         /\ InodeBlock(n) < bg_inode_table(ext2_get_inode_block_group(n)) + TableBlocks
<1> DEFINE sb == superblock
<1>1. /\ sb.blocks_per_group \in Nat /\ sb.blocks_count \in Nat
      /\ sb.inode_size \in Nat /\ sb.inode_size > 0 /\ sb.block_size \in Nat
      /\ inodes_per_block \in Nat /\ sb.block_size = sb.inode_size * inodes_per_block
      /\ TableBlocks \in Nat /\ Groups \in Nat /\ groups_count \in Nat
      /\ Groups <= groups_count
      /\ sb.blocks_per_group * (Groups - 1) + 4 + TableBlocks <= sb.blocks_count
      /\ sb.inodes_per_group \in Nat
  BY Layout
<1>2. PICK g \in Nat, i \in Nat, b \in Nat, o \in Nat :
        /\ g = ext2_get_inode_block_group(n)
        /\ o < inodes_per_block /\ b < TableBlocks /\ g < Groups
        /\ bg_inode_table(g) = sb.blocks_per_group * g + 4
        /\ InodeBlock(n) = sb.blocks_per_group * g + (4 + b)
        /\ InodeOffset(n) = sb.inode_size * o
  BY InodePlace
<1> HIDE DEF sb
<1>3. PICK p, q \in Nat : p = sb.blocks_per_group * g /\ q = sb.inode_size * o
  BY <1>1
<1>4. PICK t \in Int : t = sb.blocks_per_group * (Groups - 1)
  BY <1>1
<1>5. p <= t
  <2>1. g < Groups - 1 => sb.blocks_per_group * g + sb.blocks_per_group <= t
    BY <1>1, <1>4, Grows
  <2>2. g = Groups - 1 => p = t
    BY <1>3, <1>4
  <2>3. QED
    BY <1>1, <1>2, <1>3, <1>4, <2>1, <2>2
<1>6. q + sb.inode_size <= sb.block_size
  BY <1>1, <1>2, <1>3, Grows
<1>7. InodeBlock(n) \in 0..(sb.blocks_count - 1)
  BY <1>1, <1>2, <1>3, <1>4, <1>5
<1>8. InodeOffset(n) \in 0..(sb.block_size - 1)
  BY <1>1, <1>2, <1>3, <1>6
<1>9. InodeBlock(n) < bg_inode_table(g) + TableBlocks
  BY <1>1, <1>2, <1>3
<1>10. Accepted(n)
  <2>1. n # 0
    BY <1>1 DEF Inodes, sb
  <2>2. QED
    BY <1>1, <1>2, <2>1 DEF Accepted
<1>11. QED
  BY <1>2, <1>7, <1>8, <1>9, <1>10 DEF sb

Values == InodeValues \cup {Unwritten}

\* The tables hold, at the place of each inode, what was last written to it.
InodesInv ==
  /\ superblock \in Superblocks
  /\ table \in [0..(superblock.blocks_count - 1) -> [0..(superblock.block_size - 1) -> Values]]
  /\ stored \in [Inodes -> Values]
  /\ \A n \in Inodes : table[InodeBlock(n)][InodeOffset(n)] = stored[n]

\* Writing an inode leaves the others.
LEMMA WriteInodeStep ==
  ASSUME InodesInv, NEW n \in Inodes, NEW value \in InodeValues, ext2_write_inode(n, value)
  PROVE  InodesInv'
<1>1. /\ superblock' = superblock /\ superblock \in Superblocks
      /\ table' = [table EXCEPT ![InodeBlock(n)][InodeOffset(n)] = value]
      /\ stored' = [stored EXCEPT ![n] = value]
  BY DEF InodesInv, ext2_write_inode
<1>2. /\ Inodes' = Inodes
      /\ \A m : InodeBlock(m)' = InodeBlock(m) /\ InodeOffset(m)' = InodeOffset(m)
  BY <1>1 DEF Inodes, Groups, InodeBlock, InodeOffset, bg_inode_table, inodes_per_block,
              ext2_get_inode_block_group, ext2_get_inode_index
<1>3. PICK B, S : B = 0..(superblock.blocks_count - 1) /\ S = 0..(superblock.block_size - 1)
  OBVIOUS
<1>4. \A m \in Inodes : InodeBlock(m) \in B /\ InodeOffset(m) \in S
  BY <1>1, <1>3, InodeOnDisk
<1>5. table \in [B -> [S -> Values]] /\ stored \in [Inodes -> Values] /\ value \in Values
  BY <1>3 DEF InodesInv, Values
<1>6. table' \in [B -> [S -> Values]] /\ stored' \in [Inodes -> Values]
  BY <1>1, <1>4, <1>5
<1>7. ASSUME NEW m \in Inodes
      PROVE  table'[InodeBlock(m)][InodeOffset(m)] = stored'[m]
  <2>1. CASE m = n
    BY <1>1, <1>4, <1>5, <2>1
  <2>2. CASE m # n
    <3>1. InodeBlock(m) # InodeBlock(n) \/ InodeOffset(m) # InodeOffset(n)
      BY <1>1, <2>2, InodesDistinct
    <3>2. table'[InodeBlock(m)][InodeOffset(m)] = table[InodeBlock(m)][InodeOffset(m)]
      BY <1>1, <1>4, <1>5, <3>1
    <3>3. QED
      BY <1>1, <1>5, <2>2, <3>2 DEF InodesInv
  <2>3. QED
    BY <2>1, <2>2
<1>8. QED
  BY <1>1, <1>2, <1>3, <1>6, <1>7 DEF InodesInv

\* ext2_read_inode returns, for each inode of each group, what ext2_write_inode last wrote
\* to it, on every disk that mkfs makes.
THEOREM InodesStayApart == InodesSpec => []InodesApart
<1>1. ASSUME InodesInit PROVE InodesInv
  <2>1. superblock \in Superblocks /\ Unwritten \in Values
    BY <1>1 DEF InodesInit, Values
  <2>2. /\ table = [b \in 0..(superblock.blocks_count - 1) |->
                      [u \in 0..(superblock.block_size - 1) |-> Unwritten]]
        /\ stored = [n \in Inodes |-> Unwritten]
    BY <1>1 DEF InodesInit, BlankTable
  <2>3. QED
    BY <2>1, <2>2, InodeOnDisk DEF InodesInv
<1>2. ASSUME InodesInv, [InodesNext]_nvars PROVE InodesInv'
  <2>1. CASE UNCHANGED nvars
    <3>1. superblock' = superblock /\ table' = table /\ stored' = stored
      BY <2>1 DEF nvars
    <3>2. /\ Inodes' = Inodes
          /\ \A m : InodeBlock(m)' = InodeBlock(m) /\ InodeOffset(m)' = InodeOffset(m)
      BY <3>1 DEF Inodes, Groups, InodeBlock, InodeOffset, bg_inode_table, inodes_per_block,
                  ext2_get_inode_block_group, ext2_get_inode_index
    <3>3. QED
      BY <1>2, <3>1, <3>2 DEF InodesInv
  <2>2. QED
    BY <1>2, <2>1, WriteInodeStep DEF InodesNext
<1>3. InodesInv => InodesApart
  BY InodeOnDisk DEF InodesInv, InodesApart, ext2_read_inode
<1>4. QED
  BY <1>1, <1>2, <1>3, PTL DEF InodesSpec

-----------------------------------------------------------------------------
FirstBlockRead == request.offset \div BLOCK_SIZE

\* What DataExact asks of the request: it ends below the double indirect blocks and does
\* not start inside a hole.
Plain ==
  /\ EndBlock <= DIRECT + POINTERS
  /\ request.offset % BLOCK_SIZE # 0 => FirstBlockRead \in mapped

\* What has been copied, all of the blocks before this one.
Copied ==
  /\ block = FirstBlockRead => out = <<>>
  /\ block > FirstBlockRead =>
       Len(out) = IF BLOCK_SIZE * block - request.offset < request.size
                  THEN BLOCK_SIZE * block - request.offset ELSE request.size
  /\ \A k \in 1..Len(out) : out[k] = ByteAt(request.offset + k - 1)
  /\ state = "done" => Len(out) = request.size

DataInv ==
  /\ request.offset \in Nat /\ request.size \in Nat /\ request.size > 0
  /\ block \in Nat /\ FirstBlockRead <= block /\ block <= EndBlock
  /\ state \in {"reading", "done"} /\ out \in Seq(Nat)
  /\ ~faulty /\ Plain => Copied

\* The blocks of the request.
LEMMA RequestBlocks ==
  ASSUME request.offset \in Nat, request.size \in Nat, request.size > 0
  PROVE  /\ FirstBlockRead \in Nat /\ EndBlock \in Nat /\ FirstBlockRead < EndBlock
         /\ BLOCK_SIZE \in Nat /\ BLOCK_SIZE > 0
         /\ request.offset % BLOCK_SIZE \in Nat /\ request.offset % BLOCK_SIZE < BLOCK_SIZE
         /\ request.offset = BLOCK_SIZE * FirstBlockRead + (request.offset % BLOCK_SIZE)
         /\ request.offset + request.size <= BLOCK_SIZE * EndBlock
<1>1. BLOCK_SIZE \in Nat /\ BLOCK_SIZE > 0
  BY DataAssumption
<1>2. PICK f \in Nat, r \in Nat :
        /\ f = FirstBlockRead /\ r = request.offset % BLOCK_SIZE /\ r < BLOCK_SIZE
        /\ request.offset = BLOCK_SIZE * f + r
  <2>1. PICK a \in Nat : a = request.offset
    OBVIOUS
  <2>2. /\ a \div BLOCK_SIZE \in Nat /\ a % BLOCK_SIZE \in Nat /\ a % BLOCK_SIZE < BLOCK_SIZE
        /\ a = BLOCK_SIZE * (a \div BLOCK_SIZE) + (a % BLOCK_SIZE)
    BY <1>1, DivMod
  <2>3. QED
    BY <2>1, <2>2 DEF FirstBlockRead
<1>3. PICK a \in Nat : a = request.offset + request.size
  OBVIOUS
<1>4. PICK e \in Nat : e = EndBlock /\ a <= BLOCK_SIZE * e
  <2>1. CeilDiv(a, BLOCK_SIZE) \in Nat /\ a <= BLOCK_SIZE * CeilDiv(a, BLOCK_SIZE)
    BY <1>1, CeilDivIs, Zenon
  <2>2. CeilDiv(a, BLOCK_SIZE) = EndBlock
    BY <1>3 DEF CeilDiv, EndBlock
  <2>3. QED
    BY <2>1, <2>2
<1>5. f < e
  <2>1. BLOCK_SIZE * e \in Int /\ BLOCK_SIZE * f \in Int
    BY <1>1
  <2>2. e < f => BLOCK_SIZE * e + BLOCK_SIZE <= BLOCK_SIZE * f
    BY <1>1, Grows
  <2>3. BLOCK_SIZE * f < BLOCK_SIZE * e
    BY <1>2, <1>3, <1>4, <2>1
  <2>4. e # f
    BY <2>1, <2>3
  <2>5. QED
    BY <1>1, <2>1, <2>2, <2>3, <2>4
<1>6. QED
  BY <1>1, <1>2, <1>3, <1>4, <1>5

\* How many bytes a pass copies.
LEMMA ToCopyIs ==
  ASSUME NEW n \in Nat, n > 0, Wanted \in Int, Wanted > 0
  PROVE  /\ ToCopy(n) \in Nat
         /\ ToCopy(n) = IF n < Wanted THEN n ELSE Wanted
<1>1. PICK w \in Int : w = Wanted
  OBVIOUS
<1>2. PICK m \in Int : m = IF n < w THEN n ELSE w
  OBVIOUS
<1>3. m \in {n, w} /\ \A y \in {n, w} : m <= y
  BY <1>2
<1>4. \A x \in {n, w} : (\A y \in {n, w} : x <= y) => x = m
  BY <1>3
<1>5. Min({n, w}) = m
  BY <1>3, <1>4 DEF Min
<1>6. QED
  BY <1>1, <1>2, <1>5 DEF ToCopy

\* One sequence behind the other.
LEMMA Behind ==
  ASSUME NEW a \in Seq(Nat), NEW b \in Seq(Nat)
  PROVE  /\ a \o b \in Seq(Nat) /\ Len(a \o b) = Len(a) + Len(b)
         /\ \A k \in 1..Len(a) : (a \o b)[k] = a[k]
         /\ \A k \in 1..Len(b) : (a \o b)[Len(a) + k] = b[k]
<1>1. a \o b \in Seq(Nat) /\ Len(a \o b) = Len(a) + Len(b)
  OBVIOUS
<1>2. \A k \in 1..Len(a) : (a \o b)[k] = a[k]
  OBVIOUS
<1>3. \A k \in 1..Len(b) : (a \o b)[Len(a) + k] = b[k]
  OBVIOUS
<1>4. QED
  BY <1>1, <1>2, <1>3, Zenon

\* Bytes put behind those already there.
LEMMA Appended ==
  ASSUME NEW s \in Seq(Nat), NEW n \in Nat, NEW g \in [1..n -> Nat]
  PROVE  /\ s \o g \in Seq(Nat) /\ Len(s \o g) = Len(s) + n
         /\ \A k \in 1..Len(s) : (s \o g)[k] = s[k]
         /\ \A k \in 1..n : (s \o g)[Len(s) + k] = g[k]
<1>1. g \in Seq(Nat) /\ Len(g) = n
  OBVIOUS
<1>2. /\ s \o g \in Seq(Nat) /\ Len(s \o g) = Len(s) + Len(g)
      /\ \A k \in 1..Len(s) : (s \o g)[k] = s[k]
      /\ \A k \in 1..Len(g) : (s \o g)[Len(s) + k] = g[k]
  BY <1>1, Behind, Zenon
<1>3. QED
  BY <1>1, <1>2, Zenon

\* Where a pass that meets no fault stands in the file, and what it copies.
LEMMA PassIs ==
  ASSUME DataInv, read_block_data, ~faulty', Plain
  PROVE  \E n \in Nat, base \in Nat : \E g \in [1..n -> Nat] :
           /\ out' = out \o g
           /\ base = request.offset + Len(out)
           /\ base + n = IF BLOCK_SIZE * (block + 1) < request.offset + request.size
                         THEN BLOCK_SIZE * (block + 1) ELSE request.offset + request.size
           /\ \A k \in 1..n : g[k] = ByteAt(base + k - 1)
<1>1. /\ request.offset \in Nat /\ request.size \in Nat /\ request.size > 0 /\ out \in Seq(Nat)
      /\ block \in Nat /\ FirstBlockRead <= block /\ block < EndBlock /\ Wanted > 0
      /\ BLOCK_SIZE \in Nat /\ BLOCK_SIZE > 0
  BY RequestBlocks DEF DataInv, read_block_data
<1>2. ~faulty /\ Copied
  BY Zenon DEF DataInv, read_block_data
<1>3. \/ block \notin mapped /\ Hole
      \/ block \in mapped /\ Copy
  <2>1. EndBlock \in Nat /\ DIRECT \in Nat /\ POINTERS \in Nat
    BY <1>1, RequestBlocks, DataAssumption
  <2>2. block < DIRECT + POINTERS
    BY <1>1, <2>1 DEF Plain
  <2>3. block \in Pointers(TRUE) <=> block \in mapped
    BY <1>1, <2>1, <2>2 DEF Pointers
  <2>4. QED
    BY <2>3, Zenon DEF read_block_data
<1>4. /\ BlockOffset \in Nat /\ BlockOffset < BLOCK_SIZE
      /\ block \notin mapped => BlockOffset = 0
      /\ BLOCK_SIZE * block + BlockOffset = request.offset + Len(out)
  <2>1. CASE block = FirstBlockRead
    <3>1. BlockOffset = request.offset % BLOCK_SIZE /\ Len(out) = 0
      BY <1>2, <2>1 DEF BlockOffset, FirstBlockRead, Copied
    <3>2. PICK r \in Nat : /\ r = request.offset % BLOCK_SIZE /\ r < BLOCK_SIZE
                           /\ request.offset = BLOCK_SIZE * block + r
      BY <1>1, <2>1, RequestBlocks
    <3>3. block \notin mapped => r = 0
      BY <2>1, <3>2 DEF Plain
    <3>4. QED
      BY <1>1, <3>1, <3>2, <3>3
  <2>2. CASE block # FirstBlockRead
    <3>1. BlockOffset = 0
      BY <2>2 DEF BlockOffset, FirstBlockRead
    <3>2. FirstBlockRead \in Nat /\ block > FirstBlockRead
      BY <1>1, <2>2, RequestBlocks
    <3>3. PICK p \in Int : p = BLOCK_SIZE * block
      BY <1>1
    <3>4. Len(out) = IF p - request.offset < request.size THEN p - request.offset ELSE request.size
      BY <1>2, <3>2, <3>3 DEF Copied
    <3>5. Len(out) < request.size
      BY <1>1 DEF Wanted
    <3>6. p = request.offset + Len(out)
      BY <1>1, <3>3, <3>4, <3>5
    <3>7. QED
      BY <1>1, <3>1, <3>3, <3>6
  <2>3. QED
    BY <2>1, <2>2
<1>5. PICK base \in Nat : base = request.offset + Len(out) /\ base = BLOCK_SIZE * block + BlockOffset
  BY <1>1, <1>4
<1>6. Wanted \in Int /\ Wanted = request.size - Len(out)
  BY <1>1 DEF Wanted
<1>7. PICK m \in Nat : m = BLOCK_SIZE - BlockOffset /\ m > 0
  BY <1>1, <1>4
<1>8. PICK n \in Nat : n = ToCopy(m) /\ n = IF m < Wanted THEN m ELSE Wanted
  BY <1>1, <1>6, <1>7, ToCopyIs
<1>9. base + n = IF BLOCK_SIZE * (block + 1) < request.offset + request.size
                 THEN BLOCK_SIZE * (block + 1) ELSE request.offset + request.size
  <2>1. PICK p \in Int : p = BLOCK_SIZE * block /\ BLOCK_SIZE * (block + 1) = p + BLOCK_SIZE
    BY <1>1
  <2>2. base + m = p + BLOCK_SIZE
    BY <1>1, <1>4, <1>5, <1>7, <2>1
  <2>3. base + Wanted = request.offset + request.size
    BY <1>1, <1>5, <1>6
  <2>4. PICK w \in Int, t \in Int : w = Wanted /\ t = request.offset + request.size
    BY <1>1, <1>6
  <2>a. PICK q \in Int : q = p + BLOCK_SIZE
    BY <1>1
  <2>b. base + m = q /\ base + w = t /\ n = IF m < w THEN m ELSE w
    BY <1>8, <2>2, <2>3, <2>4, <2>a
  <2>c. base + n = IF q < t THEN q ELSE t
    BY <2>b
  <2>5. base + n = IF p + BLOCK_SIZE < t THEN p + BLOCK_SIZE ELSE t
    BY <2>a, <2>c
  <2>6. QED
    BY <2>1, <2>4, <2>5
<1>10. \A k \in 1..n : base + k - 1 \in Nat /\ ByteAt(base + k - 1) \in Nat
  BY DEF ByteAt
<1> DEFINE g == [k \in 1..n |-> ByteAt(base + k - 1)]
<1>11. g \in [1..n -> Nat]
  BY <1>10
<1>12. out' = out \o g
  <2>1. CASE block \in mapped /\ Copy
    <3>1. \A k \in 1..n : block * BLOCK_SIZE + BlockOffset + k - 1 = base + k - 1
      BY <1>1, <1>4, <1>5
    <3>2. out' = out \o [k \in 1..n |-> ByteAt(block * BLOCK_SIZE + BlockOffset + k - 1)]
      BY <1>7, <1>8, <2>1 DEF Copy
    <3>3. [k \in 1..n |-> ByteAt(block * BLOCK_SIZE + BlockOffset + k - 1)] = g
      BY <3>1
    <3>4. QED
      BY <3>2, <3>3, Zenon
  <2>2. CASE block \notin mapped /\ Hole
    <3>1. m = BLOCK_SIZE /\ base = BLOCK_SIZE * block
      BY <1>1, <1>4, <1>5, <1>7, <2>2
    <3>2. out' = out \o [k \in 1..n |-> 0]
      BY <1>8, <2>2, <3>1, Zenon DEF Hole
    <3>3. ASSUME NEW k \in 1..n PROVE ByteAt(base + k - 1) = 0
      <4>1. PICK a \in Nat : a = base + k - 1
        OBVIOUS
      <4>2. n <= BLOCK_SIZE
        BY <1>1, <1>6, <1>8, <3>1
      <4>0. k \in Nat /\ k >= 1 /\ k <= BLOCK_SIZE
        BY <1>1, <4>2
      <4>3. BLOCK_SIZE * block <= a /\ a < BLOCK_SIZE * block + BLOCK_SIZE
        <5>1. PICK q \in Int : q = BLOCK_SIZE * block /\ base = q
          BY <3>1
        <5>2. q <= a /\ a < q + BLOCK_SIZE
          BY <1>1, <4>0, <4>1, <5>1
        <5>3. QED
          BY <5>1, <5>2
      <4>4. a \div BLOCK_SIZE = block
        <5>1. BLOCK_SIZE \in Nat /\ block \in Int
          BY <1>1
        <5>2. QED
          BY <4>3, <5>1, DivIs, Zenon
      <4>5. QED
        BY <2>2, <4>1, <4>4 DEF ByteAt
    <3>4. [k \in 1..n |-> 0] = g
      BY <3>3
    <3>5. QED
      BY <3>2, <3>4, Zenon
  <2>3. QED
    BY <1>3, <2>1, <2>2, Zenon
<1>13. \A k \in 1..n : g[k] = ByteAt(base + k - 1)
  OBVIOUS
<1> HIDE DEF g
<1>14. QED
  BY <1>5, <1>9, <1>11, <1>12, <1>13, Zenon

\* A pass of the loop keeps the invariant.
LEMMA PassStep ==
  ASSUME DataInv, read_block_data
  PROVE  DataInv'
<1>1. /\ request' = request /\ mapped' = mapped /\ state' = state /\ state = "reading"
      /\ block' = block + 1
  BY DEF read_block_data
<1>2. /\ request.offset \in Nat /\ request.size \in Nat /\ request.size > 0 /\ out \in Seq(Nat)
      /\ block \in Nat /\ FirstBlockRead <= block /\ block < EndBlock /\ Wanted > 0
      /\ BLOCK_SIZE \in Nat /\ BLOCK_SIZE > 0 /\ EndBlock \in Nat /\ FirstBlockRead \in Nat
  BY RequestBlocks DEF DataInv, read_block_data
<1>3. FirstBlockRead' = FirstBlockRead /\ EndBlock' = EndBlock /\ Plain' = Plain
  BY <1>1 DEF FirstBlockRead, EndBlock, Plain
<1>4. \A p : ByteAt(p)' = ByteAt(p)
  BY <1>1 DEF ByteAt
<1>5. out' \in Seq(Nat)
  <2>1. Wanted \in Int
    BY <1>2 DEF Wanted
  <2>2. ASSUME Hole PROVE out' \in Seq(Nat)
    <3>1. PICK n \in Nat : n = ToCopy(BLOCK_SIZE)
      BY <1>2, <2>1, ToCopyIs
    <3>2. PICK g \in [1..n -> Nat] : g = [k \in 1..n |-> 0]
      BY Zenon
    <3>3. out' = out \o g
      BY <2>2, <3>1, <3>2 DEF Hole
    <3>4. QED
      BY <1>2, <3>3, Appended
  <2>3. ASSUME Copy PROVE out' \in Seq(Nat)
    <3>1. BlockOffset \in Nat /\ BlockOffset < BLOCK_SIZE
      BY <1>2, RequestBlocks DEF BlockOffset
    <3>2. PICK m \in Nat : m = BLOCK_SIZE - BlockOffset /\ m > 0
      BY <1>2, <3>1
    <3>3. PICK n \in Nat : n = ToCopy(m)
      BY <1>2, <2>1, <3>2, ToCopyIs
    <3>4. PICK s \in Nat : s = block * BLOCK_SIZE + BlockOffset
      BY <1>2, <3>1
    <3>5. \A k \in 1..n : s + k - 1 \in Nat /\ ByteAt(s + k - 1) \in Nat
      BY DEF ByteAt
    <3>6. PICK g \in [1..n -> Nat] : g = [k \in 1..n |-> ByteAt(s + k - 1)]
      BY <3>5, Zenon
    <3>7. out' = out \o g
      BY <2>3, <3>2, <3>3, <3>4, <3>6 DEF Copy
    <3>8. QED
      BY <1>2, <3>7, Appended
  <2>4. QED
    BY <1>2, <2>2, <2>3 DEF read_block_data
<1>6. ASSUME ~faulty', Plain PROVE Copied'
  <2>1. PICK n \in Nat, base \in Nat : \E g \in [1..n -> Nat] :
          /\ out' = out \o g
          /\ base = request.offset + Len(out)
          /\ base + n = IF BLOCK_SIZE * (block + 1) < request.offset + request.size
                        THEN BLOCK_SIZE * (block + 1) ELSE request.offset + request.size
          /\ \A k \in 1..n : g[k] = ByteAt(base + k - 1)
    BY <1>6, PassIs, Zenon
  <2>2. PICK g \in [1..n -> Nat] :
          /\ out' = out \o g
          /\ \A k \in 1..n : g[k] = ByteAt(base + k - 1)
    BY <2>1, Zenon
  <2>3. /\ Len(out') = Len(out) + n
        /\ \A k \in 1..Len(out) : out'[k] = out[k]
        /\ \A k \in 1..n : out'[Len(out) + k] = g[k]
    BY <1>2, <2>2, Appended, Zenon
  <2>4. PICK len \in Nat : len = Len(out)
    BY <1>2
  <2>5. \A k \in 1..Len(out') : out'[k] = ByteAt(request.offset + k - 1)
    <3>1. \A k \in 1..len : out[k] = ByteAt(request.offset + k - 1)
      BY <1>6, <2>4, Zenon DEF DataInv, Copied, read_block_data
    <3>2. ASSUME NEW k \in 1..(len + n), ~(k <= len)
          PROVE  out'[k] = ByteAt(request.offset + k - 1)
      <4>1. PICK j \in 1..n : k = len + j
        BY <3>2
      <4>2. out'[k] = ByteAt(base + j - 1)
        BY <2>2, <2>3, <2>4, <4>1
      <4>3. base + j - 1 = request.offset + k - 1
        <5>1. base = request.offset + len /\ request.offset \in Nat
          BY <1>2, <2>1, <2>4
        <5>2. QED
          BY <4>1, <5>1
      <4>4. QED
        BY <4>2, <4>3
    <3>3. \A k \in 1..(len + n) : k <= len => k \in 1..len
      OBVIOUS
    <3>4. QED
      BY <2>3, <2>4, <3>1, <3>2, <3>3
  <2>6. Len(out') = IF BLOCK_SIZE * (block + 1) - request.offset < request.size
                    THEN BLOCK_SIZE * (block + 1) - request.offset ELSE request.size
    <3>1. PICK q \in Int : q = BLOCK_SIZE * (block + 1)
      BY <1>2
    <3>2. base = request.offset + len
      BY <2>1, <2>4
    <3>3. base + n = IF q < request.offset + request.size THEN q ELSE request.offset + request.size
      BY <2>1, <3>1
    <3>4. len + n = IF q - request.offset < request.size THEN q - request.offset ELSE request.size
      <4>1. PICK o \in Int, z \in Int : o = request.offset /\ z = request.size
        BY <1>2
      <4>2. base = o + len /\ base + n = IF q < o + z THEN q ELSE o + z
        BY <3>2, <3>3, <4>1
      <4>3. len + n = IF q - o < z THEN q - o ELSE z
        BY <4>2
      <4>4. QED
        BY <4>1, <4>3
    <3>5. QED
      BY <2>3, <2>4, <3>1, <3>4
  <2>7. block' # FirstBlockRead
    BY <1>1, <1>2
  <2>8. QED
    BY <1>1, <1>3, <1>4, <2>5, <2>6, <2>7 DEF Copied
<1>7. block' \in Nat /\ FirstBlockRead <= block' /\ block' <= EndBlock
  BY <1>1, <1>2
<1>8. QED
  BY <1>1, <1>2, <1>3, <1>5, <1>6, <1>7 DEF DataInv

\* When the loop ends everything has been copied.
LEMMA DoneStep ==
  ASSUME DataInv, read_done
  PROVE  DataInv'
<1>1. /\ request' = request /\ mapped' = mapped /\ block' = block /\ out' = out
      /\ faulty' = faulty /\ state' = "done" /\ ~(block < EndBlock /\ Wanted > 0)
  BY DEF read_done
<1>2. /\ request.offset \in Nat /\ request.size \in Nat /\ request.size > 0 /\ out \in Seq(Nat)
      /\ block \in Nat /\ FirstBlockRead <= block /\ block <= EndBlock
      /\ BLOCK_SIZE \in Nat /\ BLOCK_SIZE > 0 /\ EndBlock \in Nat /\ FirstBlockRead \in Nat
      /\ FirstBlockRead < EndBlock /\ request.offset + request.size <= BLOCK_SIZE * EndBlock
  BY RequestBlocks DEF DataInv
<1>3. FirstBlockRead' = FirstBlockRead /\ EndBlock' = EndBlock /\ Plain' = Plain
  BY <1>1 DEF FirstBlockRead, EndBlock, Plain
<1>4. \A p : ByteAt(p)' = ByteAt(p)
  BY <1>1 DEF ByteAt
<1>5. ASSUME ~faulty, Plain PROVE Len(out) = request.size
  <2>1. Copied
    BY <1>5 DEF DataInv
  <2>2. CASE block = FirstBlockRead
    <3>1. Len(out) = 0 /\ Wanted > 0
      BY <1>2, <2>1, <2>2 DEF Copied, Wanted
    <3>2. QED
      BY <1>1, <1>2, <2>2, <3>1
  <2>3. CASE block > FirstBlockRead
    <3>1. PICK q \in Int : q = BLOCK_SIZE * block
      BY <1>2
    <3>2. Len(out) = IF q - request.offset < request.size THEN q - request.offset ELSE request.size
      BY <2>1, <2>3, <3>1 DEF Copied
    <3>3. CASE block = EndBlock
      <4>1. request.offset + request.size <= q
        BY <1>2, <3>1, <3>3
      <4>2. QED
        BY <1>2, <3>2, <4>1
    <3>4. CASE ~(Wanted > 0)
      BY <1>2, <3>2, <3>4 DEF Wanted
    <3>5. QED
      BY <1>1, <1>2, <3>3, <3>4
  <2>4. QED
    BY <1>2, <2>2, <2>3
<1>6. ASSUME ~faulty', Plain' PROVE Copied'
  BY <1>1, <1>3, <1>4, <1>5, <1>6 DEF DataInv, Copied
<1>7. QED
  BY <1>1, <1>2, <1>3, <1>6 DEF DataInv

\* ext2_read_inode_data: for every file, block size, offset and size, without a disk error,
\* exactly the bytes asked for.
THEOREM DataReadExact == DataSpec => []DataExact
<1>1. ASSUME DataInit PROVE DataInv
  <2>1. /\ request \in [offset : 0..(FileSize - 1), size : 1..FileSize]
        /\ block = FirstBlockRead /\ out = <<>> /\ state = "reading"
    BY <1>1 DEF DataInit, FirstBlockRead
  <2>2. request.offset \in Nat /\ request.size \in Nat /\ request.size > 0
    <3>1. PICK n \in Int : n = FileSize
      BY DataAssumption DEF FileSize
    <3>2. request.offset \in 0..(n - 1) /\ request.size \in 1..n
      BY <2>1, <3>1
    <3>3. QED
      BY <3>2
  <2>3. FirstBlockRead \in Nat /\ EndBlock \in Nat /\ FirstBlockRead < EndBlock
    BY <2>2, RequestBlocks
  <2>4. QED
    BY <2>1, <2>2, <2>3 DEF DataInv, Copied
<1>2. ASSUME DataInv, UNCHANGED dvars PROVE DataInv'
  BY <1>2 DEF DataInv, dvars, FirstBlockRead, EndBlock, Plain, Copied, ByteAt
<1>3. DataInv /\ [DataNext]_dvars => DataInv'
  BY <1>2, PassStep, DoneStep DEF DataNext
<1>4. DataInv => DataExact
  <2>1. SUFFICES ASSUME DataInv, state = "done", ~faulty, Plain
                 PROVE  out = [k \in 1..request.size |-> ByteAt(request.offset + k - 1)]
    BY DEF DataExact, Plain, FirstBlockRead
  <2>2. /\ out \in Seq(Nat) /\ Len(out) = request.size
        /\ \A k \in 1..Len(out) : out[k] = ByteAt(request.offset + k - 1)
    BY <2>1 DEF DataInv, Copied
  <2>3. out = [k \in 1..Len(out) |-> out[k]]
    BY <2>2
  <2>4. QED
    BY <2>2, <2>3
<1>5. QED
  BY <1>1, <1>3, <1>4, PTL DEF DataSpec
=============================================================================
