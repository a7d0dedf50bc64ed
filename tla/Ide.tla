--------------------------------- MODULE Ide ---------------------------------
(***************************************************************************)
(* src/ide.c: the polling driver of one IDE channel with its two drives.   *)
(* A register access that matters is a step; the drives move on their own. *)
(* The drives are external.  As the driver assumes, the status of an       *)
(* absent drive is 0; as ATA has it, a drive takes no new command while    *)
(* its BSY or DRQ is set.                                                  *)
(***************************************************************************)
EXTENDS Integers, Sequences

CONSTANTS
  MaxPolls,             \* timeout = 10000 in the code
  LBAs,                 \* sectors of a drive
  MaxCount,             \* most sectors of one call
  MaxTransfers              \* bound

ASSUME IdeAssumption ==
  /\ LBAs \subseteq Nat /\ 0 \in LBAs /\ \A a, b \in LBAs : a..b \subseteq LBAs
  /\ MaxPolls \in Nat \ {0} /\ MaxCount \in Nat /\ MaxTransfers \in Nat

Drives == {0, 1}        \* master, slave

VARIABLES
  present,              \* the drives that are plugged in
  exists,               \* devices[].exists
  selected,             \* drive register of the channel
  drives,               \* BSY, DRQ, ERR and the command of each drive
  disk,                 \* what is on each drive
  ipc, call, polls, done,   \* the driver: place, arguments, polls of a wait, sectors moved
  buffer,               \* the caller's buffer
  rc,                   \* 0, -1, or 1 before the first return
  late,                 \* history: some wait has timed out
  requests

ivars == <<present, exists, selected, drives, disk, ipc, call, polls, done, buffer, rc, late,
           requests>>

\* A sector holds the old data of a drive, new data of a caller, or none we know.
Old(d, s) == <<"old", d, s>>
Payload(sector) == <<"new", 0, sector>>
NoData == <<"none", 0, 0>>

Quiet == [bsy |-> FALSE, drq |-> FALSE, err |-> FALSE, op |-> "none", lba |-> 0, left |-> 0,
         data |-> NoData]

IdeInit ==
  /\ present \in SUBSET Drives
  /\ exists = [d \in Drives |-> FALSE]
  /\ selected = 0
  /\ drives = [d \in Drives |-> Quiet]
  /\ disk = [d \in Drives |-> [s \in LBAs |-> Old(d, s)]]
  /\ ipc = "idle" /\ call = [op |-> "identify", drive |-> 0, lba |-> 0, count |-> 1]
  /\ polls = 0 /\ done = 0 /\ buffer = <<>> /\ rc = 1
  /\ late = FALSE /\ requests = 0

-----------------------------------------------------------------------------
\* The drives: a busy one answers when it likes, with data, with an error, or when it has
\* stored a sector.
drive_answers(d) ==
  /\ drives[d].bsy
  /\ \/ /\ drives' = [drives EXCEPT ![d].bsy = FALSE, ![d].err = TRUE, ![d].left = 0,
                                    ![d].data = NoData]
        /\ UNCHANGED disk
     \/ /\ drives[d].data = NoData
        /\ drives' = [drives EXCEPT ![d].bsy = FALSE, ![d].drq = (drives[d].op # "flush")]
        /\ UNCHANGED disk
     \/ /\ drives[d].data # NoData
        /\ drives' = [drives EXCEPT ![d].bsy = FALSE, ![d].drq = (drives[d].left > 1),
                                    ![d].lba = @ + 1, ![d].left = @ - 1, ![d].data = NoData]
        /\ disk' = [disk EXCEPT ![d][drives[d].lba] = drives[d].data]
  /\ UNCHANGED <<present, exists, selected, ipc, call, polls, done, buffer, rc, late, requests>>

\* The drives after a command has been written to drive d.
Commanded(d, op) ==
  IF d \notin present \/ drives[d].bsy \/ drives[d].drq THEN drives
  ELSE [drives EXCEPT ![d] = [Quiet EXCEPT !.bsy = TRUE, !.op = op, !.lba = call'.lba,
                                          !.left = call'.count]]

\* The status register, of the selected drive.
Present == selected \in present
Rdy == Present /\ ~drives[selected].bsy
Drq == Present /\ drives[selected].drq
Err == Present /\ drives[selected].err

Continue(place) == ipc' = place /\ polls' = 0
Return(value) == Continue("idle") /\ rc' = value
Device == <<present, exists, selected, drives, disk, requests, call>>

\* Mutated form: no limit.
TimedOutNever == FALSE

TimedOut == polls + 1 = MaxPolls

\* One poll that does not find what it waits for.
PollAgain(place, givesup) ==
  \/ /\ ~TimedOut /\ ipc' = place /\ polls' = polls + 1
     /\ UNCHANGED <<rc, late>>
  \/ TimedOut /\ late' = TRUE /\ givesup

\* ide_wait_ready, in its four places: before a command, after IDENTIFY, after each
\* sector written, and after the flush, whose outcome is ignored.
ide_wait_ready ==
  /\ \/ /\ ipc = "start"
        /\ IF Rdy THEN Continue("command") /\ UNCHANGED <<rc, late>>
           ELSE PollAgain("start", Return(-1))
     \/ /\ ipc = "identified"
        /\ IF Rdy THEN Continue("drq") /\ UNCHANGED <<rc, late>>
           ELSE PollAgain("identified", Return(-1))
     \/ /\ ipc = "written"
        /\ IF Rdy THEN Continue(IF done < call.count THEN "drq" ELSE "flush") /\ UNCHANGED <<rc, late>>
           ELSE PollAgain("written", Return(-1))
     \/ /\ ipc = "flushed"
        /\ IF Rdy THEN Return(0) /\ UNCHANGED late ELSE PollAgain("flushed", Return(0))
  /\ UNCHANGED <<Device, done, buffer>>

\* Mutated form: not busy is taken for ready to transfer.
wait_drq_rdy ==
  /\ ipc = "drq"
  /\ IF Rdy THEN Continue("transfer") /\ UNCHANGED <<rc, late>>
     ELSE PollAgain("drq", Return(-1))
  /\ UNCHANGED <<Device, done, buffer>>

ide_wait_drq ==
  /\ ipc = "drq"
  /\ IF Drq THEN Continue("transfer") /\ UNCHANGED <<rc, late>>
     ELSE IF Err THEN Return(-1) /\ UNCHANGED late
     ELSE PollAgain("drq", Return(-1))
  /\ UNCHANGED <<Device, done, buffer>>

StartCall(op, d, lba, count) ==
  /\ ipc = "idle"
  /\ requests' = requests + 1
  /\ call' = [op |-> op, drive |-> d, lba |-> lba, count |-> count]
  /\ polls' = 0 /\ done' = 0 /\ buffer' = <<>>
  /\ UNCHANGED <<present, disk, late>>

\* ide_init identifies the master, then the slave: select, command, and if the status
\* is 0 there is no drive.
ide_identify(d) ==
  /\ requests = d /\ StartCall("identify", d, 0, 1)
  /\ UNCHANGED exists
  /\ selected' = d
  /\ drives' = Commanded(d, "identify")
  /\ IF d \in present THEN ipc' = "identified" /\ UNCHANGED rc
     ELSE ipc' = "idle" /\ rc' = -1

\* ide_read_sectors and ide_write_sectors up to the wait: the device table and the count
\* are looked at, the drive is not yet selected.
ide_transfer_sectors(op, d, lba, count) ==
  /\ requests >= 2 /\ requests < 2 + MaxTransfers
  /\ StartCall(op, d, lba, count)
  /\ IF exists[d] /\ count > 0 THEN ipc' = "start" /\ rc' = 1
     ELSE ipc' = "idle" /\ rc' = -1
  /\ UNCHANGED <<exists, selected, drives>>

\* Drive, count and address go to the registers, and the command.
send_command ==
  /\ ipc = "command" /\ Continue("drq")
  /\ UNCHANGED call
  /\ selected' = call.drive
  /\ drives' = Commanded(call.drive, call.op)
  /\ UNCHANGED <<present, exists, disk, done, buffer, rc, late, requests>>

\* The drive after a sector went through its data register.
Moved(op, data) ==
  LET d == drives[selected] IN
  IF ~d.drq \/ d.op # op THEN drives
  ELSE IF op = "write" THEN [drives EXCEPT ![selected].drq = FALSE, ![selected].bsy = TRUE,
                                           ![selected].data = data]
  ELSE [drives EXCEPT ![selected].drq = FALSE, ![selected].bsy = (d.left > 1),
                      ![selected].lba = @ + 1, ![selected].left = @ - 1]

\* 256 words in: the sector the drive offers, or anything when it offers none.
read_data ==
  /\ ipc = "transfer" /\ call.op = "read"
  /\ done' = done + 1
  /\ drives' = Moved("read", NoData)
  /\ buffer' = Append(buffer, IF Drq /\ drives[selected].op = "read"
                              THEN disk[selected][drives[selected].lba] ELSE NoData)
  /\ \/ done' < call.count /\ Continue("drq") /\ UNCHANGED rc
     \/ done' = call.count /\ Return(0)
  /\ UNCHANGED <<present, exists, selected, disk, call, late, requests>>

\* The identification data; a drive without LBA is not taken.
identify_data ==
  /\ ipc = "transfer" /\ call.op = "identify"
  /\ drives' = Moved("identify", NoData)
  /\ \/ Return(0) /\ exists' = [exists EXCEPT ![call.drive] = TRUE]
     \/ Return(-1) /\ UNCHANGED exists
  /\ UNCHANGED <<present, selected, disk, call, done, buffer, late, requests>>

\* Mutated form: the sector after it.
write_data_ahead ==
  /\ ipc = "transfer" /\ call.op = "write"
  /\ drives' = Moved("write", Payload(done + 1))
  /\ done' = done + 1
  /\ Continue("written")
  /\ UNCHANGED <<present, exists, selected, disk, call, buffer, rc, late, requests>>

\* 256 words out: the caller's data for sector number done.
write_data ==
  /\ ipc = "transfer" /\ call.op = "write"
  /\ drives' = Moved("write", Payload(done))
  /\ done' = done + 1
  /\ Continue("written")
  /\ UNCHANGED <<present, exists, selected, disk, call, buffer, rc, late, requests>>

ide_flush ==
  /\ ipc = "flush" /\ Continue("flushed")
  /\ UNCHANGED call
  /\ drives' = Commanded(selected, "flush")
  /\ UNCHANGED <<present, exists, selected, disk, done, buffer, rc, late, requests>>

IdeNext ==
  \/ \E d \in Drives : drive_answers(d)
  \/ \E d \in Drives : ide_identify(d)
  \/ \E d \in Drives, op \in {"read", "write"}, lba \in LBAs, count \in 0..MaxCount :
       lba + count - 1 \in LBAs \union {lba - 1} /\ ide_transfer_sectors(op, d, lba, count)
  \/ ide_wait_ready \/ send_command \/ ide_wait_drq
  \/ read_data \/ identify_data \/ write_data \/ ide_flush

IdeSpec == IdeInit /\ [][IdeNext]_ivars

-----------------------------------------------------------------------------
\* A read that returns 0 has put into the buffer the sectors asked for, of the drive
\* asked, unless some earlier wait had timed out and the drive answered it late.
ReadExact ==
  ipc = "idle" /\ call.op = "read" /\ rc = 0 /\ ~late =>
    buffer = [k \in 1..call.count |-> disk[call.drive][call.lba + k - 1]]

\* A write that returns 0 has stored its sectors, under the same condition; of the last
\* sector the driver does not look at ERR, so only the others are sure.
WriteStored ==
  ipc = "idle" /\ call.op = "write" /\ rc = 0 /\ ~late =>
    \A k \in 0..(call.count - 2) : disk[call.drive][call.lba + k] = Payload(k)

\* ide.c: "Wait for drive to be ready".  A call gives up this wait only when the drive it
\* was called for is not ready.
GivesUpOnBusy ==
  [][ipc = "start" /\ ipc' = "idle" => drives[call.drive].bsy]_ivars
=============================================================================
