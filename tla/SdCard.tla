------------------------------- MODULE SdCard -------------------------------
(***************************************************************************)
(* The SD card driver (sd.rs) and EFI_BLOCK_IO on top of it                *)
(* (efi/block_io.rs): one command at a time through the SDHCI register     *)
(* interface, every wait bounded by a deadline.                            *)
(*                                                                         *)
(* The controller and the card are external: they go on with a command     *)
(* after the driver has given up on it, and they may fail in the ways the  *)
(* driver has an answer for.  A wait's deadline passes when the hardware   *)
(* will not move any more, or when it is slower than the deadline, which   *)
(* counts as one of MaxFaults faults.                                      *)
(***************************************************************************)
EXTENDS Naturals, Sequences

CONSTANTS
    Capacity,      \* blocks of the card
    SectorSize,    \* SECTOR_SIZE
    AddressSpace,  \* 2^32: addresses are u32
    Values,        \* what a block can hold
    Lbas,          \* block numbers callers ask for: any u64, on the card or not
    MaxCount,      \* most blocks of one ReadBlocks or WriteBlocks
    MaxRounds,     \* ACMD41 rounds that fit in its deadline
    MaxFaults,     \* bound on the faults of a behaviour
    MaxCalls       \* bound on the calls of a behaviour

ASSUME SdAssumption ==
    /\ {Capacity, SectorSize, MaxCount, MaxRounds} \subseteq Nat \ {0}
    /\ {MaxFaults, MaxCalls} \subseteq Nat
    /\ AddressSpace \in Nat /\ Capacity <= AddressSpace /\ AddressSpace % SectorSize = 0
    /\ Lbas \subseteq Nat
    /\ Values # {}

VARIABLES
    pc,         \* the wait the driver is in; "idle" between calls
    call,       \* the call in progress, or the last one
    cmd,        \* the command being sent
    rounds,     \* ACMD41 rounds left
    handle,     \* the addressing of the Card that Card::init returned last
    result,     \* what the last call returned
    out,        \* blocks a read has copied out
    status,     \* INT_STATUS
    resp,       \* what the RESP registers say to those who look at them
    job,        \* external: the command the controller is executing
    held,       \* external: an error left the inhibit bits set
    mode,       \* external: the card's own state
    flash,      \* external: the block the card is programming
    blocks,     \* external: the card's contents
    ccs,        \* external: the card is addressed by block number
    sick,       \* external: the card never gets ready
    faults, calls,
    handed,     \* history: what was last given to the card for a block number
                \* that names this block
    unseen      \* history: an error ended this call's last wait

driverVars == <<pc, call, cmd, rounds, handle, result, out>>
cardVars == <<mode, flash, blocks, ccs, sick>>
deviceVars == <<status, resp, job, held, cardVars>>
counters == <<faults, calls>>
history == <<handed, unseen>>
vars == <<driverVars, deviceVars, counters, history>>

Block == 0..(Capacity - 1)
(* External: only cards of up to 4 GiB are addressed by byte.              *)
AddressableByByte == Capacity * SectorSize <= AddressSpace
(* The block an address stands for, to the card.                           *)
Located(addr) == IF ccs THEN addr ELSE addr \div SectorSize
NoJob == [cmd |-> 0, addr |-> 0, stage |-> "none"]
NoWrite == <<>>
READ == 17
WRITE == 24

Init ==
    /\ pc = "idle" /\ cmd = 0 /\ rounds = 0 /\ handle = "none"
    /\ call = [op |-> "none", lba |-> 0, done |-> 0, left |-> 0, data |-> 0]
    /\ result = "none" /\ out = <<>>
    /\ status = {} /\ resp = "ok" /\ job = NoJob /\ held = FALSE
    /\ mode = "off" /\ flash = NoWrite /\ sick = FALSE
    /\ ccs \in BOOLEAN /\ (ccs \/ AddressableByByte)
    /\ blocks \in [Block -> Values]
    /\ faults = MaxFaults /\ calls = MaxCalls
    /\ handed = blocks /\ unseen = FALSE

-----------------------------------------------------------------------------
(* Calls.                                                                  *)

Begin(op, lba, count, v) ==
    /\ pc = "idle" /\ calls > 0
    /\ calls' = calls - 1
    /\ call' = [op |-> op, lba |-> lba, done |-> 0, left |-> count, data |-> v]
    /\ out' = <<>> /\ result' = "none" /\ unseen' = FALSE

(* Card::init: reset_all first.                                            *)
CallInit ==
    /\ Begin("init", 0, 0, 0)
    /\ pc' = "reset"
    /\ UNCHANGED <<cmd, rounds, handle, deviceVars, faults, handed>>

(* block_read and block_write, a loop of read_block or write_block; one    *)
(* block is what fat32.rs asks for.  Without a card they fail at once; the *)
(* block number is not compared with anything.                             *)
CallBlocks(op, lba, count, v) ==
    /\ Begin(op, lba, count, v)
    /\ handle # "none"
    /\ cmd' = IF op = "read" THEN READ ELSE WRITE
    /\ pc' = "inhibit"
    /\ UNCHANGED <<rounds, handle, deviceVars, faults, handed>>

Return(r) == pc' = "idle" /\ result' = r

(* lba as u32 + i as u32: the number handed to read_block or write_block.  *)
BlockNumber == (call.lba + call.done) % AddressSpace

(* Mutant of AddrOf: no conversion for byte-addressed cards. *)
AddrOf_Block(lba) == lba

(* addr: the block number, or the byte offset in a u32.                    *)
AddrOf(lba) ==
    IF handle = "block" THEN lba ELSE (lba * SectorSize) % AddressSpace

-----------------------------------------------------------------------------
(* The driver.                                                             *)

(* Mutant of ResetDone: RSTA is not written. *)
ResetDone_NoReset ==
    /\ pc = "reset"
    /\ pc' = "clock" /\ cmd' = 0
    /\ UNCHANGED <<call, rounds, handle, result, out, deviceVars, counters, history>>

(* reset_all succeeds: the controller forgets what it was doing; then the  *)
(* status bits are enabled and set_clock starts.                           *)
ResetDone ==
    /\ pc = "reset"
    /\ pc' = "clock" /\ cmd' = 0
    /\ status' = {} /\ job' = NoJob /\ held' = FALSE
    /\ UNCHANGED <<call, rounds, handle, result, out, resp, cardVars, counters, history>>

(* set_clock succeeds; cmd is the command that follows it.                 *)
ClockStable ==
    /\ pc = "clock"
    /\ pc' = "inhibit"
    /\ UNCHANGED <<call, cmd, rounds, handle, result, out, deviceVars, counters, history>>

Inhibited == held \/ job # NoJob

Issued(addr) ==
    IF job = NoJob THEN [cmd |-> cmd, addr |-> addr, stage |-> "sent"] ELSE job

(* Mutants of Issue: neither inhibit bit is waited for; stale status bits  *)
(* stay set.                                                               *)
Issue_Overlapping ==
    /\ pc = "inhibit"
    /\ status' = {}
    /\ job' = Issued(IF cmd \in {READ, WRITE} THEN AddrOf(BlockNumber) ELSE 0)
    /\ pc' = "command"
    /\ UNCHANGED <<call, cmd, rounds, handle, result, out, resp, held, cardVars, counters, history>>

Issue_KeepsStatus ==
    /\ pc = "inhibit" /\ ~Inhibited
    /\ status' = status
    /\ job' = Issued(IF cmd \in {READ, WRITE} THEN AddrOf(BlockNumber) ELSE 0)
    /\ pc' = "command"
    /\ UNCHANGED <<call, cmd, rounds, handle, result, out, resp, held, cardVars, counters, history>>

(* send_command once nothing inhibits it: stale status is cleared, then    *)
(* the command register written.                                           *)
Issue ==
    /\ pc = "inhibit" /\ ~Inhibited
    /\ status' = {}
    /\ job' = Issued(IF cmd \in {READ, WRITE} THEN AddrOf(BlockNumber) ELSE 0)
    /\ pc' = "command"
    /\ UNCHANGED <<call, cmd, rounds, handle, result, out, resp, held, cardVars, counters, history>>

(* A wait that an error ends: all status is cleared and the error returned.*)
SeeError ==
    /\ pc \in {"command", "buffer"} /\ "ERROR" \in status
    /\ status' = {}
    /\ Return("Error")
    /\ UNCHANGED <<call, cmd, rounds, handle, out, job, resp, held, cardVars, counters, history>>

(* The order of Card::init's commands.  Only the answers to CMD8 (its echo) *)
(* and ACMD41 (ready or busy) are looked at.                               *)
InitFollows(c) ==
    CASE c = 0 -> 8 [] c = 8 -> 55 [] c = 55 -> 41
      [] c = 41 -> 2 [] c = 2 -> 3 [] OTHER -> 7

(* Mutant of PollCard: the ACMD41 loop has no deadline. *)
PollCard_NoDeadline ==
    /\ cmd' = 55 /\ pc' = "inhibit" /\ UNCHANGED <<rounds, result>>

(* ACMD41 answered not ready: once more, or Timeout.                       *)
PollCard ==
    \/ /\ rounds > 0 /\ rounds' = rounds - 1
       /\ cmd' = 55 /\ pc' = "inhibit" /\ UNCHANGED result
    \/ /\ rounds = 0 /\ Return("Timeout") /\ UNCHANGED <<rounds, cmd>>

(* CMD_COMPLETE without an error: acknowledged, the response used.         *)
Complete(answer) ==
    /\ pc = "command" /\ "ERROR" \notin status
    /\ "CMD_COMPLETE" \in status /\ resp = answer
    /\ status' = status \ {"CMD_COMPLETE"}
    /\ UNCHANGED <<call, out, job, resp, held, cardVars, counters, history>>

CommandDone ==
    \/ /\ Complete("ok")
       /\ \/ /\ cmd \in {READ, WRITE}
             /\ pc' = "buffer" /\ UNCHANGED <<cmd, rounds, handle, result>>
          \/ /\ cmd = 7
             /\ handle' = IF ccs THEN "block" ELSE "byte"
             /\ Return("Ok") /\ UNCHANGED <<cmd, rounds>>
          \/ /\ cmd \notin {READ, WRITE, 7}
             /\ pc' = (IF cmd = 3 THEN "clock" ELSE "inhibit")
             /\ cmd' = InitFollows(cmd)
             /\ rounds' = IF cmd = 8 THEN MaxRounds ELSE rounds
             /\ UNCHANGED <<handle, result>>
    \/ /\ Complete("busy") /\ PollCard /\ UNCHANGED handle
    \/ /\ Complete("other") /\ Return("NoCard") /\ UNCHANGED <<cmd, rounds, handle>>

(* read_block: the buffer is drained into out.                             *)
Drain ==
    /\ pc = "buffer" /\ "ERROR" \notin status
    /\ call.op = "read" /\ "READ_READY" \in status
    /\ status' = status \ {"READ_READY"}
    /\ out' = Append(out, blocks[Located(job.addr)])
    /\ job' = [job EXCEPT !.stage = "moved"]
    /\ pc' = "transfer"
    /\ UNCHANGED <<call, cmd, rounds, handle, result, resp, held, cardVars, counters, history>>

(* The block that number lba names to a caller.  An address is a u32, so   *)
(* beyond 2^32 blocks, or 2^32 bytes, numbers come round to the same ones. *)
Named(lba) == lba % (IF ccs THEN AddressSpace ELSE AddressSpace \div SectorSize)

(* write_block: the buffer is filled, and the card starts programming.     *)
Fill ==
    /\ pc = "buffer" /\ "ERROR" \notin status
    /\ call.op = "write" /\ "WRITE_READY" \in status
    /\ status' = status \ {"WRITE_READY"}
    /\ flash' = <<Located(job.addr), call.data>>
    /\ handed' = [handed EXCEPT ![Named(call.lba + call.done)] = call.data]
    /\ job' = [job EXCEPT !.stage = "moved"]
    /\ pc' = "transfer"
    /\ UNCHANGED <<call, cmd, rounds, handle, result, out, resp, held,
                   mode, blocks, ccs, sick, counters, unseen>>

(* The loop of block_read and block_write goes on to the next block.       *)
BlockDone ==
    IF call.left = 1 THEN Return("Ok") /\ UNCHANGED call
    ELSE /\ call' = [call EXCEPT !.done = @ + 1, !.left = @ - 1]
         /\ pc' = "inhibit" /\ UNCHANGED result

(* Mutant of TransferDone: the last wait is missing. *)
TransferDone_NoWait ==
    /\ pc = "transfer"
    /\ status' = status \ {"TRANSFER_COMPLETE"}
    /\ unseen' = (unseen \/ "ERROR" \in status)
    /\ BlockDone
    /\ UNCHANGED <<cmd, rounds, handle, out, job, resp, held, cardVars, faults, calls, handed>>

(* The last wait ends on TRANSFER_COMPLETE or on an error, and which of    *)
(* them it was is not looked at.                                           *)
TransferDone ==
    /\ pc = "transfer" /\ status \cap {"TRANSFER_COMPLETE", "ERROR"} # {}
    /\ status' = status \ {"TRANSFER_COMPLETE"}
    /\ unseen' = (unseen \/ "ERROR" \in status)
    /\ BlockDone
    /\ UNCHANGED <<cmd, rounds, handle, out, job, resp, held, cardVars, faults, calls, handed>>

(* What each wait_while waits for.                                         *)
Waiting ==
    \/ pc \in {"reset", "clock"}
    \/ pc = "inhibit" /\ Inhibited
    \/ pc = "command" /\ "CMD_COMPLETE" \notin status
    \/ pc = "buffer" /\ (IF call.op = "read" THEN "READ_READY" ELSE "WRITE_READY") \notin status
    \/ pc = "transfer" /\ "TRANSFER_COMPLETE" \notin status

(* The hardware makes no further move by itself.                           *)
Stuck ==
    /\ pc \notin {"reset", "clock"}
    /\ flash = NoWrite
    /\ job.stage \in {"none", "ready", "lost"}

(* wait_while's deadline passes: Timeout, with the command left as it is.  *)
Timeout ==
    /\ Waiting /\ ("ERROR" \notin status \/ pc = "inhibit")
    /\ \/ Stuck /\ UNCHANGED faults
       \/ ~Stuck /\ faults > 0 /\ faults' = faults - 1
    /\ Return("Timeout")
    /\ UNCHANGED <<call, cmd, rounds, handle, out, deviceVars, calls, history>>

-----------------------------------------------------------------------------
(* The controller and the card.                                            *)

Accepts(c) ==
    CASE c = 0 -> TRUE
      [] c \in {8, 55, 41} -> mode = "idle"
      [] c = 2 -> mode = "ready"
      [] c = 3 -> mode = "ident"
      [] c = 7 -> mode = "standby"
      [] OTHER -> mode = "transfer" /\ flash = NoWrite

ModeAfter(c) ==
    CASE c = 0 -> "idle" [] c = 41 -> "ready" [] c = 2 -> "ident"
      [] c = 3 -> "standby" [] c = 7 -> "transfer" [] OTHER -> mode

AnswersOk ==
    /\ job.stage = "sent" /\ Accepts(job.cmd)
    /\ ~(job.cmd = 41 /\ sick)
    /\ status' = status \cup {"CMD_COMPLETE"} /\ resp' = "ok"
    /\ mode' = ModeAfter(job.cmd)
    /\ flash' = IF job.cmd = 0 THEN NoWrite ELSE flash
    /\ job' = IF job.cmd \in {READ, WRITE} THEN [job EXCEPT !.stage = "data"] ELSE NoJob
    /\ UNCHANGED <<held, blocks, ccs, sick, faults>>

(* ACMD41 while the card is still powering up.                             *)
AnswersBusy ==
    /\ job.stage = "sent" /\ job.cmd = 41 /\ Accepts(41)
    /\ sick \/ rounds > 0
    /\ status' = status \cup {"CMD_COMPLETE"} /\ resp' = "busy"
    /\ job' = NoJob
    /\ UNCHANGED <<held, cardVars, faults>>

(* A command the card's state does not allow gets no response, one for an  *)
(* address past the card's end no data.                                    *)
Refuses ==
    /\ \/ job.stage = "sent" /\ ~Accepts(job.cmd)
       \/ job.stage = "data" /\ Located(job.addr) \notin Block
    /\ status' = status \cup {"ERROR"}
    /\ job' = NoJob
    /\ UNCHANGED <<resp, held, cardVars, faults>>

BufferReady ==
    /\ job.stage = "data" /\ Located(job.addr) \in Block
    /\ status' = status \cup {IF job.cmd = READ THEN "READ_READY" ELSE "WRITE_READY"}
    /\ job' = [job EXCEPT !.stage = "ready"]
    /\ UNCHANGED <<resp, held, cardVars, faults>>

Programs ==
    /\ flash # NoWrite
    /\ blocks' = [blocks EXCEPT ![flash[1]] = flash[2]]
    /\ flash' = NoWrite
    /\ UNCHANGED <<status, job, resp, held, mode, ccs, sick, faults>>

Finishes ==
    /\ job.stage = "moved" /\ flash = NoWrite
    /\ status' = status \cup {"TRANSFER_COMPLETE"}
    /\ job' = NoJob
    /\ UNCHANGED <<resp, held, cardVars, faults>>

Progress == AnswersOk \/ AnswersBusy \/ Refuses \/ BufferReady \/ Programs \/ Finishes

(* A fault: an error interrupt at any stage, with the inhibit bits left    *)
(* set or not and the data just handed over accepted or not; a command     *)
(* that is never heard of again; a wrong echo to CMD8; a card that will    *)
(* not become ready.                                                       *)
Fault ==
    /\ faults > 0 /\ faults' = faults - 1
    /\ \/ /\ job.stage \in {"sent", "data", "ready", "moved"}
          /\ status' = status \cup {"ERROR"}
          /\ job' = NoJob
          /\ held' \in BOOLEAN
          /\ flash' \in {flash, NoWrite}
          /\ UNCHANGED <<resp, mode, sick>>
       \/ /\ job.stage \in {"sent", "data"}
          /\ job' = [job EXCEPT !.stage = "lost"]
          /\ UNCHANGED <<status, resp, held, mode, flash, sick>>
       \/ /\ job.stage = "sent" /\ job.cmd = 8
          /\ status' = status \cup {"CMD_COMPLETE"} /\ resp' = "other"
          /\ job' = NoJob
          /\ UNCHANGED <<held, mode, flash, sick>>
       \/ /\ ~sick /\ sick' = TRUE
          /\ UNCHANGED <<status, resp, job, held, mode, flash>>
    /\ UNCHANGED <<blocks, ccs>>

Device == (Progress \/ Fault) /\ UNCHANGED <<driverVars, calls, history>>

-----------------------------------------------------------------------------
Calls ==
    \/ CallInit
    \/ \E op \in {"read", "write"}, lba \in Lbas, n \in 1..MaxCount, v \in Values :
           (op = "read" => v = CHOOSE w \in Values : TRUE) /\ CallBlocks(op, lba, n, v)

Driver ==
    \/ ResetDone \/ ClockStable \/ Issue \/ SeeError \/ CommandDone
    \/ Drain \/ Fill \/ TransferDone \/ Timeout

Next == Calls \/ Driver \/ Device

Spec == Init /\ [][Next]_vars

(* The driver polls as long as a call is in progress, its deadlines pass   *)
(* because the timer interrupt counts on, and the hardware does what it is *)
(* able to do.                                                             *)
FairSpec ==
    /\ Spec
    /\ WF_vars(Driver)
    /\ WF_vars(Progress /\ UNCHANGED <<driverVars, calls, history>>)

-----------------------------------------------------------------------------
(* The registers, the call and the card stay in range.                     *)
TypeOK ==
    /\ pc \in {"idle", "reset", "clock", "inhibit", "command", "buffer", "transfer"}
    /\ cmd \in {0, 2, 3, 7, 8, 41, 55, READ, WRITE} /\ rounds \in 0..MaxRounds
    /\ call.lba \in Lbas \cup {0} /\ call.done \in 0..MaxCount /\ call.left \in 0..MaxCount
    /\ handle \in {"none", "block", "byte"}
    /\ result \in {"none", "Ok", "Error", "Timeout", "NoCard"}
    /\ out \in Seq(Values) /\ blocks \in [Block -> Values] /\ handed \in [Block -> Values]
    /\ flash = NoWrite \/ flash \in Block \X Values
    /\ job.stage \in {"none", "sent", "data", "ready", "moved", "lost"}
    /\ faults \in 0..MaxFaults /\ calls \in 0..MaxCalls

Returned(op) == pc = "idle" /\ result = "Ok" /\ call.op = op

Covered == {call.lba + i : i \in 0..call.done}

(* The blocks the call has been through are blocks of the card.            *)
OnCard == call.lba + call.done < Capacity

(* A read of blocks of the card that reports success delivers the blocks   *)
(* it was asked for, as they are on the card: nothing a timed-out or       *)
(* failed command left behind in the buffer or the status register         *)
(* (sd.rs send_command, read_block).                                       *)
ReadsWhatWasAsked ==
    Returned("read") /\ ~unseen /\ OnCard
        => out = [i \in 1..(call.done + 1) |-> blocks[call.lba + i - 1]]

(* A write that reports success, and met no error, is over: no earlier     *)
(* write is still on its way to the card, and its blocks are on it if they *)
(* are blocks of the card (sd.rs write_block waits for TRANSFER_COMPLETE). *)
WritesSettle ==
    Returned("write") /\ ~unseen
        => flash = NoWrite /\ (OnCard => \A b \in Covered : blocks[b] = call.data)

(* The last wait of write_block ends in an error and the block is reported *)
(* as written: "Writes one 512-byte block" (sd.rs), "sd.rs's writes are    *)
(* synchronous already" (block_io.rs).                                     *)
OkMeansWritten ==
    Returned("write") /\ OnCard => \A b \in Covered : blocks[b] = call.data

(* "lba is a block number regardless of the card's actual addressing mode" *)
(* (sd.rs read_block): a call for numbers past the card's end does not     *)
(* succeed on other blocks.                                                *)
OffTheCardFails == pc = "idle" /\ result = "Ok" /\ call.op # "init" => OnCard

(* Whatever fails, and however late the card acts on a command the driver  *)
(* gave up on, a block only ever changes to what was last handed over for  *)
(* a number that names it: no other block is hit, and no old write         *)
(* overtakes a newer one.  A number on the card names its own block; one   *)
(* past the card's end names, by the wrap of u32 addresses, a block of the *)
(* card if any, and a write to it does change that block (block_io.rs and  *)
(* sd.rs compare the number with nothing).                                 *)
LateWritesKeepOrder ==
    [][\A b \in Block : blocks'[b] # blocks[b] => blocks'[b] = handed[b]]_vars

(* Every wait has a deadline: no state of the hardware keeps a call from   *)
(* returning (sd.rs wait_while, and the ACMD41 loop of Card::init).        *)
CallsReturn == pc # "idle" ~> pc = "idle"

Healthy ==
    /\ faults = 0 /\ ~sick
    /\ \/ pc = "reset"
       \/ /\ pc = "inhibit" /\ call.op # "init" /\ call.done = 0
          /\ call.lba + call.left <= Capacity
          /\ mode = "transfer" /\ ~Inhibited /\ flash = NoWrite

(* Past faults are left behind: once the hardware works again a call on an *)
(* idle controller, for blocks of the card, succeeds, and Card::init       *)
(* succeeds whatever state the failed commands left controller and card in *)
(* (reset_all, CMD0 and the clearing of stale status).                     *)
FaultsHeal == Healthy ~> (pc = "idle" /\ result = "Ok")
=============================================================================
