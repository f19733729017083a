---------------------------- MODULE SdCard_proofs ----------------------------
(***************************************************************************)
(* Proofs about the SD card driver, for every card size, every number of   *)
(* faults and every sequence of calls: what a call that reports success    *)
(* has done, and what a command the driver gave up on can still do.        *)
(***************************************************************************)
EXTENDS SdCard, TLAPS

Moving == call.op \in {"read", "write"}

(* The block the card takes the controller's command to be about. *)
Target == Located(job.addr)

(* The number of the block the call is at. *)
Current == call.lba + call.done

Call == [op : {"none", "init", "read", "write"}, lba : Lbas \cup {0},
         done : 0..MaxCount, left : 0..MaxCount, data : Values \cup {0}]
Job == [cmd : Nat, addr : Nat, stage : {"none", "sent", "data", "ready", "moved", "lost"}]

(* The types TypeOK leaves out. *)
TypeInv ==
  /\ TypeOK
  /\ call \in Call /\ job \in Job
  /\ ccs \in BOOLEAN /\ (ccs \/ AddressableByByte) /\ unseen \in BOOLEAN

(* The call in progress: its command is of its kind, it counts its blocks, *)
(* and its Card addresses the card the way the card expects.               *)
CallInv ==
  /\ handle # "none" => handle = (IF ccs THEN "block" ELSE "byte")
  /\ Moving => /\ call.left \in Nat \ {0} /\ call.done + call.left <= MaxCount
               /\ call.data \in Values
  /\ Moving /\ pc # "idle" => /\ pc \in {"inhibit", "command", "buffer", "transfer"}
                              /\ cmd = (IF call.op = "read" THEN READ ELSE WRITE)
                              /\ handle # "none"
  /\ ~Moving /\ pc # "idle" => /\ pc \in {"reset", "clock", "inhibit", "command"}
                               /\ pc # "reset" => cmd \notin {READ, WRITE}

(* The controller: an error or a completed transfer leaves it without a    *)
(* command; otherwise the command it executes is the one just issued,      *)
(* the card only answers a data command when no write is under way, and    *)
(* only hands over or takes data for a block it has.                       *)
JobInv ==
  /\ "TRANSFER_COMPLETE" \in status \/ "ERROR" \in status => job = NoJob
  /\ pc = "transfer" => job.stage \in {"moved", "none"}
  /\ Moving /\ pc \in {"command", "buffer"} /\ "ERROR" \notin status
       => /\ job.cmd = cmd /\ Target = Named(Current)
          /\ "READ_READY" \in status \/ "WRITE_READY" \in status => Target \in Block
          /\ job.stage \in {"sent", "data", "ready", "lost"}
          /\ pc = "buffer" \/ "CMD_COMPLETE" \in status \/ job.stage \in {"data", "ready"}
               => flash = NoWrite /\ job.stage # "sent"
          /\ "CMD_COMPLETE" \in status => resp = "ok"

(* A block still on its way to the card is the last one handed over for    *)
(* its address.                                                            *)
FlashInv == flash # NoWrite => flash[2] = handed[flash[1]]

Succeeding == Moving /\ ~unseen /\ (pc # "idle" \/ result = "Ok")

(* How many blocks the call is through with: the last one counts once its  *)
(* data has been moved.                                                    *)
Through == IF pc \in {"transfer", "idle"} THEN call.done + 1 ELSE call.done

(* A call that has met no error: what it is through with is on the card,   *)
(* or has been read from it, and nothing is left that could change it.     *)
DataInv ==
  Succeeding =>
    /\ call.op = "read" =>
         /\ call.lba + Through <= Capacity
              => out = [i \in 1..Through |-> blocks[call.lba + i - 1]]
         /\ Through > 0 => flash = NoWrite
    /\ call.op = "write" =>
         /\ \A b \in Block : call.lba <= b /\ b < Current => blocks[b] = call.data
         /\ call.done > 0 /\ pc # "transfer" => flash = NoWrite
         /\ pc = "idle" => flash = NoWrite /\ (OnCard => blocks[Current] = call.data)
         /\ pc = "transfer" =>
              /\ flash \in {NoWrite, <<Named(Current), call.data>>}
              /\ "ERROR" \notin status /\ flash = NoWrite /\ OnCard
                   => blocks[Current] = call.data
              /\ "TRANSFER_COMPLETE" \in status => flash = NoWrite

Inv == TypeInv /\ CallInv /\ JobInv /\ FlashInv /\ DataInv

-----------------------------------------------------------------------------
(* Arithmetic of addresses.  Dividing with remainder. *)
LEMMA Division ==
  ASSUME NEW a \in Nat, NEW k \in Nat \ {0}
  PROVE  /\ a \div k \in Nat /\ a % k \in Nat /\ a % k < k
         /\ a = k * (a \div k) + (a % k)
  OBVIOUS

(* One factor more is at least one more of the other. *)
LEMMA MulLE ==
  ASSUME NEW d \in Nat, NEW e \in Nat, NEW k \in Nat, d < e
  PROVE  k * d + k <= k * e
<1>1. PICK j \in Nat : e = d + 1 + j
  <2>1. e - d - 1 \in Nat /\ e = d + 1 + (e - d - 1)
    OBVIOUS
  <2> QED BY <2>1
<1>2. k * e = k * d + k + k * j
  BY <1>1, Z3
<1>3. k * j \in Nat
  BY <1>1
<1>4. QED
  BY <1>2, <1>3

(* Quotient and remainder are the only ones of their kind. *)
LEMMA DivisionUnique ==
  ASSUME NEW k \in Nat \ {0}, NEW d \in Nat, NEW r \in Nat, r < k
  PROVE  (k * d + r) % k = r /\ (k * d + r) \div k = d
<1> DEFINE a == k * d + r
<1> DEFINE e == a \div k
<1> DEFINE s == a % k
<1>1. a \in Nat
  OBVIOUS
<1>2. e \in Nat /\ s \in Nat /\ s < k /\ a = k * e + s
  BY <1>1, Division
<1>3. ~(d < e)
  <2> SUFFICES ASSUME d < e PROVE FALSE OBVIOUS
  <2>1. k * d + k <= k * e BY <1>2, MulLE
  <2> HIDE DEF e, s
  <2> QED BY <1>2, <2>1
<1>4. ~(e < d)
  <2> SUFFICES ASSUME e < d PROVE FALSE OBVIOUS
  <2>1. k * e + k <= k * d BY <1>2, MulLE
  <2> HIDE DEF e, s
  <2> QED BY <1>2, <2>1
<1> HIDE DEF e, s
<1>5. e = d
  BY <1>2, <1>3, <1>4
<1>6. s = r
  BY <1>2, <1>5
<1>7. QED
  BY <1>5, <1>6 DEF e, s

(* A multiple of the modulus does not change the remainder. *)
LEMMA ModShift ==
  ASSUME NEW k \in Nat \ {0}, NEW c \in Nat, NEW a \in Nat
  PROVE  (k * c + a) % k = a % k
<1> DEFINE d == a \div k
<1> DEFINE r == a % k
<1>1. d \in Nat /\ r \in Nat /\ r < k /\ a = k * d + r
  BY Division
<1> HIDE DEF d, r
<1>2. k * c + a = k * (c + d) + r
  BY <1>1, Z3
<1>3. (k * (c + d) + r) % k = r
  BY <1>1, DivisionUnique
<1>4. QED
  BY <1>2, <1>3 DEF r

(* Scaling a number and its modulus scales the remainder. *)
LEMMA ScaledDiv ==
  ASSUME NEW m \in Nat, NEW s \in Nat \ {0}, NEW k \in Nat \ {0}
  PROVE  ((m * s) % (k * s)) \div s = m % k
<1> DEFINE d == m \div k
<1> DEFINE r == m % k
<1>1. d \in Nat /\ r \in Nat /\ r < k /\ m = k * d + r
  BY Division
<1> HIDE DEF d, r
<1>2. k * s \in Nat \ {0} /\ r * s \in Nat
  BY <1>1
<1>3. r * s < k * s
  BY <1>1
<1>4. m * s = (k * s) * d + r * s
  BY <1>1, Z3
<1>5. (m * s) % (k * s) = r * s
  <2> DEFINE big == k * s
  <2> DEFINE rest == r * s
  <2>1. big \in Nat \ {0} /\ rest \in Nat /\ rest < big /\ m * s = big * d + rest
    BY <1>2, <1>3, <1>4
  <2> HIDE DEF big, rest
  <2>2. (big * d + rest) % big = rest
    BY <1>1, <2>1, DivisionUnique
  <2>3. (m * s) % big = rest
    BY <2>1, <2>2
  <2>4. QED
    BY <2>3 DEF big, rest
<1>6. (s * r + 0) \div s = r
  BY <1>1, DivisionUnique
<1>7. s * r + 0 = r * s
  BY <1>1
<1>8. QED
  BY <1>5, <1>6, <1>7 DEF r

(* Products can be regrouped. *)
LEMMA MulAssoc ==
  ASSUME NEW a \in Nat, NEW b \in Nat, NEW c \in Nat
  PROVE  b * c \in Nat /\ (a * b) * c = a * (b * c)
  OBVIOUS

(* Reducing a number below the modulus leaves it alone. *)
LEMMA SmallMod ==
  ASSUME NEW a \in Nat, NEW m \in Nat, a < m
  PROVE  a % m = a
  OBVIOUS

(* What the assumptions say of the u32 address space. *)
LEMMA SpaceFacts ==
  /\ AddressSpace \in Nat \ {0} /\ SectorSize \in Nat \ {0}
  /\ AddressSpace % SectorSize = 0
  BY SdAssumption

(* A block number cut to a u32, turned into a byte offset and cut to a u32 *)
(* again: the block it arrives at is the number reduced to the blocks that *)
(* byte offsets can tell apart.                                            *)
LEMMA AddressWraps ==
  ASSUME NEW n \in Nat
  PROVE  /\ ((n % AddressSpace) * SectorSize) % AddressSpace \in Nat
         /\ (((n % AddressSpace) * SectorSize) % AddressSpace) \div SectorSize = n % (AddressSpace \div SectorSize)
<1> DEFINE k == AddressSpace \div SectorSize
<1> DEFINE m == n % AddressSpace
<1> DEFINE q == n \div AddressSpace
<1>1. k \in Nat /\ AddressSpace = SectorSize * k + 0
  BY SpaceFacts, Division
<1>2. m \in Nat /\ q \in Nat /\ n = AddressSpace * q + m
  BY SpaceFacts, Division
<1> HIDE DEF k, m, q
<1>3. AddressSpace = k * SectorSize /\ k # 0
  BY <1>1, SpaceFacts
<1>4. n = k * (SectorSize * q) + m /\ SectorSize * q \in Nat
  <2>1. SectorSize * q \in Nat /\ (k * SectorSize) * q = k * (SectorSize * q)
    BY <1>1, <1>2, SpaceFacts, MulAssoc
  <2>2. AddressSpace * q = k * (SectorSize * q)
    BY <1>3, <2>1, Zenon
  <2>3. QED
    BY <1>2, <2>1, <2>2, Zenon
<1>5. n % k = m % k
  <2> DEFINE c == SectorSize * q
  <2>1. k \in Nat \ {0} /\ c \in Nat /\ m \in Nat /\ n = k * c + m
    BY <1>1, <1>2, <1>3, <1>4
  <2> HIDE DEF c
  <2>2. (k * c + m) % k = m % k
    BY <2>1, ModShift
  <2>3. QED
    BY <2>1, <2>2, Zenon
<1>6. ((m * SectorSize) % (k * SectorSize)) \div SectorSize = m % k
  BY <1>1, <1>2, <1>3, SpaceFacts, ScaledDiv
<1>7. m * SectorSize \in Nat
  BY <1>2, SpaceFacts
<1>8. (m * SectorSize) % AddressSpace \in Nat
  BY <1>7, SpaceFacts, Division
<1>9. QED
  BY <1>3, <1>5, <1>6, <1>8 DEF k, m

(* The address put in the command register stands for the block that the   *)
(* number it was made for names.                                           *)
LEMMA AddrRoundTrip ==
  ASSUME TypeInv, CallInv, handle # "none", NEW n \in Nat
  PROVE  /\ AddrOf(n % AddressSpace) \in Nat
         /\ Located(AddrOf(n % AddressSpace)) = Named(n)
<1>1. handle = IF ccs THEN "block" ELSE "byte"
  BY DEF CallInv
<1>2. CASE ccs
  <2>1. n % AddressSpace \in Nat
    BY SpaceFacts, Division
  <2>2. QED
    BY <1>1, <1>2, <2>1 DEF AddrOf, Located, Named
<1>3. CASE ~ccs
  BY <1>1, <1>3, AddressWraps DEF AddrOf, Located, Named
<1>4. QED
  BY <1>2, <1>3

(* A number on the card names its own block: a card addressed by byte has  *)
(* no more bytes than a u32 can tell apart.                                *)
LEMMA NamesItself ==
  ASSUME TypeInv, NEW n \in Block
  PROVE  Named(n) = n
<1>1. n \in Nat /\ Capacity \in Nat /\ n < Capacity /\ Capacity <= AddressSpace
  BY SdAssumption DEF Block
<1>2. CASE ccs
  <2>1. n < AddressSpace
    BY <1>1, SpaceFacts
  <2>2. QED
    BY <1>1, <1>2, <2>1, SpaceFacts, SmallMod DEF Named
<1>3. CASE ~ccs
  <2> DEFINE k == AddressSpace \div SectorSize
  <2>1. k \in Nat /\ AddressSpace = SectorSize * k + 0
    BY SpaceFacts, Division
  <2>2. Capacity * SectorSize <= AddressSpace
    BY <1>3 DEF TypeInv, AddressableByByte
  <2> HIDE DEF k
  <2>3. ~(k < Capacity)
    <3> SUFFICES ASSUME k < Capacity PROVE FALSE
      OBVIOUS
    <3>1. SectorSize * k + SectorSize <= SectorSize * Capacity
      BY <1>1, <2>1, SpaceFacts, MulLE
    <3>2. SectorSize * Capacity = Capacity * SectorSize /\ SectorSize * k \in Nat
      BY <1>1, <2>1, SpaceFacts
    <3>3. QED
      BY <1>1, <2>1, <2>2, <3>1, <3>2, SpaceFacts
  <2>4. n < k
    BY <1>1, <2>1, <2>3
  <2>5. n % k = n
    BY <1>1, <2>1, <2>4, SmallMod
  <2>6. QED
    BY <1>3, <2>5 DEF Named, k
<1>4. QED
  BY <1>2, <1>3

-----------------------------------------------------------------------------
(* A call's numbers are numbers, whatever block number was asked for. *)
LEMMA CallNumbers ==
  ASSUME TypeInv
  PROVE  /\ call.lba \in Nat /\ call.done \in Nat /\ call.left \in Nat
         /\ Current \in Nat /\ Capacity \in Nat /\ Block = {n \in Nat : n < Capacity}
<1>1. Lbas \cup {0} \subseteq Nat
  <2>1. Lbas \subseteq Nat
    BY SdAssumption
  <2>2. QED
    BY <2>1
<1>2. Capacity \in Nat /\ MaxCount \in Nat /\ Capacity > 0
  BY SdAssumption
<1>3. /\ call.lba \in Lbas \cup {0} /\ call.done \in 0..MaxCount /\ call.left \in 0..MaxCount
  BY DEF TypeInv, TypeOK
<1>4. call.lba \in Nat
  BY <1>1, <1>3
<1>5. call.done \in Nat /\ call.left \in Nat
  BY <1>2, <1>3
<1>6. Block = {n \in Nat : n < Capacity}
  <2>1. \A n : n \in Block <=> n \in Nat /\ n < Capacity
    BY <1>2 DEF Block
  <2>2. QED
    BY <2>1
<1>7. QED
  BY <1>2, <1>4, <1>5, <1>6 DEF Current

(* Every step keeps the types.  A block read or programmed is a block of   *)
(* the card because the command in the controller is about it.             *)
LEMMA TypeStep == Inv /\ [Next]_vars => TypeInv'
<1> SUFFICES ASSUME Inv, [Next]_vars PROVE TypeInv'
  OBVIOUS
<1>0. /\ Capacity \in Nat /\ Capacity > 0 /\ MaxCount \in Nat /\ MaxRounds \in Nat
      /\ MaxFaults \in Nat /\ MaxCalls \in Nat
  BY SdAssumption
<1>a. AddressableByByte' = AddressableByByte
  BY DEF AddressableByByte
<1> USE <1>0, <1>a
<1> USE DEF Inv, TypeInv, TypeOK, driverVars, cardVars, deviceVars, counters, history,
            Return, READ, WRITE, NoJob, NoWrite, Block
<1>1. CASE CallInit
  <2>1. call' \in Call
    BY <1>1 DEF CallInit, Begin, Call
  <2>2. /\ calls' \in 0..MaxCalls
        /\ out' \in Seq(Values)
        /\ unseen' \in BOOLEAN
    <3>1. calls' \in 0..MaxCalls
      BY <1>1 DEF CallInit, Begin
    <3>2. out' \in Seq(Values)
      BY <1>1 DEF CallInit, Begin
    <3>3. unseen' \in BOOLEAN
      BY <1>1 DEF CallInit, Begin
    <3>4. QED
      BY <3>1, <3>2, <3>3
  <2>3. /\ call'.lba \in Lbas \cup {0} /\ call'.done \in 0..MaxCount
        /\ call'.left \in 0..MaxCount
    BY <2>1 DEF Call
  <2>4. QED
    BY <1>1, <2>1, <2>2, <2>3 DEF CallInit, Begin
<1>2. ASSUME NEW op \in {"read", "write"}, NEW lba \in Lbas, NEW n \in 1..MaxCount,
             NEW v \in Values, CallBlocks(op, lba, n, v)
      PROVE  TypeInv'
  <2>1. call' \in Call
    BY <1>2 DEF CallBlocks, Begin, Call
  <2>2. /\ calls' \in 0..MaxCalls
        /\ out' \in Seq(Values)
        /\ unseen' \in BOOLEAN
    <3>1. calls' \in 0..MaxCalls
      BY <1>2 DEF CallBlocks, Begin
    <3>2. out' \in Seq(Values)
      BY <1>2 DEF CallBlocks, Begin
    <3>3. unseen' \in BOOLEAN
      BY <1>2 DEF CallBlocks, Begin
    <3>4. QED
      BY <3>1, <3>2, <3>3
  <2>3. /\ call'.lba \in Lbas \cup {0} /\ call'.done \in 0..MaxCount
        /\ call'.left \in 0..MaxCount
    BY <2>1 DEF Call
  <2>4. QED
    BY <1>2, <2>1, <2>2, <2>3 DEF CallBlocks, Begin
<1>3. CASE ResetDone
  BY <1>3 DEF ResetDone, Job
<1>4. CASE ClockStable
  BY <1>4 DEF ClockStable
<1>5. CASE SeeError
  BY <1>5 DEF SeeError
<1>6. CASE Timeout
  BY <1>6 DEF Timeout
<1>7. CASE Issue
  <2>0. Current \in Nat
    BY CallNumbers
  <2>1. cmd \in {READ, WRITE} => AddrOf(BlockNumber) \in Nat
    BY <1>7, <2>0, AddrRoundTrip DEF Issue, CallInv, Moving, BlockNumber, Current
  <2>2. job' \in Job
    BY <1>7, <2>1 DEF Issue, Issued, Job
  <2>3. QED
    BY <1>7, <2>2 DEF Issue, Job
<1>8. CASE CommandDone
  <2>1. /\ pc' \in {"idle", "clock", "inhibit", "buffer"}
        /\ result' \in {"none", "Ok", "Error", "Timeout", "NoCard"}
        /\ handle' \in {"none", "block", "byte"}
    BY <1>8 DEF CommandDone, Complete, PollCard
  <2>2. cmd' \in {0, 2, 3, 7, 8, 41, 55, READ, WRITE}
    BY <1>8 DEF CommandDone, Complete, PollCard, InitFollows
  <2>3. rounds' \in 0..MaxRounds
    BY <1>8 DEF CommandDone, Complete, PollCard
  <2>4. UNCHANGED <<call, out, job, cardVars, counters, history>>
    BY <1>8 DEF CommandDone, Complete
  <2>5. QED
    BY <2>1, <2>2, <2>3, <2>4
<1>9. CASE Drain
  <2>1. Target \in Block
    BY <1>9 DEF Drain, JobInv, CallInv, Moving
  <2>2. out' \in Seq(Values)
    BY <1>9, <2>1 DEF Drain, Target
  <2>3. QED
    <3>1. job' \in Job /\ job'.stage = "moved"
      BY <1>9 DEF Drain, Job
    <3>2. /\ pc' = "transfer"
          /\ UNCHANGED <<call, cmd, rounds, handle, result, cardVars, counters, history>>
      BY <1>9 DEF Drain
    <3>3. QED
      BY <2>2, <3>1, <3>2
<1>10. CASE Fill
  <2>1. Target \in Block /\ call.data \in Values
    BY <1>10 DEF Fill, JobInv, CallInv, Moving
  <2>2. flash' \in Block \X Values /\ handed' \in [Block -> Values]
    BY <1>10, <2>1 DEF Fill, Target
  <2>3. QED
    BY <1>10, <2>2 DEF Fill, Job
<1>11. CASE TransferDone
  <2>1. call' \in Call
    <3>1. CASE call.left = 1
      BY <1>11, <3>1 DEF TransferDone, BlockDone
    <3>2. CASE call.left # 1
      <4>1. /\ call.left \in Nat \ {0} /\ call.done + call.left <= MaxCount
            /\ call.done \in Nat
        BY <1>11 DEF TransferDone, CallInv, Moving, Call
      <4>2. call.done + 1 \in 0..MaxCount /\ call.left - 1 \in 0..MaxCount
        BY <3>2, <4>1 DEF Call
      <4>3. call' = [call EXCEPT !.done = @ + 1, !.left = @ - 1]
        BY <1>11, <3>2 DEF TransferDone, BlockDone
      <4>4. QED
        BY <4>2, <4>3 DEF Call
    <3>3. QED
      BY <3>1, <3>2
  <2>2. QED
    BY <1>11, <2>1, SMTT(30) DEF TransferDone, BlockDone, Call
<1>12. CASE Device
  <2>1. CASE AnswersOk
    <3>1. job' \in Job
      BY <2>1 DEF AnswersOk, Job
    <3>2. QED
      BY <1>12, <2>1, <3>1, SMTT(30) DEF Device, AnswersOk, Job
  <2>2. CASE AnswersBusy
    BY <1>12, <2>2 DEF Device, AnswersBusy, Job
  <2>3. CASE Refuses
    BY <1>12, <2>3 DEF Device, Refuses, Job
  <2>4. CASE BufferReady
    <3>1. job' \in Job
      BY <2>4 DEF BufferReady, Job
    <3>2. QED
      BY <1>12, <2>4, <3>1, SMTT(30) DEF Device, BufferReady, Job
  <2>5. CASE Programs
    BY <1>12, <2>5 DEF Device, Programs
  <2>6. CASE Finishes
    BY <1>12, <2>6 DEF Device, Finishes, Job
  <2>7. CASE Fault
    <3>1. job' \in Job
      BY <2>7, SMTT(30) DEF Fault, Job
    <3>2. faults' \in 0..MaxFaults /\ flash' \in {flash, NoWrite}
      BY <2>7, SMTT(30) DEF Fault
    <3>3. UNCHANGED <<driverVars, blocks, ccs, calls, history>>
      BY <1>12, <2>7 DEF Device, Fault
    <3>4. job'.stage \in {"none", "sent", "data", "ready", "moved", "lost"}
      BY <3>1 DEF Job
    <3>5. QED
      BY <3>1, <3>2, <3>3, <3>4
  <2>8. QED
    BY <1>12, <2>1, <2>2, <2>3, <2>4, <2>5, <2>6, <2>7 DEF Device, Progress
<1>13. CASE UNCHANGED vars
  BY <1>13 DEF vars
<1>14. QED
  BY <1>1, <1>2, <1>3, <1>4, <1>5, <1>6, <1>7, <1>8, <1>9, <1>10, <1>11, <1>12, <1>13
     DEF Next, Calls, Driver

-----------------------------------------------------------------------------
(* The commands of a call stay of its kind. *)
LEMMA CallStep == Inv /\ [Next]_vars => CallInv'
<1> SUFFICES ASSUME Inv, [Next]_vars PROVE CallInv'
  OBVIOUS
<1>t. /\ pc \in {"idle", "reset", "clock", "inhibit", "command", "buffer", "transfer"}
      /\ call \in Call /\ ccs \in BOOLEAN
      /\ cmd \in {0, 2, 3, 7, 8, 41, 55, READ, WRITE}
      /\ Capacity \in Nat /\ MaxCount \in Nat
  BY SdAssumption DEF Inv, TypeInv, TypeOK
<1>i. CallInv
  BY DEF Inv
<1> USE DEF CallInv, Moving, Return, READ, WRITE, driverVars, cardVars, deviceVars
<1>1. CASE CallInit
  BY <1>t, <1>i, <1>1 DEF CallInit, Begin
<1>2. ASSUME NEW op \in {"read", "write"}, NEW lba \in Lbas, NEW n \in 1..MaxCount,
             NEW v \in Values, CallBlocks(op, lba, n, v)
      PROVE  CallInv'
  BY <1>t, <1>i, <1>2 DEF CallBlocks, Begin
<1>3. CASE ResetDone
  BY <1>t, <1>i, <1>3 DEF ResetDone
<1>4. CASE ClockStable
  BY <1>t, <1>i, <1>4 DEF ClockStable
<1>5. CASE SeeError
  BY <1>t, <1>i, <1>5 DEF SeeError
<1>6. CASE Timeout
  BY <1>t, <1>i, <1>6 DEF Timeout
<1>7. CASE Issue
  BY <1>t, <1>i, <1>7 DEF Issue
<1>8. CASE CommandDone
  <2>1. UNCHANGED <<call, ccs>> /\ pc = "command"
    BY <1>8 DEF CommandDone, Complete
  <2>2. CASE Moving
    <3>1. Complete("ok") /\ cmd \in {READ, WRITE}
      BY <1>i, <1>8, <2>1, <2>2 DEF CommandDone, Complete, Inv, JobInv
    <3>2. UNCHANGED <<cmd, handle>> /\ pc' = "buffer"
      BY <1>8, <3>1 DEF CommandDone, Complete
    <3>3. QED
      BY <1>t, <1>i, <2>1, <2>2, <3>2
  <2>3. CASE ~Moving
    <3>1. handle' # "none" => handle' = (IF ccs THEN "block" ELSE "byte")
      BY <1>i, <1>8 DEF CommandDone
    <3>2. pc' # "idle" => pc' \in {"inhibit", "clock"} /\ cmd' \notin {READ, WRITE}
      BY <1>t, <1>i, <1>8, <2>1, <2>3 DEF CommandDone, PollCard, InitFollows
    <3>3. QED
      BY <2>1, <2>3, <3>1, <3>2
  <2>4. QED
    BY <2>2, <2>3
<1>9. CASE Drain
  BY <1>t, <1>i, <1>9 DEF Drain
<1>10. CASE Fill
  BY <1>t, <1>i, <1>10 DEF Fill
<1>11. CASE TransferDone
  <2>1. CASE call.left = 1
    BY <1>t, <1>i, <1>11, <2>1 DEF TransferDone, BlockDone
  <2>2. CASE call.left # 1
    <3>1. call' = [call EXCEPT !.done = @ + 1, !.left = @ - 1] /\ pc' = "inhibit"
      BY <1>11, <2>2 DEF TransferDone, BlockDone
    <3>2. Moving /\ UNCHANGED <<cmd, handle, ccs>>
      BY <1>i, <1>11 DEF TransferDone
    <3>3. /\ call'.done = call.done + 1 /\ call'.left = call.left - 1
          /\ call'.op = call.op /\ call'.data = call.data
      BY <1>t, <3>1 DEF Call
    <3>4. call.done \in Nat /\ call.left \in Nat
      BY <1>t DEF Call
    <3>5. QED
      BY <1>i, <1>t, <1>11, <2>2, <3>1, <3>2, <3>3, <3>4 DEF TransferDone
  <2>3. QED
    BY <2>1, <2>2
<1>12. CASE Device
  <2>1. UNCHANGED <<driverVars, ccs>>
    BY <1>12 DEF Device, Progress, Fault, AnswersOk, AnswersBusy, Refuses, BufferReady,
                 Programs, Finishes
  <2>2. QED
    BY <1>i, <2>1
<1>13. CASE UNCHANGED vars
  BY <1>i, <1>13 DEF vars
<1>14. QED
  BY <1>1, <1>2, <1>3, <1>4, <1>5, <1>6, <1>7, <1>8, <1>9, <1>10, <1>11, <1>12, <1>13
     DEF Next, Calls, Driver

-----------------------------------------------------------------------------
(* The command in the controller is the one the driver waits for: Issue    *)
(* waits until no other is left and clears what an older one reported.     *)
LEMMA JobStep == Inv /\ [Next]_vars => JobInv'
<1> SUFFICES ASSUME Inv, [Next]_vars PROVE JobInv'
  OBVIOUS
<1>t. /\ pc \in {"idle", "reset", "clock", "inhibit", "command", "buffer", "transfer"}
      /\ call \in Call /\ ccs \in BOOLEAN /\ job \in Job
      /\ Current \in Nat
  BY CallNumbers DEF Inv, TypeInv, TypeOK
<1>i. JobInv /\ CallInv
  BY DEF Inv
<1> USE DEF JobInv, Moving, Return, driverVars, cardVars, deviceVars
<1>1. CASE CallInit
  BY <1>i, <1>1 DEF CallInit, Begin
<1>2. ASSUME NEW op \in {"read", "write"}, NEW lba \in Lbas, NEW n \in 1..MaxCount,
             NEW v \in Values, CallBlocks(op, lba, n, v)
      PROVE  JobInv'
  BY <1>i, <1>2 DEF CallBlocks, Begin
<1>3. CASE ResetDone
  BY <1>i, <1>3 DEF ResetDone
<1>4. CASE ClockStable
  BY <1>i, <1>4 DEF ClockStable
<1>5. CASE SeeError
  BY <1>i, <1>5 DEF SeeError
<1>6. CASE Timeout
  BY <1>i, <1>6 DEF Timeout
<1>7. CASE Issue
  <2>1. /\ job' = [cmd |-> cmd, stage |-> "sent",
                    addr |-> IF cmd \in {READ, WRITE} THEN AddrOf(BlockNumber) ELSE 0]
        /\ UNCHANGED <<call, ccs, cmd>> /\ pc = "inhibit" /\ status' = {}
    BY <1>7 DEF Issue, Issued, Inhibited
  <2>2. Moving => Target' = Named(Current)
    <3> SUFFICES ASSUME Moving PROVE Target' = Named(Current)
      OBVIOUS
    <3>1. handle # "none" /\ job'.addr = AddrOf(BlockNumber)
      BY <1>i, <2>1 DEF CallInv, READ, WRITE
    <3>2. Located(AddrOf(BlockNumber)) = Named(Current)
      BY <1>i, <1>t, <3>1, AddrRoundTrip DEF BlockNumber, Current, Inv
    <3>3. QED
      BY <2>1, <3>1, <3>2 DEF Target, Located
  <2>3. Named(Current)' = Named(Current)
    BY <2>1 DEF Named, Current
  <2>4. QED
    BY <1>7, <2>1, <2>2, <2>3 DEF Issue
<1>8. CASE CommandDone
  <2>1. /\ pc = "command" /\ status' = status \ {"CMD_COMPLETE"} /\ "CMD_COMPLETE" \in status
        /\ "ERROR" \notin status /\ UNCHANGED <<call, job, resp, flash, ccs>>
        /\ pc' # "transfer"
    BY <1>8 DEF CommandDone, Complete, PollCard
  <2>2. CASE Moving
    <3>1. Complete("ok") /\ cmd \in {READ, WRITE}
      BY <1>i, <2>1, <1>8, <2>2 DEF CommandDone, Complete, CallInv
    <3>2. UNCHANGED cmd
      BY <1>8, <3>1 DEF CommandDone, Complete
    <3>3. Target' = Target /\ Named(Current)' = Named(Current)
      BY <2>1 DEF Target, Located, Named, Current
    <3>4. QED
      BY <1>i, <2>1, <2>2, <3>2, <3>3
  <2>3. CASE ~Moving
    BY <1>i, <2>1, <2>3
  <2>4. QED
    BY <2>2, <2>3
<1>9. CASE Drain
  BY <1>i, <1>t, <1>9 DEF Drain, NoJob, Job
<1>10. CASE Fill
  BY <1>i, <1>t, <1>10 DEF Fill, NoJob, Job
<1>11. CASE TransferDone
  BY <1>i, <1>11 DEF TransferDone, BlockDone
<1>12. CASE Device
  <2> SUFFICES /\ "TRANSFER_COMPLETE" \in status' \/ "ERROR" \in status' => job' = NoJob
               /\ pc = "transfer" => job'.stage \in {"moved", "none"}
               /\ Moving /\ pc \in {"command", "buffer"} /\ "ERROR" \notin status'
                    => /\ job'.cmd = cmd /\ job'.addr = job.addr
                       /\ "READ_READY" \in status' \/ "WRITE_READY" \in status'
                            => "READ_READY" \in status \/ "WRITE_READY" \in status
                               \/ Target \in Block
                       /\ job'.stage \in {"sent", "data", "ready", "lost"}
                       /\ pc = "buffer" \/ "CMD_COMPLETE" \in status' \/ job'.stage \in {"data", "ready"}
                            => flash' = NoWrite /\ job'.stage # "sent"
                       /\ "CMD_COMPLETE" \in status' => resp' = "ok"
    <3>1. UNCHANGED <<driverVars, ccs>>
      BY <1>12 DEF Device, Progress, Fault, AnswersOk, AnswersBusy, Refuses, BufferReady,
                   Programs, Finishes
    <3>2. "ERROR" \in status => "ERROR" \in status'
      BY <1>12 DEF Device, Progress, Fault, AnswersOk, AnswersBusy, Refuses, BufferReady,
                   Programs, Finishes
    <3>3. Named(Current)' = Named(Current) /\ (job'.addr = job.addr => Target' = Target)
      BY <3>1 DEF Target, Located, Named, Current
    <3>4. QED
      BY <1>i, <3>1, <3>2, <3>3
  <2>0. Moving /\ pc \in {"command", "buffer"} => cmd \in {READ, WRITE}
    BY <1>i DEF CallInv
  <2> USE DEF READ, WRITE, NoJob
  <2>1. CASE AnswersOk
    BY <1>i, <1>t, <2>0, <2>1 DEF AnswersOk, Accepts, Job
  <2>2. CASE AnswersBusy
    BY <1>i, <2>0, <2>2 DEF AnswersBusy
  <2>3. CASE Refuses
    BY <1>i, <2>3 DEF Refuses
  <2>4. CASE BufferReady
    BY <1>i, <1>t, <2>4 DEF BufferReady, Job, Target
  <2>5. CASE Programs
    BY <1>i, <2>5 DEF Programs
  <2>6. CASE Finishes
    BY <1>i, <2>6 DEF Finishes
  <2>7. CASE Fault
    BY <1>i, <1>t, <2>0, <2>7 DEF Fault, Job
  <2>8. QED
    BY <1>12, <2>1, <2>2, <2>3, <2>4, <2>5, <2>6, <2>7 DEF Device, Progress
<1>13. CASE UNCHANGED vars
  <2>1. Target' = Target /\ Named(Current)' = Named(Current)
    BY <1>13 DEF vars, Target, Located, Named, Current
  <2>2. QED
    BY <1>i, <1>13, <2>1 DEF vars
<1>14. QED
  BY <1>1, <1>2, <1>3, <1>4, <1>5, <1>6, <1>7, <1>8, <1>9, <1>10, <1>11, <1>12, <1>13
     DEF Next, Calls, Driver

(* Only Fill puts a block on its way, and hands it over in the same step. *)
LEMMA FlashStep == Inv /\ [Next]_vars => FlashInv'
<1> SUFFICES ASSUME Inv, [Next]_vars PROVE FlashInv'
  OBVIOUS
<1>1. CASE Fill
  <2>1. Target = Named(Current) /\ Target \in Block /\ handed \in [Block -> Values]
    BY <1>1 DEF Fill, Inv, JobInv, TypeInv, TypeOK, Moving
  <2>2. flash' = <<Target, call.data>> /\ handed' = [handed EXCEPT ![Target] = call.data]
    BY <1>1, <2>1 DEF Fill, Target, Current
  <2>3. QED
    BY <2>1, <2>2 DEF FlashInv
<1>2. CASE ~Fill
  <2>1. handed' = handed /\ flash' \in {flash, NoWrite}
    BY <1>2 DEF Next, vars, Calls, CallInit, CallBlocks, Driver, ResetDone, ClockStable, Issue,
       SeeError, CommandDone, Complete, Drain, TransferDone, Timeout, Device, Progress, Fault,
       AnswersOk, AnswersBusy, Refuses, BufferReady, Programs, Finishes,
       driverVars, cardVars, deviceVars, counters, history
  <2>2. QED
    BY <2>1 DEF Inv, FlashInv
<1>3. QED
  BY <1>1, <1>2

-----------------------------------------------------------------------------
(* The blocks a read has delivered, with one more. *)
LEMMA DeliveredAppend ==
  ASSUME NEW f, NEW first \in Nat, NEW n \in Nat
  PROVE  Append([i \in 1..n |-> f[first + i - 1]], f[first + n])
           = [i \in 1..(n + 1) |-> f[first + i - 1]]
  OBVIOUS

(* A call that has met no error loses nothing it is through with. *)
LEMMA DataStep == Inv /\ [Next]_vars => DataInv'
<1> SUFFICES ASSUME Inv, [Next]_vars PROVE DataInv'
  OBVIOUS
<1>t. /\ pc \in {"idle", "reset", "clock", "inhibit", "command", "buffer", "transfer"}
      /\ call \in Call /\ ccs \in BOOLEAN /\ job \in Job /\ unseen \in BOOLEAN
      /\ call.lba \in Nat /\ call.done \in Nat /\ call.left \in Nat /\ Capacity \in Nat
      /\ Current \in Nat /\ Block = {n \in Nat : n < Capacity}
      /\ blocks \in [Block -> Values]
      /\ flash = NoWrite \/ flash \in Block \X Values
  BY CallNumbers DEF Inv, TypeInv, TypeOK
<1>i. JobInv /\ CallInv /\ DataInv
  BY DEF Inv
<1>n. OnCard => Named(Current) = Current /\ Current \in Block
  BY <1>t, NamesItself DEF OnCard, Current, Inv
<1>s. UNCHANGED <<call, ccs>> => /\ Current' = Current /\ OnCard' = OnCard
                                 /\ Named(Current)' = Named(Current)
  BY DEF Current, OnCard, Named
<1> USE DEF Return, driverVars, cardVars, deviceVars
<1>1. CASE CallInit
  BY <1>1 DEF CallInit, Begin, DataInv, Succeeding, Moving
<1>2. ASSUME NEW op \in {"read", "write"}, NEW lba \in Lbas, NEW n \in 1..MaxCount,
             NEW v \in Values, CallBlocks(op, lba, n, v)
      PROVE  DataInv'
  <2>1. /\ call'.op = op /\ call'.lba = lba /\ call'.done = 0 /\ out' = <<>>
        /\ pc' = "inhibit" /\ lba \in Nat
    BY <1>t, <1>2, SdAssumption DEF CallBlocks, Begin
  <2>2. Through' = 0 /\ Current' = lba
    BY <2>1 DEF Through, Current
  <2>3. out' = [i \in 1..Through' |-> blocks'[call'.lba + i - 1]]
    BY <2>1, <2>2
  <2>4. \A b \in Block : ~(call'.lba <= b /\ b < Current')
    BY <1>t, <2>1, <2>2
  <2>5. QED
    BY <2>1, <2>2, <2>3, <2>4 DEF DataInv
<1>3. CASE ResetDone \/ ClockStable
  <2>1. ~Moving'
    BY <1>i, <1>3 DEF ResetDone, ClockStable, CallInv, Moving
  <2>2. QED
    BY <2>1 DEF DataInv, Succeeding
<1>4. CASE SeeError \/ Timeout
  BY <1>4 DEF SeeError, Timeout, DataInv, Succeeding
<1>5. CASE Issue
  <2>1. /\ pc = "inhibit" /\ pc' = "command"
        /\ UNCHANGED <<call, ccs, result, out, flash, blocks, unseen>>
    BY <1>5 DEF Issue, history
  <2>2. Through' = Through
    BY <2>1 DEF Through
  <2>3. QED
    BY <1>i, <1>s, <2>1, <2>2 DEF DataInv, Succeeding, Moving
<1>6. CASE CommandDone
  <2>1. pc = "command" /\ UNCHANGED <<call, ccs, out, flash, blocks, unseen>>
    BY <1>6 DEF CommandDone, Complete, history
  <2>2. CASE Moving
    <3>1. Complete("ok") /\ cmd \in {READ, WRITE}
      BY <1>i, <1>6, <2>1, <2>2 DEF CommandDone, Complete, CallInv, JobInv
    <3>2. pc' = "buffer"
      BY <1>6, <3>1 DEF CommandDone, Complete, READ, WRITE
    <3>3. Through' = Through
      BY <2>1, <3>2 DEF Through
    <3>4. QED
      BY <1>i, <1>s, <2>1, <3>2, <3>3 DEF DataInv, Succeeding, Moving
  <2>3. CASE ~Moving
    BY <2>1, <2>3 DEF DataInv, Succeeding, Moving
  <2>4. QED
    BY <2>2, <2>3
<1>7. CASE Drain
  <2>1. /\ pc = "buffer" /\ pc' = "transfer" /\ call.op = "read"
        /\ UNCHANGED <<call, ccs, blocks, unseen, flash>>
    BY <1>7 DEF Drain, history
  <2>2. Target = Named(Current) /\ flash = NoWrite
    BY <1>i, <1>7, <2>1 DEF JobInv, Moving, Drain
  <2>3. out' = Append(out, blocks[Named(Current)])
    BY <1>7, <2>2 DEF Drain, Target
  <2>4. Through = call.done /\ Through' = call.done + 1
    BY <2>1 DEF Through
  <2>5. ASSUME Succeeding', call.lba + (call.done + 1) <= Capacity
        PROVE  out' = [i \in 1..Through' |-> blocks'[call'.lba + i - 1]]
    <3>1. OnCard /\ call.lba + call.done <= Capacity
      BY <1>t, <2>5 DEF OnCard
    <3>2. blocks[Named(Current)] = blocks[call.lba + call.done]
      BY <1>n, <3>1 DEF Current
    <3>3. out = [i \in 1..call.done |-> blocks[call.lba + i - 1]]
      BY <1>i, <2>1, <2>4, <2>5, <3>1 DEF DataInv, Succeeding, Moving
    <3>4. out' = [i \in 1..(call.done + 1) |-> blocks[call.lba + i - 1]]
      BY <1>t, <2>3, <3>2, <3>3, DeliveredAppend
    <3>5. QED
      BY <2>1, <2>4, <3>4
  <2>6. QED
    BY <2>1, <2>2, <2>4, <2>5 DEF DataInv
<1>8. CASE Fill
  <2>1. /\ pc = "buffer" /\ pc' = "transfer" /\ call.op = "write" /\ "ERROR" \notin status
        /\ status' = status \ {"WRITE_READY"}
        /\ UNCHANGED <<call, ccs, blocks, unseen>>
    BY <1>8 DEF Fill
  <2>2. Target = Named(Current) /\ job # NoJob
    BY <1>i, <2>1 DEF JobInv, Moving, NoJob
  <2>3. flash' = <<Named(Current), call.data>> /\ flash' # NoWrite
    BY <1>8, <2>2 DEF Fill, Target, NoWrite
  <2>4. "TRANSFER_COMPLETE" \notin status'
    BY <1>i, <2>1, <2>2 DEF JobInv
  <2>5. QED
    BY <1>i, <1>s, <2>1, <2>3, <2>4 DEF DataInv, Succeeding, Moving
<1>9. CASE TransferDone
  <2>1. /\ pc = "transfer" /\ pc' \in {"idle", "inhibit"}
        /\ unseen' = (unseen \/ "ERROR" \in status)
        /\ "ERROR" \notin status => "TRANSFER_COMPLETE" \in status
        /\ UNCHANGED <<out, blocks, flash, ccs>>
    BY <1>9 DEF TransferDone, BlockDone
  <2>2. Moving /\ Through = call.done + 1
    BY <1>i, <2>1 DEF CallInv, Moving, Through
  <2> SUFFICES ASSUME ~unseen' PROVE DataInv'
    BY DEF DataInv, Succeeding
  <2>3. ~unseen /\ "ERROR" \notin status /\ "TRANSFER_COMPLETE" \in status
    BY <1>t, <2>1
  <2>4. flash = NoWrite
    BY <1>i, <1>t, <2>1, <2>2, <2>3 DEF DataInv, Succeeding, Moving
  <2>5. call.op = "read" /\ call.lba + (call.done + 1) <= Capacity =>
          out = [i \in 1..(call.done + 1) |-> blocks[call.lba + i - 1]]
    BY <1>i, <2>1, <2>2, <2>3 DEF DataInv, Succeeding
  <2>6. call.op = "write" =>
          /\ \A b \in Block : call.lba <= b /\ b < Current => blocks[b] = call.data
          /\ OnCard => blocks[Current] = call.data
    BY <1>i, <2>1, <2>2, <2>3, <2>4 DEF DataInv, Succeeding
  <2>7. CASE call.left = 1
    <3>1. pc' = "idle" /\ UNCHANGED call
      BY <1>9, <2>7 DEF TransferDone, BlockDone
    <3>2. Through' = call.done + 1
      BY <3>1 DEF Through
    <3>3. QED
      BY <1>s, <2>1, <2>4, <2>5, <2>6, <3>1, <3>2 DEF DataInv
  <2>8. CASE call.left # 1
    <3>1. pc' = "inhibit" /\ call' = [call EXCEPT !.done = @ + 1, !.left = @ - 1]
      BY <1>9, <2>8 DEF TransferDone, BlockDone
    <3>2. /\ call'.lba = call.lba /\ call'.done = call.done + 1
          /\ call'.op = call.op /\ call'.data = call.data
      BY <1>t, <3>1 DEF Call
    <3>3. Through' = call.done + 1 /\ Current' = Current + 1
      BY <1>t, <3>1, <3>2 DEF Through, Current
    <3>4. \A b \in Block : b < Current + 1 => b < Current \/ (b = Current /\ OnCard)
      BY <1>t DEF OnCard, Current
    <3>5. QED
      BY <2>1, <2>4, <2>5, <2>6, <3>1, <3>2, <3>3, <3>4 DEF DataInv
  <2>9. QED
    BY <2>7, <2>8
<1>10. CASE Device
  <2>1. UNCHANGED <<driverVars, ccs, calls, unseen>>
    BY <1>10 DEF Device, history, Progress, Fault, AnswersOk, AnswersBusy, Refuses,
                 BufferReady, Programs, Finishes
  <2>2. /\ Through' = Through /\ Succeeding' = Succeeding
        /\ Current' = Current /\ OnCard' = OnCard /\ Named(Current)' = Named(Current)
    BY <1>s, <2>1 DEF Through, Succeeding, Moving
  <2>3. CASE Programs
    <3>1. /\ flash # NoWrite /\ flash' = NoWrite /\ UNCHANGED status
          /\ blocks' = [blocks EXCEPT ![flash[1]] = flash[2]]
      BY <2>3 DEF Programs
    <3> SUFFICES ASSUME Succeeding PROVE DataInv'
      BY <2>2 DEF DataInv
    <3>2. CASE call.op = "read"
      <4>1. ~(Through > 0)
        BY <1>i, <3>1, <3>2 DEF DataInv
      <4>2. 1..Through = {}
        BY <1>t, <4>1 DEF Through
      <4>3. call.lba + Through <= Capacity => out = [i \in {} |-> blocks[call.lba + i - 1]]
        BY <1>i, <3>2, <4>2 DEF DataInv
      <4>4. call.lba + Through <= Capacity => out = [i \in {} |-> blocks'[call.lba + i - 1]]
        BY <4>3
      <4>5. QED
        BY <2>1, <2>2, <3>2, <4>1, <4>2, <4>4 DEF DataInv
    <3>3. CASE call.op = "write"
      <4>1. CASE pc = "transfer"
        <5>1. flash = <<Named(Current), call.data>>
          BY <1>i, <3>1, <3>3, <4>1 DEF DataInv
        <5>2. blocks' = [blocks EXCEPT ![Named(Current)] = call.data]
          BY <3>1, <5>1
        <5>3. /\ \A b \in Block : blocks[b] = call.data => blocks'[b] = call.data
              /\ OnCard => blocks'[Current] = call.data
          BY <1>t, <1>n, <5>2
        <5>4. QED
          BY <1>i, <2>1, <2>2, <3>1, <3>3, <4>1, <5>3 DEF DataInv
      <4>2. CASE pc # "transfer"
        <5>1. pc # "idle" /\ ~(call.done > 0)
          BY <1>i, <3>1, <3>3, <4>2 DEF DataInv
        <5>2. \A b \in Block : ~(call.lba <= b /\ b < Current)
          BY <1>t, <5>1 DEF Current
        <5>3. QED
          BY <2>1, <2>2, <3>3, <4>2, <5>1, <5>2 DEF DataInv
      <4>3. QED
        BY <4>1, <4>2
    <3>4. QED
      BY <3>2, <3>3 DEF Succeeding, Moving
  <2>4. CASE Finishes
    BY <1>i, <2>1, <2>2, <2>4 DEF DataInv, Finishes
  <2>5. CASE Fault
    <3>1. /\ blocks' = blocks /\ flash' \in {flash, NoWrite}
          /\ "ERROR" \notin status' => flash' = flash /\ "ERROR" \notin status
          /\ "TRANSFER_COMPLETE" \in status' => "TRANSFER_COMPLETE" \in status
      BY <2>5 DEF Fault
    <3>2. QED
      BY <1>i, <2>1, <2>2, <3>1 DEF DataInv
  <2>6. CASE AnswersOk \/ AnswersBusy \/ Refuses \/ BufferReady
    <3>1. /\ blocks' = blocks /\ flash' \in {flash, NoWrite}
          /\ pc = "transfer" /\ Moving /\ "ERROR" \notin status' => flash' = flash
          /\ "ERROR" \notin status' => "ERROR" \notin status
          /\ "TRANSFER_COMPLETE" \in status' => "TRANSFER_COMPLETE" \in status
      BY <1>i, <2>6 DEF AnswersOk, AnswersBusy, Refuses, BufferReady, JobInv
    <3>2. QED
      BY <1>i, <2>1, <2>2, <3>1 DEF DataInv, Succeeding
  <2>7. QED
    BY <1>10, <2>3, <2>4, <2>5, <2>6 DEF Device, Progress
<1>11. CASE UNCHANGED vars
  <2>1. UNCHANGED <<pc, call, ccs, result, out, status, flash, blocks, unseen>>
    BY <1>11 DEF vars, history
  <2>2. /\ Through' = Through /\ Succeeding' = Succeeding
        /\ Current' = Current /\ OnCard' = OnCard /\ Named(Current)' = Named(Current)
    BY <1>s, <2>1 DEF Through, Succeeding, Moving
  <2>3. QED
    BY <1>i, <2>1, <2>2 DEF DataInv
<1>12. QED
  BY <1>1, <1>2, <1>3, <1>4, <1>5, <1>6, <1>7, <1>8, <1>9, <1>10, <1>11
     DEF Next, Calls, Driver

-----------------------------------------------------------------------------
(* Cards as firmware finds them satisfy the invariant. *)
LEMMA InitInv == Init => Inv
<1> SUFFICES ASSUME Init PROVE Inv
  OBVIOUS
<1>0. /\ Capacity \in Nat /\ Capacity > 0 /\ MaxCount \in Nat /\ MaxRounds \in Nat
      /\ MaxFaults \in Nat /\ MaxCalls \in Nat
  BY SdAssumption
<1>1. /\ call = [op |-> "none", lba |-> 0, done |-> 0, left |-> 0, data |-> 0]
      /\ job = NoJob /\ pc = "idle" /\ status = {} /\ handle = "none" /\ flash = NoWrite
  BY DEF Init
<1>2. ~Moving
  BY <1>1 DEF Moving
<1>3. TypeInv
  <2>1. call \in Call
    BY <1>0, <1>1 DEF Call
  <2>2. job \in Job
    BY <1>1 DEF Job, NoJob
  <2>3. TypeOK
    BY <1>0, <1>1, <2>1 DEF TypeOK, Init, NoJob
  <2>4. QED
    BY <2>1, <2>2, <2>3 DEF TypeInv, Init
<1>4. CallInv /\ JobInv /\ FlashInv /\ DataInv
  BY <1>1, <1>2 DEF CallInv, JobInv, FlashInv, DataInv, Succeeding
<1>5. QED
  BY <1>3, <1>4 DEF Inv

(* The invariant holds in every reachable state. *)
LEMMA InvHolds == Spec => []Inv
<1>1. Inv /\ [Next]_vars => Inv'
  BY TypeStep, CallStep, JobStep, FlashStep, DataStep DEF Inv
<1>2. QED
  BY <1>1, InitInv, PTL DEF Spec

(* The driver's registers, calls and data stay in their types, whatever    *)
(* the hardware does.                                                      *)
THEOREM SdTypeCorrect == Spec => []TypeOK
<1>1. Inv => TypeOK
  BY DEF Inv, TypeInv
<1>2. QED
  BY <1>1, InvHolds, PTL

(* A read of blocks of the card that reports success, and whose last waits *)
(* met no error, has delivered the blocks it was asked for, as they are on *)
(* the card, after any history of errors and timeouts (sd.rs send_command  *)
(* waits for the inhibit bits and clears stale status).                    *)
THEOREM ReadsDeliver == Spec => []ReadsWhatWasAsked
<1>1. Inv => ReadsWhatWasAsked
  <2> SUFFICES ASSUME Inv, Returned("read"), ~unseen, OnCard
               PROVE  out = [i \in 1..(call.done + 1) |-> blocks[call.lba + i - 1]]
    BY DEF ReadsWhatWasAsked
  <2>0. call.lba \in Nat /\ call.done \in Nat /\ Capacity \in Nat
    BY CallNumbers DEF Inv
  <2>1. Succeeding /\ Through = call.done + 1 /\ call.lba + Through <= Capacity
    BY <2>0 DEF Returned, Succeeding, Moving, Through, OnCard
  <2>2. QED
    BY <2>1 DEF Inv, DataInv, Returned
<1>2. QED
  BY <1>1, InvHolds, PTL

(* When a write reports success without having met an error no write is    *)
(* still on its way, and a write of blocks of the card is on it, all of it *)
(* (sd.rs write_block).                                                    *)
THEOREM WritesAreOver == Spec => []WritesSettle
<1>1. Inv => WritesSettle
  <2> SUFFICES ASSUME Inv, Returned("write"), ~unseen
               PROVE  flash = NoWrite /\ (OnCard => \A b \in Covered : blocks[b] = call.data)
    BY DEF WritesSettle
  <2>1. /\ flash = NoWrite /\ (OnCard => blocks[Current] = call.data)
        /\ \A b \in Block : call.lba <= b /\ b < Current => blocks[b] = call.data
    BY DEF Returned, Succeeding, Moving, Inv, DataInv
  <2>2. call.lba \in Nat /\ call.done \in Nat /\ Capacity \in Nat
    BY CallNumbers DEF Inv
  <2>3. ASSUME OnCard, NEW b \in Covered
        PROVE  b = Current \/ (b \in Block /\ call.lba <= b /\ b < Current)
    BY <2>2, <2>3 DEF Covered, Block, Current, OnCard
  <2>4. QED
    BY <2>1, <2>3
<1>2. QED
  BY <1>1, InvHolds, PTL

(* For every block number a caller may give, on the card or past its end:  *)
(* a block only ever changes to what was last handed over for a number     *)
(* that names it, however late the card acts on a write the driver gave up *)
(* on.  A number on the card names its own block (NamesItself).            *)
THEOREM LateWritesAreHarmless == Spec => LateWritesKeepOrder
<1>1. Inv /\ [Next]_vars =>
        [\A b \in Block : blocks'[b] # blocks[b] => blocks'[b] = handed[b]]_vars
  <2> SUFFICES ASSUME Inv, [Next]_vars, NEW b \in Block, blocks'[b] # blocks[b]
               PROVE  blocks'[b] = handed[b]
    OBVIOUS
  <2>1. flash # NoWrite /\ blocks' = [blocks EXCEPT ![flash[1]] = flash[2]]
    BY DEF Next, vars, Calls, CallInit, CallBlocks, Driver, ResetDone, ClockStable, Issue,
       SeeError, CommandDone, Complete, Drain, Fill, TransferDone, Timeout, Device, Progress,
       Fault, AnswersOk, AnswersBusy, Refuses, BufferReady, Programs, Finishes,
       driverVars, cardVars, deviceVars, counters, history
  <2>2. blocks \in [Block -> Values] /\ flash[2] = handed[flash[1]]
    BY <2>1 DEF Inv, TypeInv, TypeOK, FlashInv
  <2>3. QED
    BY <2>1, <2>2
<1>2. QED
  BY <1>1, InvHolds, PTL DEF Spec, LateWritesKeepOrder
=============================================================================
