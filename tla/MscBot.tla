------------------------------- MODULE MscBot -------------------------------
(***************************************************************************)
(* The mass storage class: the Bulk-Only Transport machine (usbd_msc_bot.c)*)
(* and the SCSI commands under it (usbd_msc_scsi.c), against a host that   *)
(* follows the protocol: command, data, status, and the recovery of halted *)
(* endpoints.                                                              *)
(*                                                                         *)
(* The USB interrupt serves one packet or request at a time, so a step is a*)
(* transfer together with all the device does about it.  Lengths are in    *)
(* bytes, block numbers and byte addresses in words that wrap.             *)
(***************************************************************************)
EXTENDS Integers, Sequences

CONSTANTS
  Commands,  \* the commands the host may send
  Size,      \* STORAGE_BLK_SIZ, which MSC_MEDIA_PACKET equals
  Blocks,    \* STORAGE_BLK_NBR
  Reply,     \* the length of the short answers, INQUIRY and the like
  Depth,     \* SENSE_LIST_DEEPTH
  Word,      \* 2^32
  Half,      \* 2^16
  Troubles   \* what may disturb a command

Ops == {"ready", "startstop", "inquiry", "mode", "sense", "capacity",
        "read", "write", "verify", "unsupported", "invalid"}

ASSUME SizeAssumption ==
  /\ Size \in Nat \ {0} /\ Blocks \in Nat \ {0} /\ Depth \in Nat \ {0}
  /\ Reply \in 1 .. Size - 1
  /\ Half \in Nat \ {0} /\ Word \in Nat \ {0}
  /\ Blocks * Size <= Word /\ Half <= Word
ASSUME CommandAssumption ==
  Commands \subseteq [op : Ops, dir : {"in", "out"}, len : Nat, alloc : Nat,
                      lba : 0 .. Word - 1, nbr : 0 .. Half - 1]
\* Data goes out with the commands that take some or are refused: a host that
\* sends data to others, or after a CBW that arrives damaged, is not modelled.
ASSUME DirectionAssumption ==
  \A c \in Commands :
    c.dir = "out" /\ c.len > 0 =>
      c.op \in {"ready", "read", "write", "verify", "unsupported"}
ASSUME TroubleAssumption == Troubles \subseteq {"reset", "reconfigure"}

Codes == {"INVALID_CDB", "ADDRESS_OUT_OF_RANGE", "INVALID_FIELD"}

VARIABLES
  bot_state, bot_status,
  cbw,                      \* the command under way or the last one
  residue, status,          \* of the CSW
  sense, head, tail,        \* scsi_sense, a ring
  blk_size, blk_nbr,        \* 0 until READ CAPACITY
  blk_addr, blk_len,
  out,                      \* OUT endpoint: what it is armed for, or halted
  in,                       \* IN endpoint: what it sends next, or halted
  phase, moved,             \* host: where it is, and the bytes it has moved
  reason, owed,             \* history: why a command failed, and what the
                            \*   host, told so, will be told when it asks:
                            \*   "any" once it has let codes lie in the list
  media,                    \* history: the blocks accessed by the command
  untold                    \* history: the failures the host has not been told

statusVars == <<residue, status>>
senseVars  == <<sense, head, tail, untold>>
diskVars   == <<blk_size, blk_nbr>>
blkVars    == <<blk_addr, blk_len>>
vars == <<bot_state, bot_status, cbw, statusVars, senseVars, diskVars, blkVars,
          out, in, phase, moved, reason, owed, media>>

Nak   == [kind |-> "nak", len |-> 0, val |-> "none"]
Stall == [kind |-> "stall", len |-> 0, val |-> "none"]
Csw   == [kind |-> "csw", len |-> 0, val |-> "none"]

Smaller(a, b) == IF a < b THEN a ELSE b

-----------------------------------------------------------------------------
\* USBD_MSC_Init on a device that has just been started.
Init ==
  /\ bot_state = "IDLE" /\ bot_status = "NORMAL"
  /\ cbw \in Commands
  /\ residue = 0 /\ status = "PASSED"
  /\ sense = [i \in 0 .. Depth - 1 |-> "none"] /\ head = 0 /\ tail = 0
  /\ blk_size = 0 /\ blk_nbr = 0 /\ blk_addr = 0 /\ blk_len = 0
  /\ out = "cbw" /\ in = Nak
  /\ phase = "idle" /\ moved = 0
  /\ reason = "none" /\ owed = "none" /\ media = <<>>
  /\ untold = <<>>

\* MSC_BOT_SendCSW, with the residue r.
SendCSW(s, r) ==
  /\ status' = s /\ residue' = r
  /\ bot_state' = "IDLE"
  /\ in' = Csw /\ out' = "cbw"

\* The failures the host has still to be told, in order.  A list of Depth codes
\* cannot be told from an empty one.
Note(code) ==
  untold' = IF Len(untold) + 1 = Depth THEN <<>> ELSE Append(untold, code)

\* An answer of no bytes takes the entry out of the list all the same.
Oldest == IF untold = <<>> THEN "none" ELSE Head(untold)
Tell == untold' = IF untold = <<>> THEN <<>> ELSE Tail(untold)

\* Mutant: the ring does not wrap.
SenseCodeUnwrapped(code) ==
  /\ sense' = [sense EXCEPT ![tail] = code]
  /\ tail' = tail + 1
  /\ reason' = code
  /\ Note(code)
  /\ UNCHANGED head

\* Mutant: a code that does not fit takes the place of the last one.
SenseCodeFull(code) ==
  /\ sense' = [sense EXCEPT ![tail] = code]
  /\ tail' = IF (tail + 1) % Depth = head THEN tail ELSE (tail + 1) % Depth
  /\ reason' = code
  /\ Note(code)
  /\ UNCHANGED head

\* SCSI_SenseCode.
SenseCode(code) ==
  /\ sense' = [sense EXCEPT ![tail] = code]
  /\ tail' = (tail + 1) % Depth
  /\ reason' = code
  /\ Note(code)
  /\ UNCHANGED head

\* MSC_BOT_Abort.
Abort(c, bs) ==
  /\ in' = Stall
  /\ out' = IF bs = "ERROR" THEN "cbw"
            ELSE IF c.dir = "out" /\ c.len # 0 /\ bs = "NORMAL" THEN "stall"
            ELSE "nak"

\* The handler returns -1.
Refuse(c, code) ==
  /\ SenseCode(code)
  /\ Abort(c, bot_status)
  /\ residue' = c.len
  /\ media' = <<>>
  /\ UNCHANGED <<bot_status, status>>

\* Mutant: all of the answer is sent, wanted or not.
SendDataUncut(c, n, v) ==
  /\ in' = [kind |-> "reply", len |-> n, val |-> v]
  /\ out' = "nak"
  /\ residue' = c.len - Smaller(c.len, n) /\ status' = "PASSED"
  /\ bot_state' = "SEND_DATA"

\* Mutant: the residue of the last command is not forgotten.
SendDataKeepsResidue(c, n, v) ==
  /\ in' = [kind |-> "reply", len |-> Smaller(c.len, n), val |-> v]
  /\ out' = "nak"
  /\ residue' = residue - Smaller(c.len, n) /\ status' = "PASSED"
  /\ bot_state' = "SEND_DATA"

\* MSC_BOT_SendData.
SendData(c, n, v) ==
  /\ in' = [kind |-> "reply", len |-> Smaller(c.len, n), val |-> v]
  /\ out' = "nak"
  /\ residue' = c.len - Smaller(c.len, n) /\ status' = "PASSED"
  /\ bot_state' = "SEND_DATA"

\* The handler returns 0 with bot_data_length = n.
Answer(c, n, v) ==
  /\ IF n > 0 THEN SendData(c, n, v) ELSE SendCSW("PASSED", c.len)
  /\ media' = <<>>
  /\ UNCHANGED bot_status

\* The host sends a command and goes on to its data, or to the status.  It has
\* asked why the last one failed, unless it has been through a reset recovery.
Send(c) ==
  /\ phase = "idle" /\ out = "cbw" /\ bot_state = "IDLE"
  /\ owed \in Codes => c.op = "sense"
  /\ cbw' = c /\ moved' = 0
  /\ phase' = IF c.len = 0 THEN "status" ELSE "data"
  /\ UNCHANGED owed

\* A CBW with a wrong length, signature, LUN or command length.
Invalid(c) ==
  /\ Send(c) /\ c.op = "invalid"
  /\ SenseCode("INVALID_CDB")
  /\ bot_status' = "ERROR"
  /\ Abort(c, "ERROR")
  /\ residue' = c.len
  /\ media' = <<>>
  /\ UNCHANGED <<bot_state, status, diskVars, blkVars>>

Unsupported(c) ==
  /\ Send(c) /\ c.op = "unsupported"
  /\ Refuse(c, "INVALID_CDB")
  /\ UNCHANGED <<bot_state, diskVars, blkVars>>

TestUnitReady(c) ==
  /\ Send(c) /\ c.op = "ready"
  /\ IF c.len # 0 THEN Refuse(c, "INVALID_CDB") /\ UNCHANGED bot_state
     ELSE Answer(c, 0, "none") /\ UNCHANGED <<senseVars, reason>>
  /\ UNCHANGED <<diskVars, blkVars>>

StartStopUnit(c) ==
  /\ Send(c) /\ c.op = "startstop"
  /\ Answer(c, 0, "none")
  /\ UNCHANGED <<senseVars, reason, diskVars, blkVars>>

Inquiry(c) ==
  /\ Send(c) /\ c.op = "inquiry"
  /\ Answer(c, Smaller(c.alloc, Reply), "none")
  /\ UNCHANGED <<senseVars, reason, diskVars, blkVars>>

\* SCSI_ModeSense6, SCSI_ModeSense10 and SCSI_ReadFormatCapacity.
ModeSense(c) ==
  /\ Send(c) /\ c.op = "mode"
  /\ Answer(c, Reply, "none")
  /\ UNCHANGED <<senseVars, reason, diskVars, blkVars>>

ReadCapacity(c) ==
  /\ Send(c) /\ c.op = "capacity"
  /\ blk_size' = Size /\ blk_nbr' = Blocks
  /\ Answer(c, Reply, "none")
  /\ UNCHANGED <<senseVars, reason, blkVars>>

\* Mutant: the entry stays in the list.
RequestSenseKeeps(c) ==
  /\ Send(c) /\ c.op = "sense"
  /\ Answer(c, Smaller(c.alloc, Reply), IF head = tail THEN "none" ELSE sense[head])
  /\ Tell
  /\ UNCHANGED <<sense, head, tail, reason, diskVars, blkVars>>

RequestSense(c) ==
  /\ Send(c) /\ c.op = "sense"
  /\ IF head = tail THEN UNCHANGED head ELSE head' = (head + 1) % Depth
  /\ Answer(c, Smaller(c.alloc, Reply), IF head = tail THEN "none" ELSE sense[head])
  /\ Tell
  /\ UNCHANGED <<sense, tail, reason, diskVars, blkVars>>

-----------------------------------------------------------------------------
\* Mutant: the first block alone is checked.
InRangeFirstOnly(first, n) == first < blk_nbr

\* SCSI_CheckAddressRange: the sum of two words.
InRange(first, n) == (first + n) % Word <= blk_nbr

\* A byte address in blocks.  Dividing by a size that is not known yet yields 0
\* on this processor.
Block(x) == IF blk_size = 0 THEN 0 ELSE x \div blk_size

\* The blocks that a transfer of len bytes at addr touches.
Touched(addr, len) == [i \in 1 .. Block(len) |-> Block(addr) + i - 1]

\* Mutant: the last block is not seen to be the last.
ProcessReadForever(before, addr, total, rest) ==
  LET len == Smaller(total, Size) IN
  /\ media' = before \o Touched(addr, len)
  /\ in' = [kind |-> "blocks", len |-> len, val |-> "none"] /\ out' = "nak"
  /\ blk_addr' = (addr + len) % Word /\ blk_len' = total - len
  /\ residue' = rest - len
  /\ bot_state' = "DATA_IN"
  /\ UNCHANGED status

\* SCSI_ProcessRead, for what is left of a transfer: total bytes at addr, after
\* the blocks before.
ProcessRead(before, addr, total, rest) ==
  LET len == Smaller(total, Size) IN
  /\ media' = before \o Touched(addr, len)
  /\ in' = [kind |-> "blocks", len |-> len, val |-> "none"] /\ out' = "nak"
  /\ blk_addr' = (addr + len) % Word /\ blk_len' = total - len
  /\ residue' = rest - len
  /\ bot_state' = IF total = len THEN "LAST_DATA_IN" ELSE "DATA_IN"
  /\ UNCHANGED status

Read10(c) ==
  LET addr == (c.lba * blk_size) % Word
      len  == c.nbr * blk_size
  IN
  /\ Send(c) /\ c.op = "read"
  /\ \/ /\ c.dir # "in"
        /\ Refuse(c, "INVALID_CDB") /\ UNCHANGED <<bot_state, blkVars>>
     \/ /\ c.dir = "in" /\ ~InRange(c.lba, c.nbr)
        /\ Refuse(c, "ADDRESS_OUT_OF_RANGE")
        /\ blk_addr' = c.lba /\ blk_len' = c.nbr /\ UNCHANGED bot_state
     \/ /\ c.dir = "in" /\ InRange(c.lba, c.nbr) /\ c.len # len
        /\ Refuse(c, "INVALID_CDB")
        /\ blk_addr' = addr /\ blk_len' = len /\ bot_state' = "DATA_IN"
     \/ /\ c.dir = "in" /\ InRange(c.lba, c.nbr) /\ c.len = len
        /\ ProcessRead(<<>>, addr, len, c.len)
        /\ UNCHANGED <<bot_status, senseVars, reason>>
  /\ UNCHANGED diskVars

Write10(c) ==
  LET addr == (c.lba * blk_size) % Word
      len  == c.nbr * blk_size
  IN
  /\ Send(c) /\ c.op = "write"
  /\ \/ /\ c.dir # "out"
        /\ Refuse(c, "INVALID_CDB") /\ UNCHANGED <<bot_state, blkVars>>
     \/ /\ c.dir = "out" /\ ~InRange(c.lba, c.nbr)
        /\ Refuse(c, "ADDRESS_OUT_OF_RANGE")
        /\ blk_addr' = c.lba /\ blk_len' = c.nbr /\ UNCHANGED bot_state
     \/ /\ c.dir = "out" /\ InRange(c.lba, c.nbr) /\ c.len # len
        /\ Refuse(c, "INVALID_CDB")
        /\ blk_addr' = addr /\ blk_len' = len /\ UNCHANGED bot_state
     \/ /\ c.dir = "out" /\ InRange(c.lba, c.nbr) /\ c.len = len
        /\ bot_state' = "DATA_OUT" /\ out' = "data"
        /\ blk_addr' = addr /\ blk_len' = len
        /\ residue' = c.len /\ media' = <<>>
        /\ UNCHANGED <<bot_status, status, in, senseVars, reason>>
  /\ UNCHANGED diskVars

\* SCSI_Verify10 looks at what the last read or write has left.  The host sends
\* data when it wants them compared.
Verify10(c) ==
  /\ Send(c) /\ c.op = "verify"
  /\ \/ /\ c.len > 0
        /\ Refuse(c, "INVALID_FIELD") /\ UNCHANGED bot_state
     \/ /\ c.len = 0 /\ ~InRange(blk_addr, blk_len % Half)
        /\ Refuse(c, "ADDRESS_OUT_OF_RANGE") /\ UNCHANGED bot_state
     \/ /\ c.len = 0 /\ InRange(blk_addr, blk_len % Half)
        /\ Answer(c, 0, "none") /\ UNCHANGED <<senseVars, reason>>
  /\ UNCHANGED <<diskVars, blkVars>>

Command(c) ==
  \/ Invalid(c) \/ Unsupported(c) \/ TestUnitReady(c) \/ StartStopUnit(c)
  \/ Inquiry(c) \/ ModeSense(c) \/ RequestSense(c) \/ ReadCapacity(c)
  \/ Read10(c) \/ Write10(c) \/ Verify10(c)

-----------------------------------------------------------------------------
\* Mutant: the address stays where it was.
ProcessWriteInPlace ==
  LET len == Smaller(blk_len, Size) IN
  /\ media' = media \o Touched(blk_addr, len)
  /\ UNCHANGED blk_addr /\ blk_len' = blk_len - len
  /\ IF blk_len = len THEN SendCSW("PASSED", residue - len)
     ELSE out' = "data" /\ residue' = residue - len
          /\ UNCHANGED <<bot_state, status, in>>

\* SCSI_ProcessWrite.
ProcessWrite ==
  LET len == Smaller(blk_len, Size) IN
  /\ media' = media \o Touched(blk_addr, len)
  /\ blk_addr' = (blk_addr + len) % Word /\ blk_len' = blk_len - len
  /\ IF blk_len = len THEN SendCSW("PASSED", residue - len)
     ELSE out' = "data" /\ residue' = residue - len
          /\ UNCHANGED <<bot_state, status, in>>

\* MSC_BOT_DataIn: the host has taken what the IN endpoint had.
DataIn ==
  \/ /\ bot_state = "DATA_IN"
     /\ ProcessRead(media, blk_addr, blk_len, residue)
  \/ /\ bot_state \in {"SEND_DATA", "LAST_DATA_IN"}
     /\ SendCSW("PASSED", residue)
     /\ UNCHANGED <<blkVars, media>>
  \/ /\ bot_state \in {"IDLE", "DATA_OUT"}
     /\ in' = Nak
     /\ UNCHANGED <<bot_state, statusVars, blkVars, out, media>>

\* The host takes data; a short packet, or all it wants, ends the data.
ReadData ==
  /\ phase = "data" /\ cbw.dir = "in"
  /\ in.kind \in {"blocks", "reply", "csw"}
  /\ moved' = moved + in.len
  /\ phase' = IF in.kind = "blocks" /\ moved' < cbw.len THEN "data" ELSE "status"
  /\ DataIn
  /\ UNCHANGED <<bot_status, cbw, senseVars, diskVars, reason, owed>>

\* An empty packet where the status should be: hosts try again.
ReadStray ==
  /\ phase \in {"status", "retry"}
  /\ in.kind \in {"blocks", "reply"}
  /\ moved' = moved + in.len
  /\ DataIn
  /\ UNCHANGED <<bot_status, cbw, senseVars, diskVars, phase, reason, owed>>

ReadStatus ==
  /\ phase \in {"status", "retry"}
  /\ in = Csw
  /\ phase' = "idle"
  /\ owed' = IF owed = "any" THEN owed
             ELSE IF status = "FAILED" THEN reason ELSE "none"
  /\ DataIn
  /\ UNCHANGED <<bot_status, cbw, senseVars, diskVars, moved, reason>>

\* A block's worth of data goes out: MSC_BOT_DataOut.
SendBlock ==
  /\ phase = "data" /\ cbw.dir = "out"
  /\ out = "data" /\ bot_state = "DATA_OUT"
  /\ moved' = moved + Smaller(Size, cbw.len - moved)
  /\ phase' = IF moved' < cbw.len THEN "data" ELSE "status"
  /\ ProcessWrite
  /\ UNCHANGED <<bot_status, cbw, senseVars, diskVars, reason, owed>>

-----------------------------------------------------------------------------
\* Mutant: the status that follows a halt is a passed one.
ClearInPasses ==
  \/ /\ bot_status = "ERROR"
     /\ in' = Stall /\ bot_status' = "NORMAL"
     /\ UNCHANGED <<bot_state, statusVars, out>>
  \/ /\ bot_status = "NORMAL"
     /\ SendCSW("PASSED", residue)
     /\ UNCHANGED bot_status
  \/ /\ bot_status = "RECOVERY"
     /\ in' = Nak
     /\ UNCHANGED <<bot_state, bot_status, statusVars, out>>

\* CLEAR_FEATURE on the IN endpoint: what it had to send is gone, then
\* MSC_BOT_CplClrFeature.
ClearIn ==
  \/ /\ bot_status = "ERROR"
     /\ in' = Stall /\ bot_status' = "NORMAL"
     /\ UNCHANGED <<bot_state, statusVars, out>>
  \/ /\ bot_status = "NORMAL"
     /\ SendCSW("FAILED", residue)
     /\ UNCHANGED bot_status
  \/ /\ bot_status = "RECOVERY"
     /\ in' = Nak
     /\ UNCHANGED <<bot_state, bot_status, statusVars, out>>

\* CLEAR_FEATURE on the OUT endpoint, which takes packets again, into
\* whichever buffer it had last.
ClearOut ==
  /\ out' = IF out \in {"stall", "nak"} THEN "stray" ELSE out
  /\ IF bot_status = "ERROR" THEN in' = Stall /\ bot_status' = "NORMAL"
     ELSE UNCHANGED <<in, bot_status>>
  /\ UNCHANGED <<bot_state, statusVars>>

hostOnly == <<cbw, senseVars, diskVars, blkVars, moved, reason, media>>

\* The host finds the IN endpoint halted, clears it and asks for the status,
\* twice at most.
ClearHaltIn ==
  /\ in = Stall
  /\ \/ phase = "data" /\ cbw.dir = "in" /\ phase' = "status"
     \/ phase = "status" /\ phase' = "retry"
  /\ ClearIn
  /\ UNCHANGED <<hostOnly, owed>>

ClearHaltOut ==
  /\ phase = "data" /\ cbw.dir = "out" /\ out = "stall"
  /\ phase' = "status"
  /\ ClearOut
  /\ UNCHANGED <<hostOnly, owed>>

\* Mutant: the state is left as it was.
BotResetKeepsState ==
  /\ phase' = "reset"
  /\ bot_status' = "RECOVERY" /\ out' = "cbw"
  /\ UNCHANGED <<bot_state, statusVars, in, hostOnly, owed>>

\* Reset recovery: BOT_RESET, and CLEAR_FEATURE on both endpoints.
BotReset ==
  /\ phase' = "reset"
  /\ bot_state' = "IDLE" /\ bot_status' = "RECOVERY" /\ out' = "cbw"
  /\ UNCHANGED <<statusVars, in, hostOnly, owed>>

SecondStall == phase = "retry" /\ in = Stall /\ BotReset

\* The host's patience ends.
TimeOut ==
  /\ "reset" \in Troubles
  /\ phase \in {"data", "status", "retry"}
  /\ BotReset

ResetIn ==
  /\ phase = "reset" /\ phase' = "resetOut"
  /\ ClearIn
  /\ UNCHANGED <<hostOnly, owed>>

ResetOut ==
  /\ phase = "resetOut" /\ phase' = "idle"
  /\ ClearOut
  /\ owed' = "any"
  /\ UNCHANGED hostOnly

\* Mutant: the state is left as it was.
ReconfigureKeepsState ==
  /\ "reconfigure" \in Troubles
  /\ bot_status' = "NORMAL"
  /\ head' = 0 /\ tail' = 0 /\ untold' = <<>>
  /\ out' = "cbw" /\ in' = Nak
  /\ phase' = "idle" /\ owed' = "none"
  /\ UNCHANGED <<bot_state, cbw, statusVars, sense, diskVars, blkVars, moved, reason, media>>

\* The host resets the port and configures the device again: MSC_BOT_Init, on
\* the same memory.
Reconfigure ==
  /\ "reconfigure" \in Troubles
  /\ bot_state' = "IDLE" /\ bot_status' = "NORMAL"
  /\ head' = 0 /\ tail' = 0 /\ untold' = <<>>
  /\ out' = "cbw" /\ in' = Nak
  /\ phase' = "idle" /\ owed' = "none"
  /\ UNCHANGED <<cbw, statusVars, sense, diskVars, blkVars, moved, reason, media>>

Host ==
  \/ ReadData \/ ReadStray \/ ReadStatus \/ SendBlock
  \/ ClearHaltIn \/ ClearHaltOut \/ SecondStall \/ ResetIn \/ ResetOut

Next ==
  \/ \E c \in Commands : Command(c)
  \/ Host \/ TimeOut \/ Reconfigure

Spec == Init /\ [][Next]_vars

\* A host that has started a command goes on with it.
FairSpec == Spec /\ WF_vars(Host)

-----------------------------------------------------------------------------
\* The types of the variables.
MachineOK ==
  /\ bot_state \in {"IDLE", "DATA_OUT", "DATA_IN", "LAST_DATA_IN", "SEND_DATA"}
  /\ bot_status \in {"NORMAL", "RECOVERY", "ERROR"}
  /\ cbw \in Commands
  /\ residue \in Nat /\ status \in {"PASSED", "FAILED"}

SenseOK ==
  /\ sense \in [0 .. Depth - 1 -> Codes \cup {"none"}]
  /\ head \in 0 .. Depth - 1 /\ tail \in 0 .. Depth - 1
  /\ reason \in Codes \cup {"none"} /\ owed \in Codes \cup {"none", "any"}
  /\ untold \in Seq(Codes)

DiskOK ==
  /\ blk_size \in {0, Size} /\ blk_nbr \in {0, Blocks}
  /\ blk_addr \in 0 .. Word - 1 /\ blk_len \in Nat
  /\ media \in Seq(Nat)

PortOK ==
  /\ out \in {"cbw", "data", "stall", "nak", "stray"}
  /\ in \in [kind : {"nak", "stall", "csw", "reply", "blocks"}, len : Nat,
             val : Codes \cup {"none"}]
  /\ phase \in {"idle", "data", "status", "retry", "reset", "resetOut"}
  /\ moved \in Nat

TypeOK == MachineOK /\ SenseOK /\ DiskOK /\ PortOK

\* Whatever has happened to the last command, a host that is done with it, or has
\* recovered, finds the device ready for the next one.
TakesNext == phase = "idle" => out = "cbw" /\ bot_state = "IDLE"

\* A host that waits for data or for a status finds them armed, or the endpoint
\* halted.  The code does not keep this up in three states.
Answered ==
  phase \in {"status", "retry"} \/ (phase = "data" /\ cbw.dir = "in") => in # Nak

\* Those three: a refusal after a reset recovery, which bot_status does not leave;
\* a WRITE of no blocks, which waits for data that nobody sends; and a command
\* for which the device has none of the data the host expects.  The status of
\* this one goes out in the data stage, where the host takes it for the data.
NoData ==
  /\ cbw.dir = "in" /\ cbw.len > 0
  /\ \/ cbw.op = "startstop"
     \/ cbw.op \in {"inquiry", "sense"} /\ cbw.alloc = 0

Deaf == bot_status = "RECOVERY" \/ (cbw.op = "write" /\ cbw.len = 0) \/ NoData

\* The status the device offers is the truth: the residue is what was not
\* moved, and a transfer reported passed moved everything and accessed each of
\* its blocks.
StatusIsTrue ==
  in = Csw /\ phase \in {"data", "status", "retry"} =>
    /\ residue = cbw.len - moved
    /\ status = "PASSED" /\ cbw.op \in {"read", "write"} =>
         moved = cbw.len /\ Len(media) = cbw.nbr

\* The blocks accessed are those of the command, in order, each once, whatever
\* an abandoned command left in the machine.
MediaInOrder ==
  /\ \A i \in 1 .. Len(media) : media[i] = cbw.lba + i - 1
  /\ cbw.op = "write" => Len(media) * Size = moved

\* No block beyond the end of the disk is accessed.  The code keeps this for
\* the addresses whose range does not wrap.
WithinDisk == \A i \in 1 .. Len(media) : media[i] < Blocks

\* REQUEST SENSE tells the host the oldest failure it has not been told, whatever
\* recoveries have let pile up in the list; only Depth of them at once are lost.
\* A host that has asked after every failure, with no recovery since it configured
\* the device, is told why its last command failed, and not another one.
SenseFresh ==
  [][phase = "idle" /\ cbw'.op = "sense" /\ in'.kind = "reply" =>
       /\ in'.val = Oldest
       /\ owed \in Codes => in'.val = owed]_vars

\* A command that has been sent comes to its end, with those three exceptions.
CommandEnds ==
  phase \in {"data", "status", "retry"} ~> (phase = "idle" \/ Deaf)

\* Once the capacity is known, VERIFY fails only for a range beyond the end of
\* the disk.  The code does not keep this: it checks what the last read or write
\* has left, in bytes.
VerifyOwnRange ==
  /\ cbw.op = "verify" /\ cbw.len = 0
  /\ in = Stall /\ phase # "idle" /\ blk_nbr = Blocks
  => cbw.lba + cbw.nbr > Blocks

\* The machine as a block device: a command is judged when its status is on
\* offer to a host that waits for it.
Stage ==
  CASE phase = "idle"                              -> "idle"
    [] phase \in {"reset", "resetOut"}             -> "recovering"
    [] phase \in {"status", "retry"} /\ in = Csw    -> "decided"
    [] OTHER                                       -> "busy"

Verdict == IF Stage = "decided" THEN status ELSE "none"

Disk == INSTANCE BlockDevice
        WITH stage <- Stage, command <- cbw, touched <- media, verdict <- Verdict

\* Transport and SCSI together implement what a disk promises: no step of either
\* takes a verdict back, accesses a block after it or out of turn, or passes a
\* command that was not carried out.
ImplementsDisk == Disk!Spec

\* For the proofs: what holds while the host waits for the device.
Live == phase \in {"data", "status", "retry"}

\* Between two commands, and all through a reset recovery, the endpoints are as
\* a new command wants them; a status is offered by an idle machine only.
Ready ==
  /\ phase \in {"idle", "resetOut"} => in = Nak
  /\ phase \in {"reset", "resetOut"} => bot_status = "RECOVERY"
  /\ phase \in {"idle", "reset", "resetOut"} => out = "cbw" /\ bot_state = "IDLE"
  /\ in.kind = "csw" => in = Csw /\ out = "cbw" /\ bot_state = "IDLE"
  /\ out = "stall" => in = Stall /\ phase = "data" /\ cbw.dir = "out"

\* The residue is what the host has not moved, less what is on its way.
Counted ==
  Live =>
    /\ in.kind \in {"stall", "csw"} => residue = cbw.len - moved
    /\ in.kind \in {"reply", "blocks"} => residue = cbw.len - moved - in.len
    /\ in.kind = "reply" =>
         bot_state = "SEND_DATA" /\ cbw.op \notin {"read", "write"}
    /\ in.kind = "blocks" =>
         /\ bot_state = IF blk_len = 0 THEN "LAST_DATA_IN" ELSE "DATA_IN"
         /\ cbw.op = "read" /\ residue = blk_len
    /\ bot_state = "DATA_OUT" =>
         /\ cbw.op = "write" /\ in = Nak
         /\ residue = blk_len /\ residue = cbw.len - moved

\* n blocks of the command are still to be accessed, from where the machine is.
Rest(n) ==
  /\ blk_len = n * Size
  /\ Len(media) + n = cbw.nbr
  /\ cbw.lba + cbw.nbr <= Blocks
  /\ n > 0 => blk_size = Size /\ blk_addr = (cbw.lba + Len(media)) * Size

Placed ==
  /\ blk_size = 0 <=> blk_nbr = 0
  /\ Live /\ (in.kind = "blocks" \/ bot_state = "DATA_OUT") =>
       \E n \in Nat : Rest(n)
  /\ Live /\ in = Csw /\ status = "PASSED" /\ cbw.op \in {"read", "write"} =>
       residue = 0 /\ Len(media) = cbw.nbr

IInv == TypeOK /\ Ready /\ Counted

\* What was accessed belongs to a command that fits the disk.
Inside ==
  media # <<>> => cbw.lba + cbw.nbr <= Blocks /\ Len(media) <= cbw.nbr

\* The ranges that the address check adds up without wrapping.
Straight ==
  \A c \in Commands : c.op \in {"read", "write"} => c.lba + c.nbr < Word

PInv == Placed /\ Inside /\ MediaInOrder

\* The list holds one code.
Holds(code) == tail = (head + 1) % Depth /\ sense[head] = code

\* The command under way has failed and the host is about to learn it.
Failing == Live /\ (in = Stall \/ (in = Csw /\ status = "FAILED"))

\* No reset recovery has left the list as it was since the device was configured.
Steady == owed # "any" /\ phase \notin {"reset", "resetOut"}

\* Until then the list holds one code while a failure is being reported or the
\* host is to ask for it, and nothing otherwise.
SInv ==
  Steady =>
    /\ bot_status # "RECOVERY"
    /\ Failing => reason \in Codes /\ Holds(reason)
    /\ phase = "idle" /\ owed \in Codes => Holds(owed)
    /\ ~Failing /\ ~(phase = "idle" /\ owed \in Codes) => head = tail
    /\ Live /\ owed \in Codes => cbw.op = "sense"
    /\ Live /\ cbw.op = "sense" => ~Failing
    /\ phase = "data" /\ in = Csw => status = "PASSED"

\* The ring holds the failures that are still to be told, from head on.
Slot(i) == (head + i - 1) % Depth

QInv ==
  /\ Len(untold) < Depth
  /\ tail = (head + Len(untold)) % Depth
  /\ \A i \in 1 .. Len(untold) : sense[Slot(i)] = untold[i]

=============================================================================
