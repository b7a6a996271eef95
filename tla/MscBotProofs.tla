---------------------------- MODULE MscBotProofs ----------------------------
(***************************************************************************)
(* The inductive invariant of MscBot, for every size of block, disk, sense *)
(* list and set of commands.                                               *)
(***************************************************************************)
EXTENDS MscBot, TLAPS

LEMMA Numbers ==
  /\ Size \in Nat /\ Size > 0 /\ Blocks \in Nat /\ Blocks > 0
  /\ Depth \in Nat /\ Depth > 0 /\ Reply \in Nat /\ Reply > 0 /\ Reply < Size
  /\ Word \in Nat /\ Word > 0 /\ Half \in Nat /\ Half > 0
BY SizeAssumption

LEMMA CommandType ==
  ASSUME NEW c \in Commands
  PROVE  /\ c.op \in Ops /\ c.dir \in {"in", "out"}
         /\ c.len \in Nat /\ c.alloc \in Nat
         /\ c.lba \in Nat /\ c.lba < Word /\ c.nbr \in Nat
BY CommandAssumption, Numbers

LEMMA SmallerType ==
  ASSUME NEW a \in Nat, NEW b \in Nat
  PROVE  Smaller(a, b) \in Nat /\ Smaller(a, b) <= a /\ Smaller(a, b) <= b
BY DEF Smaller

LEMMA Wraps == ASSUME NEW x \in Int PROVE x % Word \in 0 .. Word - 1
BY Numbers

LEMMA Quotients == ASSUME NEW a \in Nat PROVE a \div Size \in Nat
BY Numbers

LEMMA BlockType ==
  ASSUME DiskOK, NEW a \in Nat
  PROVE  Block(a) \in Nat
BY Quotients DEF Block, DiskOK

\* The blocks that a transfer touches are numbers.
LEMMA TouchedType ==
  ASSUME DiskOK, NEW a \in Nat, NEW n \in Nat
  PROVE  /\ Touched(a, n) \in Seq(Nat)
         /\ Len(Touched(a, n)) = Block(n)
         /\ \A i \in 1 .. Block(n) : Touched(a, n)[i] = Block(a) + i - 1
<1> DEFINE t == Touched(a, n)
<1>1. Block(a) \in Nat /\ Block(n) \in Nat
  BY BlockType
<1>2. t \in [1 .. Block(n) -> Nat] /\ \A i \in 1 .. Block(n) : t[i] = Block(a) + i - 1
  BY <1>1 DEF Touched
<1>3. t \in Seq(Nat) /\ Len(t) = Block(n)
  BY <1>1, <1>2
<1> QED BY <1>2, <1>3

-----------------------------------------------------------------------------
\* The device has just been configured.
LEMMA InvInit == Init => IInv
<1> SUFFICES ASSUME Init PROVE IInv
  OBVIOUS
<1>1. MachineOK /\ SenseOK /\ DiskOK /\ PortOK
  BY Numbers DEF Init, MachineOK, SenseOK, DiskOK, PortOK, Codes, Nak
<1>2. Ready /\ Counted
  BY DEF Init, Ready, Counted, Live, Nak, Csw
<1> QED BY <1>1, <1>2 DEF IInv, TypeOK

\* SCSI_SenseCode keeps the list's type.
LEMMA SenseCodeType ==
  ASSUME SenseOK, NEW code \in Codes, SenseCode(code), owed' = owed
  PROVE  SenseOK'
BY Numbers DEF SenseOK, SenseCode, Codes

\* The command that fails: refused by its handler, or by the CBW's check.
LEMMA FailStep ==
  ASSUME IInv, NEW c \in Commands, Send(c),
         NEW code \in Codes, SenseCode(code),
         NEW bs \in {"NORMAL", "RECOVERY", "ERROR"}, Abort(c, bs), bot_status' = bs,
         residue' = c.len, status' = status, media' = <<>>, UNCHANGED diskVars,
         blk_addr' \in 0 .. Word - 1, blk_len' \in Nat,
         bot_state' \in {"IDLE", "DATA_IN"}
  PROVE  IInv'
<1>1. /\ cbw' = c /\ moved' = 0 /\ owed' = owed
      /\ phase' = IF c.len = 0 THEN "status" ELSE "data"
  BY DEF Send
<1>2. c.len \in Nat /\ c.dir \in {"in", "out"}
  BY CommandType
<1>3. SenseOK'
  BY <1>1, SenseCodeType DEF IInv, TypeOK
<1>4. MachineOK'
  BY <1>1, <1>2 DEF IInv, TypeOK, MachineOK
<1>5. DiskOK'
  BY DEF IInv, TypeOK, DiskOK, diskVars
<1>6. /\ in' = Stall /\ out' \in {"cbw", "stall", "nak"}
      /\ out' = "stall" => c.dir = "out" /\ c.len # 0
  BY DEF Abort
<1>7. PortOK'
  BY <1>1, <1>6 DEF PortOK, Stall
<1>8. Ready'
  BY <1>1, <1>6 DEF Ready, Stall, Nak, Csw
<1>9. Counted'
  BY <1>1, <1>2, <1>6 DEF Counted, Live, Stall
<1> QED BY <1>3, <1>4, <1>5, <1>7, <1>8, <1>9 DEF IInv, TypeOK

\* The handler of c refuses it.
LEMMA RefuseStep ==
  ASSUME IInv, NEW c \in Commands, Send(c), NEW code \in Codes, Refuse(c, code),
         UNCHANGED diskVars, blk_addr' \in 0 .. Word - 1, blk_len' \in Nat,
         bot_state' \in {"IDLE", "DATA_IN"}
  PROVE  IInv'
<1>1. bot_status \in {"NORMAL", "RECOVERY", "ERROR"}
  BY DEF IInv, TypeOK, MachineOK
<1>2. /\ SenseCode(code) /\ Abort(c, bot_status) /\ bot_status' = bot_status
      /\ residue' = c.len /\ status' = status /\ media' = <<>>
  BY DEF Refuse
<1> QED BY <1>1, <1>2, FailStep

\* The command that is answered from the machine's own buffer, or by its status.
LEMMA AnswerStep ==
  ASSUME IInv, NEW c \in Commands, Send(c), c.op \notin {"read", "write"},
         NEW n \in Nat, NEW v \in Codes \cup {"none"}, Answer(c, n, v),
         SenseOK', blk_size' \in {0, Size}, blk_nbr' \in {0, Blocks}, UNCHANGED blkVars
  PROVE  IInv'
<1>1. /\ cbw' = c /\ moved' = 0
      /\ phase' \in {"status", "data"}
  BY DEF Send
<1>2. c.len \in Nat
  BY CommandType
<1>3. /\ bot_status' = bot_status /\ media' = <<>>
      /\ IF n > 0 THEN SendData(c, n, v) ELSE SendCSW("PASSED", c.len)
  BY DEF Answer
<1>4. DiskOK'
  BY <1>3 DEF IInv, TypeOK, DiskOK, blkVars
<1>5. CASE n > 0
  <2> DEFINE len == Smaller(c.len, n)
  <2>1. len \in Nat /\ len <= c.len
    BY <1>2, SmallerType
  <2>2. /\ in' = [kind |-> "reply", len |-> len, val |-> v]
        /\ out' = "nak" /\ residue' = c.len - len
        /\ status' = "PASSED" /\ bot_state' = "SEND_DATA"
    BY <1>3, <1>5 DEF SendData
  <2> HIDE DEF len
  <2>3. MachineOK'
    BY <1>1, <1>2, <1>3, <2>1, <2>2 DEF IInv, TypeOK, MachineOK
  <2>4. PortOK'
    BY <1>1, <2>1, <2>2 DEF PortOK
  <2>5. Ready'
    BY <1>1, <2>2 DEF Ready, Stall, Nak, Csw
  <2>6. Counted'
    BY <1>1, <1>2, <2>1, <2>2 DEF Counted, Live
  <2> QED BY <1>4, <2>3, <2>4, <2>5, <2>6 DEF IInv, TypeOK
<1>6. CASE ~(n > 0)
  <2>1. /\ in' = Csw /\ out' = "cbw" /\ residue' = c.len
        /\ status' = "PASSED" /\ bot_state' = "IDLE"
    BY <1>3, <1>6 DEF SendCSW
  <2>2. MachineOK'
    BY <1>1, <1>2, <1>3, <2>1 DEF IInv, TypeOK, MachineOK
  <2>3. PortOK'
    BY <1>1, <2>1 DEF PortOK, Csw
  <2>4. Ready'
    BY <1>1, <2>1 DEF Ready, Stall, Nak, Csw
  <2>5. Counted'
    BY <1>1, <1>2, <2>1 DEF Counted, Live, Csw
  <2> QED BY <1>4, <2>2, <2>3, <2>4, <2>5 DEF IInv, TypeOK
<1> QED BY <1>5, <1>6

-----------------------------------------------------------------------------
\* The next part of a read: the transfer so far has moved what the residue says.
LEMMA ReadStep ==
  ASSUME DiskOK, NEW before \in Seq(Nat), NEW addr \in 0 .. Word - 1,
         NEW total \in Nat, NEW rest \in Nat, total <= rest,
         ProcessRead(before, addr, total, rest), UNCHANGED diskVars
  PROVE  /\ DiskOK'
         /\ residue' \in Nat /\ status' = status
         /\ bot_state' = (IF blk_len' = 0 THEN "LAST_DATA_IN" ELSE "DATA_IN")
         /\ in'.kind = "blocks" /\ in'.len \in Nat /\ in'.val = "none"
         /\ in' = [kind |-> "blocks", len |-> in'.len, val |-> "none"]
         /\ out' = "nak"
         /\ blk_len' = total - in'.len /\ residue' = rest - in'.len
<1> DEFINE len == Smaller(total, Size)
<1>0. Size \in Nat
  BY Numbers
<1>1. len \in Nat /\ len <= total /\ len <= rest
  <2>1. Smaller(total, Size) \in Nat /\ Smaller(total, Size) <= total
    BY <1>0, SmallerType
  <2> QED BY <2>1
<1>2. /\ media' = before \o Touched(addr, len)
      /\ in' = [kind |-> "blocks", len |-> len, val |-> "none"] /\ out' = "nak"
      /\ blk_addr' = (addr + len) % Word /\ blk_len' = total - len
      /\ residue' = rest - len
      /\ bot_state' = IF total = len THEN "LAST_DATA_IN" ELSE "DATA_IN"
      /\ status' = status
  BY DEF ProcessRead
<1> HIDE DEF len
<1>3. addr \in Nat /\ addr + len \in Int
  BY <1>1, Numbers
<1>4. Touched(addr, len) \in Seq(Nat)
  BY <1>1, <1>3, TouchedType
<1>5. before \o Touched(addr, len) \in Seq(Nat)
  BY <1>4
<1>6. DiskOK'
  BY <1>1, <1>2, <1>3, <1>5, Wraps DEF DiskOK, diskVars
<1> QED BY <1>1, <1>2, <1>6

\* What the host reads next is the first part of c.
LEMMA FirstReadStep ==
  ASSUME IInv, NEW c \in Commands, Send(c), c.op = "read",
         NEW addr \in 0 .. Word - 1, ProcessRead(<<>>, addr, c.len, c.len),
         UNCHANGED <<bot_status, senseVars, reason, diskVars>>
  PROVE  IInv'
<1>1. /\ cbw' = c /\ moved' = 0 /\ owed' = owed
      /\ phase' \in {"status", "data"}
  BY DEF Send
<1>2. c.len \in Nat /\ <<>> \in Seq(Nat)
  BY CommandType
<1>3. /\ DiskOK'
      /\ residue' \in Nat /\ status' = status
      /\ bot_state' = (IF blk_len' = 0 THEN "LAST_DATA_IN" ELSE "DATA_IN")
      /\ in'.kind = "blocks" /\ in'.len \in Nat /\ in'.val = "none"
      /\ in' = [kind |-> "blocks", len |-> in'.len, val |-> "none"]
      /\ out' = "nak"
      /\ blk_len' = c.len - in'.len /\ residue' = c.len - in'.len
  <2>1. DiskOK /\ c.len <= c.len /\ UNCHANGED diskVars
    BY <1>2 DEF IInv, TypeOK
  <2> QED BY <1>2, <2>1, ReadStep
<1>4. MachineOK'
  BY <1>1, <1>3 DEF IInv, TypeOK, MachineOK
<1>5. SenseOK'
  BY <1>1 DEF IInv, TypeOK, SenseOK, senseVars
<1>6. PortOK'
  BY <1>1, <1>3 DEF PortOK
<1>7. Ready'
  BY <1>1, <1>3 DEF Ready, Nak, Csw, Stall
<1>8. Counted'
  BY <1>1, <1>2, <1>3 DEF Counted, Live
<1> QED BY <1>3, <1>4, <1>5, <1>6, <1>7, <1>8 DEF IInv, TypeOK

\* The product of a block number and the block size, and its value as a word.
LEMMA Bytes ==
  ASSUME DiskOK, NEW n \in Nat
  PROVE  n * blk_size \in Nat /\ (n * blk_size) % Word \in 0 .. Word - 1
<1>1. blk_size \in Nat
  BY Numbers DEF DiskOK
<1>2. n * blk_size \in Nat
  BY <1>1
<1> QED BY <1>2, Wraps

LEMMA ReadCommand ==
  ASSUME IInv, NEW c \in Commands, Read10(c)
  PROVE  IInv'
<1> DEFINE addr == (c.lba * blk_size) % Word
           len  == c.nbr * blk_size
<1>1. /\ Send(c) /\ c.op = "read" /\ UNCHANGED diskVars
      /\ \/ Refuse(c, "INVALID_CDB") /\ UNCHANGED <<bot_state, blkVars>>
         \/ /\ Refuse(c, "ADDRESS_OUT_OF_RANGE")
            /\ blk_addr' = c.lba /\ blk_len' = c.nbr /\ UNCHANGED bot_state
         \/ /\ Refuse(c, "INVALID_CDB")
            /\ blk_addr' = addr /\ blk_len' = len /\ bot_state' = "DATA_IN"
         \/ /\ c.len = len /\ ProcessRead(<<>>, addr, len, c.len)
            /\ UNCHANGED <<bot_status, senseVars, reason>>
  BY DEF Read10
<1>2. /\ c.lba \in 0 .. Word - 1 /\ c.nbr \in Nat
      /\ addr \in 0 .. Word - 1 /\ len \in Nat
  BY CommandType, Numbers, Bytes DEF IInv, TypeOK
<1>3. bot_state = "IDLE" /\ blk_addr \in 0 .. Word - 1 /\ blk_len \in Nat
  BY <1>1 DEF Send, IInv, TypeOK, DiskOK
<1>4. {"INVALID_CDB", "ADDRESS_OUT_OF_RANGE"} \subseteq Codes
  BY DEF Codes
<1> HIDE DEF addr, len
<1>5. CASE Refuse(c, "INVALID_CDB") /\ UNCHANGED <<bot_state, blkVars>>
  BY <1>1, <1>3, <1>4, <1>5, RefuseStep DEF blkVars
<1>6. CASE /\ Refuse(c, "ADDRESS_OUT_OF_RANGE")
           /\ blk_addr' = c.lba /\ blk_len' = c.nbr /\ UNCHANGED bot_state
  BY <1>1, <1>2, <1>3, <1>4, <1>6, RefuseStep
<1>7. CASE /\ Refuse(c, "INVALID_CDB")
           /\ blk_addr' = addr /\ blk_len' = len /\ bot_state' = "DATA_IN"
  BY <1>1, <1>2, <1>4, <1>7, RefuseStep
<1>8. CASE /\ c.len = len /\ ProcessRead(<<>>, addr, len, c.len)
           /\ UNCHANGED <<bot_status, senseVars, reason>>
  BY <1>1, <1>2, <1>8, FirstReadStep
<1> QED BY <1>1, <1>5, <1>6, <1>7, <1>8

LEMMA WriteCommand ==
  ASSUME IInv, NEW c \in Commands, Write10(c)
  PROVE  IInv'
<1> DEFINE addr == (c.lba * blk_size) % Word
           len  == c.nbr * blk_size
<1>1. /\ Send(c) /\ c.op = "write" /\ UNCHANGED diskVars
      /\ \/ Refuse(c, "INVALID_CDB") /\ UNCHANGED <<bot_state, blkVars>>
         \/ /\ Refuse(c, "ADDRESS_OUT_OF_RANGE")
            /\ blk_addr' = c.lba /\ blk_len' = c.nbr /\ UNCHANGED bot_state
         \/ /\ Refuse(c, "INVALID_CDB")
            /\ blk_addr' = addr /\ blk_len' = len /\ UNCHANGED bot_state
         \/ /\ c.len = len
            /\ bot_state' = "DATA_OUT" /\ out' = "data"
            /\ blk_addr' = addr /\ blk_len' = len
            /\ residue' = c.len /\ media' = <<>>
            /\ UNCHANGED <<bot_status, status, in, senseVars, reason>>
  BY DEF Write10
<1>2. /\ c.lba \in 0 .. Word - 1 /\ c.nbr \in Nat /\ c.len \in Nat
      /\ addr \in 0 .. Word - 1 /\ len \in Nat
  BY CommandType, Numbers, Bytes DEF IInv, TypeOK
<1>3. bot_state = "IDLE" /\ blk_addr \in 0 .. Word - 1 /\ blk_len \in Nat
  BY <1>1 DEF Send, IInv, TypeOK, DiskOK
<1>4. {"INVALID_CDB", "ADDRESS_OUT_OF_RANGE"} \subseteq Codes
  BY DEF Codes
<1> HIDE DEF addr, len
<1>5. CASE Refuse(c, "INVALID_CDB") /\ UNCHANGED <<bot_state, blkVars>>
  BY <1>1, <1>3, <1>4, <1>5, RefuseStep DEF blkVars
<1>6. CASE /\ Refuse(c, "ADDRESS_OUT_OF_RANGE")
           /\ blk_addr' = c.lba /\ blk_len' = c.nbr /\ UNCHANGED bot_state
  BY <1>1, <1>2, <1>3, <1>4, <1>6, RefuseStep
<1>7. CASE /\ Refuse(c, "INVALID_CDB")
           /\ blk_addr' = addr /\ blk_len' = len /\ UNCHANGED bot_state
  BY <1>1, <1>2, <1>3, <1>4, <1>7, RefuseStep
<1>8. CASE /\ c.len = len
           /\ bot_state' = "DATA_OUT" /\ out' = "data"
           /\ blk_addr' = addr /\ blk_len' = len
           /\ residue' = c.len /\ media' = <<>>
           /\ UNCHANGED <<bot_status, status, in, senseVars, reason>>
  <2>1. /\ cbw' = c /\ moved' = 0 /\ owed' = owed
        /\ phase = "idle" /\ phase' \in {"status", "data"}
    BY <1>1 DEF Send
  <2>2. in = Nak
    BY <2>1 DEF IInv, Ready
  <2>3. MachineOK'
    BY <1>2, <1>8, <2>1 DEF IInv, TypeOK, MachineOK
  <2>4. SenseOK'
    BY <1>8, <2>1 DEF IInv, TypeOK, SenseOK, senseVars
  <2>5. DiskOK'
    BY <1>1, <1>2, <1>8 DEF IInv, TypeOK, DiskOK, diskVars
  <2>6. PortOK'
    BY <1>8, <2>1 DEF IInv, TypeOK, PortOK
  <2>7. Ready'
    BY <1>8, <2>1, <2>2 DEF Ready, Nak, Csw, Stall
  <2>8. Counted'
    BY <1>1, <1>2, <1>8, <2>1, <2>2 DEF Counted, Live, Nak
  <2> QED BY <2>3, <2>4, <2>5, <2>6, <2>7, <2>8 DEF IInv, TypeOK
<1> QED BY <1>1, <1>5, <1>6, <1>7, <1>8

\* The commands that touch no block.
LEMMA OtherCommand ==
  ASSUME IInv, NEW c \in Commands,
         \/ Invalid(c) \/ Unsupported(c) \/ TestUnitReady(c) \/ StartStopUnit(c)
         \/ Inquiry(c) \/ ModeSense(c) \/ RequestSense(c) \/ ReadCapacity(c)
         \/ Verify10(c)
  PROVE  IInv'
<1>1. /\ "INVALID_CDB" \in Codes /\ "ADDRESS_OUT_OF_RANGE" \in Codes
      /\ "INVALID_FIELD" \in Codes /\ "none" \in Codes \cup {"none"}
  BY DEF Codes
<1>2. /\ c.alloc \in Nat /\ Reply \in Nat /\ 0 \in Nat
      /\ Smaller(c.alloc, Reply) \in Nat
  BY CommandType, Numbers, SmallerType
<1>3. /\ SenseOK /\ blk_addr \in 0 .. Word - 1 /\ blk_len \in Nat
      /\ blk_size \in {0, Size} /\ blk_nbr \in {0, Blocks}
  BY DEF IInv, TypeOK, DiskOK
<1>4. ASSUME Send(c), UNCHANGED <<senseVars, reason>>
      PROVE  SenseOK'
  BY <1>3, <1>4 DEF Send, SenseOK, senseVars
<1>5. ASSUME Send(c) PROVE bot_state = "IDLE"
  BY <1>5 DEF Send
<1>6. CASE Invalid(c)
  <2>1. /\ Send(c) /\ SenseCode("INVALID_CDB") /\ Abort(c, "ERROR")
        /\ bot_status' = "ERROR" /\ residue' = c.len /\ media' = <<>>
        /\ status' = status /\ bot_state' = bot_state
        /\ UNCHANGED <<diskVars, blkVars>>
    BY <1>6 DEF Invalid
  <2>2. /\ blk_addr' \in 0 .. Word - 1 /\ blk_len' \in Nat
        /\ bot_state' \in {"IDLE", "DATA_IN"} /\ UNCHANGED diskVars
    BY <1>3, <1>5, <2>1 DEF blkVars
  <2> QED BY <1>1, <2>1, <2>2, FailStep
<1>7. ASSUME Send(c), NEW code \in Codes, Refuse(c, code),
             bot_state' = bot_state, UNCHANGED <<diskVars, blkVars>>
      PROVE  IInv'
  <2>1. /\ blk_addr' \in 0 .. Word - 1 /\ blk_len' \in Nat
        /\ bot_state' \in {"IDLE", "DATA_IN"} /\ UNCHANGED diskVars
    BY <1>3, <1>5, <1>7 DEF blkVars
  <2> QED BY <1>7, <2>1, RefuseStep
<1>8. ASSUME Send(c), c.op \notin {"read", "write"},
             NEW n \in Nat, NEW v \in Codes \cup {"none"}, Answer(c, n, v),
             SenseOK', UNCHANGED <<diskVars, blkVars>>
      PROVE  IInv'
  <2>1. blk_size' \in {0, Size} /\ blk_nbr' \in {0, Blocks} /\ UNCHANGED blkVars
    BY <1>3, <1>8 DEF diskVars
  <2> QED BY <1>8, <2>1, AnswerStep
<1>9. CASE Unsupported(c)
  BY <1>1, <1>7, <1>9 DEF Unsupported
<1>10. CASE TestUnitReady(c)
  BY <1>1, <1>2, <1>4, <1>7, <1>8, <1>10 DEF TestUnitReady
<1>11. CASE StartStopUnit(c)
  BY <1>1, <1>2, <1>4, <1>8, <1>11 DEF StartStopUnit
<1>12. CASE Inquiry(c)
  BY <1>1, <1>2, <1>4, <1>8, <1>12 DEF Inquiry
<1>13. CASE ModeSense(c)
  BY <1>1, <1>2, <1>4, <1>8, <1>13 DEF ModeSense
<1>14. CASE RequestSense(c)
  <2> DEFINE v == IF head = tail THEN "none" ELSE sense[head]
  <2>1. Send(c) /\ c.op = "sense"
        /\ Answer(c, Smaller(c.alloc, Reply), v) /\ UNCHANGED <<diskVars, blkVars>>
    BY <1>14 DEF RequestSense
  <2>2. SenseOK'
    BY <1>3, <1>14, Numbers DEF RequestSense, SenseOK, Send
  <2>3. v \in Codes \cup {"none"}
    BY <1>3 DEF SenseOK
  <2> QED BY <1>2, <1>8, <2>1, <2>2, <2>3
<1>15. CASE ReadCapacity(c)
  <2>1. /\ Send(c) /\ c.op = "capacity" /\ blk_size' = Size /\ blk_nbr' = Blocks
        /\ Answer(c, Reply, "none") /\ UNCHANGED <<senseVars, reason>>
        /\ UNCHANGED blkVars
    BY <1>15 DEF ReadCapacity
  <2>2. SenseOK'
    BY <1>4, <2>1
  <2> QED BY <1>1, <1>2, <2>1, <2>2, AnswerStep
<1>16. CASE Verify10(c)
  BY <1>1, <1>2, <1>4, <1>7, <1>8, <1>16 DEF Verify10
<1> QED BY <1>6, <1>9, <1>10, <1>11, <1>12, <1>13, <1>14, <1>15, <1>16

LEMMA CommandStep ==
  ASSUME IInv, NEW c \in Commands, Command(c)
  PROVE  IInv'
BY ReadCommand, WriteCommand, OtherCommand DEF Command

-----------------------------------------------------------------------------
\* The host takes what the IN endpoint has.
LEMMA DataInStep ==
  ASSUME IInv, Live, in.kind \in {"blocks", "reply", "csw"}, DataIn,
         moved' = moved + in.len, owed' \in Codes \cup {"none", "any"},
         UNCHANGED <<bot_status, cbw, senseVars, diskVars, reason>>,
         phase' \in {"data", "status", "retry", "idle"},
         phase' = "idle" => in.kind = "csw"
  PROVE  IInv'
<1>1. /\ MachineOK /\ DiskOK /\ PortOK /\ Ready
      /\ residue \in Nat /\ moved \in Nat /\ in.len \in Nat /\ cbw.len \in Nat
      /\ blk_len \in Nat /\ blk_addr \in 0 .. Word - 1 /\ media \in Seq(Nat)
  BY CommandType DEF IInv, TypeOK, MachineOK, DiskOK, PortOK
<1>2. /\ in.kind = "csw" => residue = cbw.len - moved
      /\ in.kind \in {"reply", "blocks"} => residue = cbw.len - moved - in.len
      /\ in.kind = "reply" => bot_state = "SEND_DATA" /\ cbw.op \notin {"read", "write"}
      /\ in.kind = "blocks" =>
           /\ bot_state = IF blk_len = 0 THEN "LAST_DATA_IN" ELSE "DATA_IN"
           /\ cbw.op = "read" /\ residue = blk_len
      /\ in.kind = "csw" => in.len = 0 /\ bot_state = "IDLE" /\ out = "cbw"
      /\ out # "stall" /\ bot_state # "DATA_OUT"
  BY DEF IInv, Counted, Ready, Csw, Stall, Nak
<1>3. SenseOK'
  BY DEF IInv, TypeOK, SenseOK, senseVars
<1>4. moved' \in Nat
  BY <1>1
<1>5. CASE bot_state = "DATA_IN"
  <2>1. in.kind = "blocks"
    BY <1>2, <1>5
  <2>2. ProcessRead(media, blk_addr, blk_len, residue)
    BY <1>5 DEF DataIn
  <2>3. blk_len <= residue /\ UNCHANGED diskVars
    BY <1>1, <1>2, <2>1
  <2>4. /\ DiskOK'
        /\ residue' \in Nat /\ status' = status
        /\ bot_state' = (IF blk_len' = 0 THEN "LAST_DATA_IN" ELSE "DATA_IN")
        /\ in'.kind = "blocks" /\ in'.len \in Nat /\ in'.val = "none"
        /\ in' = [kind |-> "blocks", len |-> in'.len, val |-> "none"]
        /\ out' = "nak"
        /\ blk_len' = blk_len - in'.len /\ residue' = residue - in'.len
    BY <1>1, <2>2, <2>3, ReadStep
  <2>5. MachineOK'
    BY <1>1, <2>4 DEF MachineOK
  <2>6. PortOK'
    BY <1>4, <2>4 DEF PortOK
  <2>7. Ready'
    BY <2>1, <2>4 DEF Ready, Nak, Csw, Stall
  <2>8. Counted'
    BY <1>1, <1>2, <2>1, <2>4 DEF Counted, Live
  <2> QED BY <1>3, <2>4, <2>5, <2>6, <2>7, <2>8 DEF IInv, TypeOK
<1>6. CASE bot_state \in {"SEND_DATA", "LAST_DATA_IN"}
  <2>1. in.kind \in {"reply", "blocks"}
    BY <1>2, <1>6
  <2>2. /\ status' = "PASSED" /\ residue' = residue
        /\ bot_state' = "IDLE" /\ in' = Csw /\ out' = "cbw"
        /\ UNCHANGED <<blkVars, media>>
    BY <1>6 DEF DataIn, SendCSW
  <2>3. MachineOK'
    BY <1>1, <2>2 DEF MachineOK
  <2>4. DiskOK'
    BY <1>1, <2>2 DEF DiskOK, diskVars, blkVars
  <2>5. PortOK'
    BY <1>4, <2>2 DEF PortOK, Csw
  <2>6. Ready'
    BY <2>1, <2>2 DEF Ready, Nak, Csw, Stall
  <2>7. Counted'
    BY <1>1, <1>2, <2>1, <2>2 DEF Counted, Live, Csw
  <2> QED BY <1>3, <2>3, <2>4, <2>5, <2>6, <2>7 DEF IInv, TypeOK
<1>7. CASE bot_state = "IDLE"
  <2>1. in.kind = "csw"
    BY <1>2, <1>7
  <2>2. /\ in' = Nak
        /\ UNCHANGED <<bot_state, statusVars, blkVars, out, media>>
    BY <1>7 DEF DataIn
  <2>3. MachineOK'
    BY <1>1, <2>2 DEF MachineOK, statusVars
  <2>4. DiskOK'
    BY <1>1, <2>2 DEF DiskOK, diskVars, blkVars
  <2>5. PortOK'
    BY <1>1, <1>4, <2>2 DEF PortOK, Nak
  <2>6. Ready'
    BY <1>2, <2>1, <2>2 DEF Ready, Nak, Csw, Stall
  <2>7. Counted'
    BY <1>2, <2>1, <2>2 DEF Counted, Live, Nak
  <2> QED BY <1>3, <2>3, <2>4, <2>5, <2>6, <2>7 DEF IInv, TypeOK
<1> QED BY <1>1, <1>2, <1>5, <1>6, <1>7 DEF MachineOK

LEMMA ReadSteps ==
  ASSUME IInv, ReadData \/ ReadStray \/ ReadStatus
  PROVE  IInv'
<1>0. /\ owed \in Codes \cup {"none", "any"} /\ reason \in Codes \cup {"none"}
      /\ moved \in Nat
  BY DEF IInv, TypeOK, SenseOK, PortOK
<1>1. CASE ReadData
  <2>1. /\ Live /\ in.kind \in {"blocks", "reply", "csw"} /\ DataIn
        /\ moved' = moved + in.len /\ owed' = owed
        /\ phase' \in {"data", "status"}
        /\ UNCHANGED <<bot_status, cbw, senseVars, diskVars, reason>>
    BY <1>1 DEF ReadData, Live
  <2> QED BY <1>0, <2>1, DataInStep
<1>2. CASE ReadStray
  <2>1. /\ Live /\ in.kind \in {"blocks", "reply", "csw"} /\ DataIn
        /\ moved' = moved + in.len /\ owed' = owed
        /\ phase' \in {"status", "retry"}
        /\ UNCHANGED <<bot_status, cbw, senseVars, diskVars, reason>>
    BY <1>2 DEF ReadStray, Live
  <2> QED BY <1>0, <2>1, DataInStep
<1>3. CASE ReadStatus
  <2>1. /\ Live /\ in = Csw /\ DataIn
        /\ moved' = moved
        /\ owed' = IF owed = "any" THEN owed
                   ELSE IF status = "FAILED" THEN reason ELSE "none"
        /\ phase' = "idle"
        /\ UNCHANGED <<bot_status, cbw, senseVars, diskVars, reason>>
    BY <1>3 DEF ReadStatus, Live
  <2>2. in.kind = "csw" /\ in.len = 0
    BY <2>1 DEF Csw
  <2>3. moved' = moved + in.len /\ owed' \in Codes \cup {"none", "any"}
    BY <1>0, <2>1, <2>2
  <2> QED BY <2>1, <2>2, <2>3, DataInStep
<1> QED BY <1>1, <1>2, <1>3

\* The host sends the next block.
LEMMA SendStep ==
  ASSUME IInv, SendBlock
  PROVE  IInv'
<1> DEFINE len == Smaller(blk_len, Size)
<1>1. /\ MachineOK /\ DiskOK /\ PortOK
      /\ residue \in Nat /\ moved \in Nat /\ cbw.len \in Nat /\ Size \in Nat
      /\ blk_len \in Nat /\ blk_addr \in Nat /\ media \in Seq(Nat)
  BY CommandType, Numbers DEF IInv, TypeOK, MachineOK, DiskOK, PortOK
<1>2. /\ phase = "data" /\ bot_state = "DATA_OUT"
      /\ moved' = moved + Smaller(Size, cbw.len - moved)
      /\ phase' \in {"data", "status"} /\ ProcessWrite
      /\ UNCHANGED <<bot_status, cbw, senseVars, diskVars, reason, owed>>
  BY DEF SendBlock
<1>3. /\ cbw.op = "write" /\ in = Nak
      /\ residue = blk_len /\ residue = cbw.len - moved
  BY <1>2 DEF IInv, Counted, Live
<1>4. len \in Nat /\ len <= blk_len /\ moved' = moved + len
  BY <1>1, <1>2, <1>3 DEF Smaller
<1>5. /\ media' = media \o Touched(blk_addr, len)
      /\ blk_addr' = (blk_addr + len) % Word /\ blk_len' = blk_len - len
      /\ IF blk_len = len THEN SendCSW("PASSED", residue - len)
         ELSE /\ out' = "data" /\ residue' = residue - len
              /\ UNCHANGED <<bot_state, status, in>>
  BY <1>2 DEF ProcessWrite
<1> HIDE DEF len
<1>6. DiskOK'
  <2>1. Touched(blk_addr, len) \in Seq(Nat)
    BY <1>1, <1>4, TouchedType
  <2>2. media' \in Seq(Nat)
    BY <1>1, <1>5, <2>1
  <2>3. blk_addr' \in 0 .. Word - 1 /\ blk_len' \in Nat
    BY <1>1, <1>4, <1>5, Wraps
  <2> QED BY <1>1, <1>2, <2>2, <2>3 DEF DiskOK, diskVars
<1>7. SenseOK'
  BY <1>2 DEF IInv, TypeOK, SenseOK, senseVars
<1>8. CASE blk_len = len
  <2>1. /\ status' = "PASSED" /\ residue' = residue - len
        /\ bot_state' = "IDLE" /\ in' = Csw /\ out' = "cbw"
    BY <1>5, <1>8 DEF SendCSW
  <2>2. MachineOK'
    BY <1>1, <1>2, <1>3, <1>4, <2>1 DEF MachineOK
  <2>3. PortOK'
    BY <1>1, <1>2, <1>4, <2>1 DEF PortOK, Csw
  <2>4. Ready'
    BY <1>2, <2>1 DEF Ready, Nak, Csw, Stall
  <2>5. residue' = cbw'.len - moved'
    <3>1. residue - len = cbw.len - (moved + len)
      BY <1>1, <1>3, <1>4
    <3> QED BY <1>2, <1>4, <2>1, <3>1
  <2>6. in'.kind = "csw" /\ bot_state' = "IDLE"
    BY <2>1 DEF Csw
  <2>7. Counted'
    BY <2>5, <2>6 DEF Counted
  <2> QED BY <1>6, <1>7, <2>2, <2>3, <2>4, <2>7 DEF IInv, TypeOK
<1>9. CASE blk_len # len
  <2>1. /\ out' = "data" /\ residue' = residue - len
        /\ UNCHANGED <<bot_state, status, in>>
    BY <1>5, <1>9
  <2>2. MachineOK'
    BY <1>1, <1>2, <1>3, <1>4, <2>1 DEF MachineOK
  <2>3. PortOK'
    BY <1>1, <1>2, <1>4, <2>1 DEF PortOK
  <2>4. Ready'
    BY <1>2, <1>3, <2>1 DEF Ready, Nak, Csw, Stall
  <2>5. Counted'
    <3>0. blk_len' = blk_len - len /\ residue' = residue - len /\ cbw' = cbw
      BY <1>2, <1>5, <2>1
    <3>1. residue' \in Int /\ residue' = blk_len' /\ residue' = cbw'.len - moved'
      <4>1. residue \in Int /\ len \in Int /\ moved \in Int /\ cbw.len \in Int
        BY <1>1, <1>4
      <4>2. residue = blk_len /\ residue = cbw.len - moved /\ moved' = moved + len
        BY <1>3, <1>4
      <4>3. residue' = cbw.len - moved'
        BY <3>0, <4>1, <4>2
      <4> QED BY <3>0, <4>1, <4>2, <4>3
    <3>2. cbw'.op = "write" /\ in' = Nak /\ bot_state' = "DATA_OUT"
      BY <1>2, <1>3, <2>1
    <3>3. in'.kind = "nak"
      BY <3>2 DEF Nak
    <3> QED BY <3>1, <3>2, <3>3 DEF Counted
  <2> QED BY <1>6, <1>7, <2>2, <2>3, <2>4, <2>5 DEF IInv, TypeOK
<1> QED BY <1>8, <1>9

-----------------------------------------------------------------------------
\* The host clears the IN endpoint, or has a recovery do it.
LEMMA ClearInSteps ==
  ASSUME IInv, ClearHaltIn \/ ResetIn
  PROVE  IInv'
<1>1. /\ MachineOK /\ SenseOK /\ DiskOK /\ PortOK /\ Ready
      /\ UNCHANGED hostOnly /\ owed' = owed /\ ClearIn
  BY DEF IInv, TypeOK, ClearHaltIn, ResetIn
<1>2. SenseOK' /\ DiskOK'
  BY <1>1 DEF hostOnly, SenseOK, DiskOK, senseVars, diskVars, blkVars
<1>3. CASE ClearHaltIn
  <2>1. /\ in = Stall /\ phase' \in {"status", "retry"}
        /\ out # "stall" /\ Live
    BY <1>1, <1>3 DEF ClearHaltIn, Ready, Live
  <2>2. /\ in.kind = "stall" /\ in # Nak
        /\ cbw' = cbw /\ moved' = moved /\ blk_len' = blk_len
    BY <1>1, <2>1 DEF Stall, Nak, hostOnly, blkVars
  <2>3. residue = cbw.len - moved /\ bot_state # "DATA_OUT"
    BY <2>1, <2>2 DEF IInv, Counted
  <2>4. CASE bot_status = "NORMAL"
    <3>1. /\ status' = "FAILED" /\ residue' = residue /\ bot_state' = "IDLE"
          /\ in' = Csw /\ out' = "cbw" /\ bot_status' = bot_status
      BY <1>1, <2>4 DEF ClearIn, SendCSW
    <3>2. MachineOK' /\ PortOK'
      BY <1>1, <2>1, <2>2, <3>1 DEF MachineOK, PortOK, Csw
    <3>3. Ready'
      BY <2>1, <3>1 DEF Ready, Csw, Nak, Stall
    <3>4. in'.kind = "csw"
      BY <3>1 DEF Csw
    <3>5. Counted'
      BY <2>2, <2>3, <3>1, <3>4 DEF Counted
    <3> QED BY <1>2, <3>2, <3>3, <3>5 DEF IInv, TypeOK
  <2>5. CASE bot_status # "NORMAL"
    <3>1. /\ in' \in {Stall, Nak} /\ out' = out
          /\ UNCHANGED <<bot_state, statusVars>>
          /\ bot_status' \in {"NORMAL", "RECOVERY"}
      BY <1>1, <2>5 DEF ClearIn, MachineOK
    <3>2. MachineOK' /\ PortOK'
      BY <1>1, <2>1, <2>2, <3>1 DEF MachineOK, PortOK, Stall, Nak, statusVars
    <3>3. in'.kind \in {"stall", "nak"}
      BY <3>1 DEF Stall, Nak
    <3>4. Ready'
      BY <2>1, <3>1, <3>3 DEF Ready
    <3>5. residue' = cbw'.len - moved' /\ bot_state' # "DATA_OUT"
      BY <2>2, <2>3, <3>1 DEF statusVars
    <3>6. Counted'
      BY <3>3, <3>5 DEF Counted
    <3> QED BY <1>2, <3>2, <3>4, <3>6 DEF IInv, TypeOK
  <2> QED BY <2>4, <2>5
<1>4. CASE ResetIn
  <2>1. phase' = "resetOut" /\ bot_status = "RECOVERY" /\ out = "cbw" /\ bot_state = "IDLE"
    BY <1>1, <1>4 DEF ResetIn, Ready
  <2>2. in' = Nak /\ UNCHANGED <<bot_state, bot_status, statusVars, out>>
    BY <1>1, <2>1 DEF ClearIn
  <2>3. MachineOK' /\ PortOK'
    BY <1>1, <2>1, <2>2 DEF MachineOK, PortOK, Nak, statusVars, hostOnly
  <2>4. Ready' /\ Counted'
    BY <2>1, <2>2 DEF Ready, Counted, Live, Nak, Csw, Stall
  <2> QED BY <1>2, <2>3, <2>4 DEF IInv, TypeOK
<1> QED BY <1>3, <1>4

\* The host clears the OUT endpoint, or has a recovery do it.
LEMMA ClearOutSteps ==
  ASSUME IInv, ClearHaltOut \/ ResetOut
  PROVE  IInv'
<1>1. /\ MachineOK /\ SenseOK /\ DiskOK /\ PortOK /\ Ready
      /\ UNCHANGED hostOnly /\ ClearOut
  BY DEF IInv, TypeOK, ClearHaltOut, ResetOut
<1>2. /\ DiskOK' /\ cbw' = cbw /\ moved' = moved /\ blk_len' = blk_len
      /\ UNCHANGED <<senseVars, reason>>
  BY <1>1 DEF hostOnly, DiskOK, diskVars, blkVars
<1>3. CASE ClearHaltOut
  <2>1. /\ in = Stall /\ out = "stall" /\ phase' = "status" /\ Live /\ owed' = owed
    BY <1>1, <1>3 DEF ClearHaltOut, Ready, Live
  <2>2. in.kind = "stall" /\ in # Nak
    BY <2>1 DEF Stall, Nak
  <2>3. residue = cbw.len - moved /\ bot_state # "DATA_OUT"
    BY <2>1, <2>2 DEF IInv, Counted
  <2>4. /\ in' = Stall /\ out' = "stray" /\ UNCHANGED <<bot_state, statusVars>>
        /\ bot_status' \in {"NORMAL", bot_status}
    BY <1>1, <2>1 DEF ClearOut
  <2>5. MachineOK' /\ PortOK'
    BY <1>1, <1>2, <2>1, <2>4 DEF MachineOK, PortOK, Stall, statusVars
  <2>6. SenseOK'
    BY <1>1, <1>2, <2>1 DEF SenseOK, senseVars
  <2>7. Ready'
    BY <2>1, <2>4 DEF Ready, Stall, Csw
  <2>8. residue' = cbw'.len - moved' /\ bot_state' # "DATA_OUT" /\ in'.kind = "stall"
    BY <1>2, <2>2, <2>3, <2>1, <2>4 DEF statusVars
  <2>9. Counted'
    BY <2>8 DEF Counted
  <2> QED BY <1>2, <2>5, <2>6, <2>7, <2>9 DEF IInv, TypeOK
<1>4. CASE ResetOut
  <2>1. /\ phase = "resetOut" /\ phase' = "idle" /\ owed' = "any"
        /\ in = Nak /\ bot_status = "RECOVERY" /\ out = "cbw" /\ bot_state = "IDLE"
    BY <1>1, <1>4 DEF ResetOut, Ready
  <2>2. out' = "cbw" /\ in' = Nak /\ UNCHANGED <<bot_state, bot_status, statusVars>>
    BY <1>1, <2>1 DEF ClearOut
  <2>3. MachineOK' /\ PortOK'
    BY <1>1, <1>2, <2>1, <2>2 DEF MachineOK, PortOK, Nak, statusVars
  <2>4. SenseOK'
    BY <1>1, <1>2, <2>1 DEF SenseOK, senseVars
  <2>5. Ready' /\ Counted'
    BY <2>1, <2>2 DEF Ready, Counted, Live, Nak, Csw, Stall
  <2> QED BY <1>2, <2>3, <2>4, <2>5 DEF IInv, TypeOK
<1> QED BY <1>3, <1>4

\* The host gives the command up, or starts over with the device.
LEMMA ResetSteps ==
  ASSUME IInv, SecondStall \/ TimeOut \/ Reconfigure
  PROVE  IInv'
<1>1. /\ MachineOK /\ SenseOK /\ DiskOK /\ PortOK /\ Ready
  BY DEF IInv, TypeOK
<1>2. CASE BotReset
  <2>1. /\ phase' = "reset" /\ bot_state' = "IDLE" /\ bot_status' = "RECOVERY"
        /\ out' = "cbw" /\ in' = in /\ owed' = owed
        /\ UNCHANGED <<statusVars, hostOnly>>
    BY <1>2 DEF BotReset
  <2>2. MachineOK'
    BY <1>1, <2>1 DEF MachineOK, statusVars, hostOnly
  <2>3. SenseOK' /\ DiskOK'
    BY <1>1, <2>1 DEF hostOnly, SenseOK, DiskOK, senseVars, diskVars, blkVars
  <2>4. PortOK'
    BY <1>1, <2>1 DEF hostOnly, PortOK
  <2>5. Ready' /\ Counted'
    BY <1>1, <2>1 DEF Ready, Counted, Live
  <2> QED BY <2>2, <2>3, <2>4, <2>5 DEF IInv, TypeOK
<1>3. CASE Reconfigure
  <2>1. MachineOK' /\ DiskOK'
    BY <1>1, <1>3 DEF Reconfigure, MachineOK, DiskOK, statusVars, diskVars, blkVars
  <2>2. SenseOK'
    BY <1>1, <1>3, Numbers DEF Reconfigure, SenseOK
  <2>3. PortOK'
    BY <1>1, <1>3 DEF Reconfigure, PortOK, Nak
  <2>4. Ready' /\ Counted'
    BY <1>3 DEF Reconfigure, Ready, Counted, Live, Nak, Csw, Stall
  <2> QED BY <2>1, <2>2, <2>3, <2>4 DEF IInv, TypeOK
<1> QED BY <1>2, <1>3 DEF SecondStall, TimeOut

LEMMA InvNext == IInv /\ [Next]_vars => IInv'
<1> SUFFICES ASSUME IInv, [Next]_vars PROVE IInv'
  OBVIOUS
<1>1. CASE \E c \in Commands : Command(c)
  BY <1>1, CommandStep
<1>2. CASE Host
  BY <1>2, ReadSteps, SendStep, ClearInSteps, ClearOutSteps, ResetSteps DEF Host
<1>3. CASE TimeOut \/ Reconfigure
  BY <1>3, ResetSteps
<1>4. CASE UNCHANGED vars
  BY <1>4 DEF vars, IInv, TypeOK, MachineOK, SenseOK, DiskOK, PortOK, Ready, Counted,
              Live, Nak, Csw, Stall, statusVars, senseVars, diskVars, blkVars
<1> QED BY <1>1, <1>2, <1>3, <1>4 DEF Next

-----------------------------------------------------------------------------
\* The invariant holds for every set of commands and every trouble on the bus.
THEOREM Invariance == Spec => []IInv
<1>1. Init => IInv
  BY InvInit
<1>2. IInv /\ [Next]_vars => IInv'
  BY InvNext
<1> QED BY <1>1, <1>2, PTL DEF Spec

\* The variables of the machine keep their types; the sense ring stays within
\* its bounds and no residue is negative.
THEOREM TypeCorrect == Spec => []TypeOK
<1>1. IInv => TypeOK
  BY DEF IInv
<1> QED BY <1>1, Invariance, PTL

\* A host that is done with a command, or has recovered, finds the OUT endpoint
\* armed for the next CBW and the machine idle.
THEOREM TakesNextCommand == Spec => []TakesNext
<1>1. IInv => TakesNext
  BY DEF IInv, Ready, TakesNext
<1> QED BY <1>1, Invariance, PTL

-----------------------------------------------------------------------------
\* A step of one in a ring of several entries leads to another one.
LEMMA RingStep ==
  ASSUME Depth > 1, NEW i \in 0 .. Depth - 1
  PROVE  (i + 1) % Depth # i
<1>1. Depth \in Nat /\ i \in Nat
  BY Numbers
<1>2. CASE i + 1 < Depth
  <2>1. (i + 1) % Depth = i + 1
    BY <1>1, <1>2
  <2> QED BY <1>1, <2>1
<1>3. CASE i + 1 = Depth
  <2>1. (i + 1) % Depth = 0
    BY <1>1, <1>3
  <2> QED BY <1>1, <1>3, <2>1
<1> QED BY <1>1, <1>2, <1>3

LEMMA Endpoints ==
  /\ Stall # Nak /\ Stall # Csw /\ Csw # Nak
  /\ Stall.kind = "stall" /\ Csw.kind = "csw" /\ Nak.kind = "nak"
BY DEF Stall, Nak, Csw

\* What a host that may send c knows of the list.
LEMMA BeforeCommand ==
  ASSUME IInv, SInv, NEW c \in Commands, Send(c), Steady'
  PROVE  /\ bot_status # "RECOVERY" /\ in = Nak
         /\ owed \notin Codes => head = tail
         /\ owed \in Codes => c.op = "sense" /\ Holds(owed)
<1>1. phase = "idle" /\ owed' = owed /\ (owed \in Codes => c.op = "sense")
  BY DEF Send
<1>2. Steady /\ ~Live
  BY <1>1 DEF Steady, Live
<1>3. in = Nak
  BY <1>1 DEF IInv, Ready
<1> QED BY <1>1, <1>2, <1>3, Zenon DEF SInv, Failing

\* The command that fails enters its code into an empty list.
LEMMA FailKeepsSense ==
  ASSUME Depth > 1, IInv, SInv, NEW c \in Commands, Send(c), c.op # "sense",
         NEW code \in Codes, SenseCode(code), in' = Stall,
         bot_status' \in {bot_status, "ERROR"}
  PROVE  SInv'
<1>1. SUFFICES ASSUME Steady' PROVE SInv'
  BY DEF SInv
<1>2. bot_status # "RECOVERY" /\ owed \notin Codes /\ head = tail
  BY <1>1, BeforeCommand DEF Send
<1>3. /\ cbw' = c /\ owed' = owed /\ phase' \in {"status", "data"}
      /\ bot_status' # "RECOVERY"
  BY <1>2 DEF Send
<1>4. /\ sense' = [sense EXCEPT ![tail] = code] /\ tail' = (tail + 1) % Depth
      /\ reason' = code /\ head' = head
  BY DEF SenseCode
<1>5. tail \in DOMAIN sense
  BY DEF IInv, TypeOK, SenseOK
<1>6. Holds(reason)'
  BY <1>2, <1>4, <1>5 DEF Holds
<1>7. Failing' /\ in'.kind = "stall" /\ in' # Csw /\ Live'
  BY <1>3, Endpoints DEF Failing, Live
<1> QED BY <1>2, <1>3, <1>4, <1>6, <1>7 DEF SInv

LEMMA RefuseKeepsSense ==
  ASSUME Depth > 1, IInv, SInv, NEW c \in Commands, Send(c), c.op # "sense",
         NEW code \in Codes, Refuse(c, code)
  PROVE  SInv'
<1>1. SenseCode(code) /\ in' = Stall /\ bot_status' = bot_status
  BY DEF Refuse, Abort
<1> QED BY <1>1, FailKeepsSense

\* A command under way that has not failed, and was not a request for the code.
LEMMA GoesWell ==
  ASSUME IInv, SInv, NEW c \in Commands, Send(c), c.op # "sense",
         UNCHANGED <<bot_status, senseVars>>,
         in' # Stall, in' = Csw => status' = "PASSED"
  PROVE  SInv'
<1>1. SUFFICES ASSUME Steady' PROVE SInv'
  BY DEF SInv
<1>2. bot_status # "RECOVERY" /\ owed \notin Codes /\ head = tail
  BY <1>1, BeforeCommand DEF Send
<1>3. /\ cbw' = c /\ owed' = owed /\ phase' \in {"status", "data"}
      /\ bot_status' # "RECOVERY" /\ head' = tail'
  BY <1>2 DEF Send, senseVars
<1>4. ~Failing'
  BY Zenon DEF Failing
<1> QED BY <1>2, <1>3, <1>4 DEF SInv

\* A reply, or a status that says passed.
LEMMA AnswerShape ==
  ASSUME NEW c, NEW n, NEW v, Answer(c, n, v)
  PROVE  /\ in' # Stall /\ (in' = Csw => status' = "PASSED")
         /\ in'.kind = "reply" => in'.val = v
         /\ bot_status' = bot_status
<1>1. CASE n > 0
  <2>1. in' = [kind |-> "reply", len |-> Smaller(c.len, n), val |-> v]
        /\ bot_status' = bot_status
    BY <1>1 DEF Answer, SendData
  <2>2. in'.kind = "reply" /\ in'.val = v
    BY <2>1
  <2>3. in' # Stall /\ in' # Csw
    BY <2>2, Endpoints
  <2> QED BY <2>1, <2>2, <2>3
<1>2. CASE ~(n > 0)
  <2>1. in' = Csw /\ status' = "PASSED" /\ bot_status' = bot_status
    BY <1>2 DEF Answer, SendCSW
  <2> QED BY <2>1, Endpoints
<1> QED BY <1>1, <1>2

\* The host is told the one code of the list, which is then empty.
LEMMA RequestKeepsSense ==
  ASSUME Depth > 1, IInv, SInv, NEW c \in Commands, RequestSense(c)
  PROVE  SInv'
<1> DEFINE v == IF head = tail THEN "none" ELSE sense[head]
<1>1. SUFFICES ASSUME Steady' PROVE SInv'
  BY DEF SInv
<1>2. /\ Send(c) /\ c.op = "sense"
      /\ IF head = tail THEN head' = head ELSE head' = (head + 1) % Depth
      /\ Answer(c, Smaller(c.alloc, Reply), v)
      /\ sense' = sense /\ tail' = tail /\ reason' = reason
  BY DEF RequestSense
<1>3. /\ bot_status # "RECOVERY"
      /\ owed \notin Codes => head = tail
      /\ owed \in Codes => Holds(owed)
  BY <1>1, <1>2, BeforeCommand
<1>4. head \in 0 .. Depth - 1 /\ (head + 1) % Depth # head
  BY RingStep DEF IInv, TypeOK, SenseOK
<1>5. head' = tail' /\ (owed \in Codes => v = owed)
  BY <1>2, <1>3, <1>4 DEF Holds
<1> HIDE DEF v
<1>6. /\ in' # Stall /\ (in' = Csw => status' = "PASSED")
      /\ in'.kind = "reply" => in'.val = v
      /\ bot_status' # "RECOVERY"
  BY <1>2, <1>3, AnswerShape
<1>7. ~Failing'
  BY <1>6, Zenon DEF Failing
<1>8. cbw' = c /\ owed' = owed /\ phase' \in {"status", "data"}
  BY <1>2 DEF Send
<1> QED BY <1>2, <1>5, <1>6, <1>7, <1>8 DEF SInv

LEMMA AnswerKeepsSense ==
  ASSUME IInv, SInv, NEW c \in Commands, Send(c), c.op # "sense",
         NEW n, NEW v, Answer(c, n, v), UNCHANGED senseVars
  PROVE  SInv'
<1>1. /\ in' # Stall /\ (in' = Csw => status' = "PASSED")
      /\ bot_status' = bot_status
  BY AnswerShape
<1>2. UNCHANGED <<bot_status, senseVars>>
  BY <1>1
<1> QED BY <1>1, <1>2, GoesWell

\* Every command keeps the list in order.
LEMMA CommandKeepsSense ==
  ASSUME Depth > 1, IInv, SInv, NEW c \in Commands, Command(c)
  PROVE  SInv'
<1>0. /\ "INVALID_CDB" \in Codes /\ "ADDRESS_OUT_OF_RANGE" \in Codes
      /\ "INVALID_FIELD" \in Codes
  BY DEF Codes
<1>1. CASE Invalid(c)
  <2>1. /\ Send(c) /\ c.op # "sense" /\ SenseCode("INVALID_CDB") /\ in' = Stall
        /\ bot_status' \in {bot_status, "ERROR"}
    BY <1>1 DEF Invalid, Abort
  <2> QED BY <1>0, <2>1, FailKeepsSense
<1>2. CASE Unsupported(c)
  <2>1. Send(c) /\ c.op # "sense" /\ Refuse(c, "INVALID_CDB")
    BY <1>2 DEF Unsupported
  <2> QED BY <1>0, <2>1, RefuseKeepsSense
<1>3. CASE TestUnitReady(c)
  <2>1. /\ Send(c) /\ c.op # "sense"
        /\ \/ Refuse(c, "INVALID_CDB")
           \/ Answer(c, 0, "none") /\ UNCHANGED senseVars
    BY <1>3 DEF TestUnitReady
  <2> QED BY <1>0, <2>1, RefuseKeepsSense, AnswerKeepsSense
<1>4. CASE StartStopUnit(c) \/ Inquiry(c) \/ ModeSense(c) \/ ReadCapacity(c)
  <2>1. /\ Send(c) /\ c.op # "sense" /\ UNCHANGED senseVars
        /\ \/ Answer(c, 0, "none") \/ Answer(c, Reply, "none")
           \/ Answer(c, Smaller(c.alloc, Reply), "none")
    BY <1>4 DEF StartStopUnit, Inquiry, ModeSense, ReadCapacity
  <2> QED BY <2>1, AnswerKeepsSense
<1>5. CASE RequestSense(c)
  BY <1>5, RequestKeepsSense
<1>6. CASE Read10(c)
  <2> DEFINE addr == (c.lba * blk_size) % Word
             len  == c.nbr * blk_size
  <2>1. /\ Send(c) /\ c.op # "sense"
        /\ \/ Refuse(c, "INVALID_CDB") \/ Refuse(c, "ADDRESS_OUT_OF_RANGE")
           \/ /\ ProcessRead(<<>>, addr, len, c.len)
              /\ UNCHANGED <<bot_status, senseVars, reason>>
    BY <1>6 DEF Read10
  <2>2. ASSUME ProcessRead(<<>>, addr, len, c.len),
               UNCHANGED <<bot_status, senseVars, reason>>
        PROVE  SInv'
    <3>1. in'.kind = "blocks"
      BY <2>2 DEF ProcessRead
    <3>2. in' # Stall /\ in' # Csw
      BY <3>1, Endpoints
    <3>3. UNCHANGED <<bot_status, senseVars>>
      BY <2>2
    <3> QED BY <2>1, <3>2, <3>3, GoesWell
  <2> QED BY <1>0, <2>1, <2>2, RefuseKeepsSense
<1>7. CASE Write10(c)
  <2>1. /\ Send(c) /\ c.op # "sense"
        /\ \/ Refuse(c, "INVALID_CDB") \/ Refuse(c, "ADDRESS_OUT_OF_RANGE")
           \/ UNCHANGED <<bot_status, status, in, senseVars, reason>>
    BY <1>7 DEF Write10
  <2>2. ASSUME UNCHANGED <<bot_status, status, in, senseVars, reason>>
        PROVE  SInv'
    <3>1. in = Nak
      BY <2>1 DEF Send, IInv, Ready
    <3>2. in' # Stall /\ in' # Csw
      BY <2>2, <3>1, Endpoints
    <3>3. UNCHANGED <<bot_status, senseVars>>
      BY <2>2
    <3> QED BY <2>1, <3>2, <3>3, GoesWell
  <2> QED BY <1>0, <2>1, <2>2, RefuseKeepsSense
<1>8. CASE Verify10(c)
  <2>1. /\ Send(c) /\ c.op # "sense"
        /\ \/ Refuse(c, "INVALID_FIELD") \/ Refuse(c, "ADDRESS_OUT_OF_RANGE")
           \/ Answer(c, 0, "none") /\ UNCHANGED senseVars
    BY <1>8 DEF Verify10
  <2> QED BY <1>0, <2>1, RefuseKeepsSense, AnswerKeepsSense
<1> QED BY <1>1, <1>2, <1>3, <1>4, <1>5, <1>6, <1>7, <1>8 DEF Command

\* What the IN endpoint offers after MSC_BOT_DataIn: no halt, no reply, and no
\* failure.
LEMMA DataInShape ==
  ASSUME MachineOK, DataIn
  PROVE  /\ in' # Stall /\ in'.kind # "reply"
         /\ in' = Csw => status' = "PASSED"
<1>1. CASE bot_state = "DATA_IN"
  <2>1. in'.kind = "blocks"
    BY <1>1 DEF DataIn, ProcessRead
  <2> QED BY <2>1, Endpoints
<1>2. CASE bot_state \in {"SEND_DATA", "LAST_DATA_IN"}
  <2>1. in' = Csw /\ status' = "PASSED"
    BY <1>2 DEF DataIn, SendCSW
  <2> QED BY <2>1, Endpoints
<1>3. CASE bot_state \in {"IDLE", "DATA_OUT"}
  <2>1. in' = Nak
    BY <1>3 DEF DataIn
  <2> QED BY <2>1, Endpoints
<1> QED BY <1>1, <1>2, <1>3 DEF MachineOK

\* The host takes data or the status.
LEMMA ReadsKeepSense ==
  ASSUME IInv, SInv, ReadData \/ ReadStray \/ ReadStatus
  PROVE  SInv'
<1>1. SUFFICES ASSUME Steady' PROVE SInv'
  BY DEF SInv
<1>2. /\ Live /\ DataIn
      /\ UNCHANGED <<bot_status, cbw, sense, head, tail, reason>>
  BY DEF ReadData, ReadStray, ReadStatus, Live, senseVars
<1>3. /\ in' # Stall /\ in'.kind # "reply" /\ (in' = Csw => status' = "PASSED")
  BY <1>2, DataInShape DEF IInv, TypeOK
<1>4. ~Failing'
  BY <1>3, Zenon DEF Failing
<1>5. CASE ReadData \/ ReadStray
  <2>1. /\ owed' = owed /\ phase' \in {"data", "status", "retry"}
        /\ in.kind \in {"blocks", "reply", "csw"}
        /\ phase = "data" \/ in.kind # "csw"
    BY <1>5 DEF ReadData, ReadStray
  <2>2. Steady /\ Live'
    BY <1>1, <1>2, <2>1 DEF Steady, Live
  <2>3. ~Failing /\ phase # "idle"
    BY <1>2, <2>1, <2>2, Endpoints DEF Failing, SInv, Live
  <2>4. head = tail /\ bot_status # "RECOVERY" /\ (owed \in Codes => cbw.op = "sense")
    BY <1>2, <2>2, <2>3 DEF SInv
  <2> QED BY <1>2, <1>3, <1>4, <2>1, <2>2, <2>4 DEF SInv
<1>6. CASE ReadStatus
  <2>1. /\ phase' = "idle" /\ in = Csw
        /\ owed' = IF owed = "any" THEN owed
                   ELSE IF status = "FAILED" THEN reason ELSE "none"
    BY <1>6 DEF ReadStatus
  <2>2. owed # "any" /\ Steady
    BY <1>1, <1>2, <2>1 DEF Steady, Live
  <2>3. ~Live' /\ phase # "idle" /\ bot_status # "RECOVERY"
    BY <1>2, <2>1, <2>2 DEF Live, SInv
  <2>4. CASE status = "FAILED"
    <3>1. Failing
      BY <1>2, <2>1, <2>4, Zenon DEF Failing
    <3>2. owed' = reason /\ reason \in Codes /\ Holds(reason)
      BY <2>1, <2>2, <2>4, <3>1 DEF SInv
    <3>3. Holds(owed)' /\ owed' \in Codes
      BY <1>2, <3>2 DEF Holds
    <3> QED BY <1>2, <1>4, <2>1, <2>3, <3>3 DEF SInv
  <2>5. CASE status # "FAILED"
    <3>1. ~Failing
      BY <2>1, <2>5, Endpoints, Zenon DEF Failing
    <3>2. owed' = "none" /\ head = tail
      BY <2>1, <2>2, <2>3, <2>5, <3>1 DEF SInv
    <3>3. owed' \notin Codes
      BY <3>2 DEF Codes
    <3> QED BY <1>2, <1>4, <2>1, <2>3, <3>2, <3>3 DEF SInv
  <2> QED BY <2>4, <2>5
<1> QED BY <1>5, <1>6

\* The host sends the next block.
LEMMA SendKeepsSense ==
  ASSUME IInv, SInv, SendBlock
  PROVE  SInv'
<1>1. SUFFICES ASSUME Steady' PROVE SInv'
  BY DEF SInv
<1>2. /\ phase = "data" /\ bot_state = "DATA_OUT" /\ ProcessWrite
      /\ phase' \in {"data", "status"}
      /\ UNCHANGED <<bot_status, cbw, sense, head, tail, reason, owed>>
  BY DEF SendBlock, senseVars
<1>3. Live /\ Steady /\ Live'
  BY <1>1, <1>2 DEF Live, Steady
<1>4. in = Nak
  BY <1>2, <1>3 DEF IInv, Counted
<1>5. /\ in' # Stall /\ in'.kind # "reply"
      /\ in' = Csw => status' = "PASSED"
  <2>1. in' = in \/ (in' = Csw /\ status' = "PASSED")
    BY <1>2, Zenon DEF ProcessWrite, SendCSW
  <2> QED BY <1>4, <2>1, Endpoints
<1>6. ~Failing /\ ~Failing'
  BY <1>4, <1>5, Endpoints, Zenon DEF Failing
<1>7. /\ head = tail /\ bot_status # "RECOVERY"
      /\ owed \in Codes => cbw.op = "sense"
  BY <1>2, <1>3, <1>6 DEF SInv
<1> QED BY <1>2, <1>3, <1>5, <1>6, <1>7 DEF SInv

\* The host clears the halted endpoint of a command that has failed.
LEMMA ClearsKeepSense ==
  ASSUME IInv, SInv, ClearHaltIn \/ ClearHaltOut
  PROVE  SInv'
<1>1. SUFFICES ASSUME Steady' PROVE SInv'
  BY DEF SInv
<1>2. /\ in = Stall /\ Live /\ phase' \in {"status", "retry"}
      /\ UNCHANGED <<cbw, sense, head, tail, reason, owed>>
  BY DEF ClearHaltIn, ClearHaltOut, Live, hostOnly, senseVars, IInv, Ready
<1>3. Steady /\ Failing /\ Live'
  BY <1>1, <1>2 DEF Steady, Live, Failing
<1>4. /\ bot_status # "RECOVERY" /\ reason \in Codes /\ Holds(reason)
      /\ cbw.op # "sense" /\ owed \notin Codes
  BY <1>2, <1>3 DEF SInv
<1>5. bot_status \in {"NORMAL", "ERROR"}
  BY <1>4 DEF IInv, TypeOK, MachineOK
<1>6. /\ in' = Stall \/ (in' = Csw /\ status' = "FAILED")
      /\ bot_status' # "RECOVERY"
  <2>1. CASE ClearHaltIn
    <3>1. \/ in' = Stall /\ bot_status' = "NORMAL"
          \/ in' = Csw /\ status' = "FAILED" /\ bot_status' = bot_status
      BY <1>4, <2>1, Zenon DEF ClearHaltIn, ClearIn, SendCSW
    <3> QED BY <1>5, <3>1
  <2>2. CASE ClearHaltOut
    <3>1. \/ in' = Stall /\ bot_status' = "NORMAL"
          \/ in' = in /\ bot_status' = bot_status
      BY <2>2, Zenon DEF ClearHaltOut, ClearOut
    <3> QED BY <1>2, <1>5, <3>1
  <2> QED BY <2>1, <2>2
<1>7. Failing'
  BY <1>3, <1>6, Zenon DEF Failing
<1>8. Holds(reason)' /\ reason' \in Codes
  BY <1>2, <1>4 DEF Holds
<1> QED BY <1>2, <1>3, <1>4, <1>6, <1>7, <1>8 DEF SInv

\* A reset recovery leaves the list to chance; a new configuration empties it.
LEMMA ResetsKeepSense ==
  ASSUME SInv, SecondStall \/ TimeOut \/ ResetIn \/ ResetOut \/ Reconfigure
  PROVE  SInv'
<1>1. CASE SecondStall \/ TimeOut \/ ResetIn \/ ResetOut
  <2>1. ~Steady'
    BY <1>1 DEF SecondStall, TimeOut, BotReset, ResetIn, ResetOut, Steady
  <2> QED BY <2>1 DEF SInv
<1>2. CASE Reconfigure
  <2>1. /\ bot_status' = "NORMAL" /\ head' = tail' /\ phase' = "idle"
        /\ owed' = "none"
    BY <1>2 DEF Reconfigure
  <2>2. ~Live' /\ owed' \notin Codes
    BY <2>1 DEF Live, Codes
  <2>3. ~Failing'
    BY <2>2, Zenon DEF Failing
  <2> QED BY <2>1, <2>2, <2>3 DEF SInv
<1> QED BY <1>1, <1>2

-----------------------------------------------------------------------------
\* Positions in the ring.
LEMMA RingPosition ==
  ASSUME NEW a \in 0 .. Depth - 1, NEW k \in 0 .. Depth
  PROVE  (a + k) % Depth = IF a + k < Depth THEN a + k ELSE a + k - Depth
<1> DEFINE x == a + k
           q == x \div Depth
           r == x % Depth
<1>1. Depth \in Nat /\ Depth > 0 /\ x \in Nat /\ x < 2 * Depth
  BY Numbers
<1>2. q \in Nat /\ r \in Nat /\ r < Depth /\ x = Depth * q + r
  BY <1>1
<1> HIDE DEF x, q, r
<1>3. q < 2
  <2>1. SUFFICES ASSUME q >= 2 PROVE FALSE
    BY <1>2
  <2>2. Depth * q >= Depth * 2
    BY <1>1, <1>2, <2>1
  <2> QED BY <1>1, <1>2, <2>2
<1>4. CASE q = 0
  <2>1. x = r
    BY <1>1, <1>2, <1>4
  <2> QED BY <1>2, <2>1 DEF x, r
<1>5. CASE q = 1
  <2>1. x = Depth + r
    BY <1>1, <1>2, <1>5
  <2> QED BY <1>1, <1>2, <2>1 DEF x, r
<1> QED BY <1>2, <1>3, <1>4, <1>5

\* A code is entered behind the last one.
LEMMA CodeKept ==
  ASSUME IInv, QInv, NEW code \in Codes, SenseCode(code)
  PROVE  QInv'
<1> DEFINE n == Len(untold)
<1>1. /\ Depth \in Nat /\ head \in 0 .. Depth - 1 /\ tail \in 0 .. Depth - 1
      /\ untold \in Seq(Codes) /\ n \in Nat /\ n < Depth
      /\ tail = (head + n) % Depth /\ tail \in DOMAIN sense
  BY Numbers DEF IInv, TypeOK, SenseOK, QInv
<1>2. /\ sense' = [sense EXCEPT ![tail] = code] /\ tail' = (tail + 1) % Depth
      /\ head' = head /\ Note(code)
  BY DEF SenseCode
<1>n. n \in 0 .. Depth /\ 0 \in 0 .. Depth /\ 1 \in 0 .. Depth
  BY <1>1
<1> HIDE DEF n
<1>3. tail = IF head + n < Depth THEN head + n ELSE head + n - Depth
  BY <1>1, <1>n, RingPosition, Zenon
<1>4. tail' = IF tail + 1 < Depth THEN tail + 1 ELSE tail + 1 - Depth
  BY <1>1, <1>2, <1>n, RingPosition, Zenon
<1>t. /\ Depth \in Nat /\ head \in 0 .. Depth - 1 /\ n \in Nat /\ n < Depth
      /\ head' = head
  BY <1>1, <1>2
<1>5. CASE n + 1 = Depth
  <2>1. untold' = <<>>
    BY <1>2, <1>5 DEF Note, n
  <2>2. tail' = head' /\ head' = head
    BY <1>3, <1>4, <1>5, <1>t
  <2>e. Len(untold') = 0
    BY <2>1
  <2>3. (head' + 0) % Depth = head'
    <3>1. (head + 0) % Depth = IF head + 0 < Depth THEN head + 0 ELSE head + 0 - Depth
      BY <1>1, <1>n, RingPosition, Zenon
    <3> QED BY <1>1, <1>2, <3>1
  <2>4. tail' = (head' + Len(untold')) % Depth
    BY <2>2, <2>3, <2>e
  <2>5. 1 .. Len(untold') = {} /\ Len(untold') < Depth
    BY <1>1, <2>e
  <2> QED BY <2>4, <2>5 DEF QInv
<1>6. CASE n + 1 # Depth
  <2>1. /\ untold' = Append(untold, code) /\ Len(untold') = n + 1
        /\ \A i \in 1 .. n : untold'[i] = untold[i]
        /\ untold'[n + 1] = code
    BY <1>1, <1>2, <1>6 DEF Note, n
  <2>2. n + 1 < Depth
    BY <1>1, <1>6
  <2>3. (head' + (n + 1)) % Depth = tail'
    <3>1. (head + (n + 1)) % Depth
            = IF head + (n + 1) < Depth THEN head + (n + 1) ELSE head + (n + 1) - Depth
      <4>1. n + 1 \in 0 .. Depth
        BY <1>1, <2>2
      <4> DEFINE m == n + 1
      <4> HIDE DEF m
      <4>2. (head + m) % Depth = IF head + m < Depth THEN head + m ELSE head + m - Depth
        <5>1. m \in 0 .. Depth
          BY <4>1 DEF m
        <5> QED BY <1>1, <5>1, RingPosition, Zenon
      <4> QED BY <4>2 DEF m
    <3>2. tail' = IF head + (n + 1) < Depth THEN head + (n + 1) ELSE head + (n + 1) - Depth
      BY <1>3, <1>4, <1>t, <2>2
    <3> QED BY <1>t, <3>1, <3>2
  <2>4. ASSUME NEW i \in 1 .. n + 1
        PROVE  sense'[(head' + i - 1) % Depth] = untold'[i]
    <3>1. i - 1 \in 0 .. Depth /\ head + (i - 1) = head + i - 1
      BY <1>1, <2>2
    <3>2. (head + i - 1) % Depth
            = IF head + (i - 1) < Depth THEN head + (i - 1) ELSE head + (i - 1) - Depth
      <4>1. (head + (i - 1)) % Depth
              = IF head + (i - 1) < Depth THEN head + (i - 1) ELSE head + (i - 1) - Depth
        BY <1>1, <3>1, RingPosition, Zenon
      <4> QED BY <3>1, <4>1
    <3>3. CASE i = n + 1
      <4>1. (head + i - 1) % Depth = tail
        BY <1>1, <1>3, <3>2, <3>3
      <4> QED BY <1>1, <1>2, <2>1, <3>3, <4>1
    <3>4. CASE i # n + 1
      <4>1. i \in 1 .. n
        BY <1>1, <3>4
      <4>2. (head + i - 1) % Depth # tail
        BY <1>1, <1>3, <2>2, <3>2, <4>1
      <4>3. sense[(head + i - 1) % Depth] = untold[i]
        BY <4>1 DEF QInv, Slot, n
      <4>4. sense'[(head + i - 1) % Depth] = sense[(head + i - 1) % Depth]
        <5> DEFINE p == (head + i - 1) % Depth
        <5>1. p \in 0 .. Depth - 1
          BY <1>1, <2>2, <3>2, <4>1
        <5>2. DOMAIN sense = 0 .. Depth - 1
          BY DEF IInv, TypeOK, SenseOK
        <5>3. p # tail
          BY <4>2
        <5> HIDE DEF p
        <5>4. sense'[p] = sense[p]
          BY <1>2, <5>1, <5>2, <5>3
        <5> QED BY <5>4 DEF p
      <4> QED BY <1>2, <2>1, <4>1, <4>3, <4>4
    <3> QED BY <3>3, <3>4
  <2> QED BY <2>1, <2>2, <2>3, <2>4 DEF QInv, Slot
<1> QED BY <1>5, <1>6

\* The list is empty when nothing is left to be told; its first entry is the
\* oldest failure.
LEMMA FirstEntry ==
  ASSUME IInv, QInv
  PROVE  /\ head = tail <=> untold = <<>>
         /\ Oldest = IF head = tail THEN "none" ELSE sense[head]
<1> DEFINE n == Len(untold)
<1>1. /\ Depth \in Nat /\ head \in 0 .. Depth - 1
      /\ untold \in Seq(Codes) /\ n \in Nat /\ n < Depth
      /\ tail = (head + n) % Depth
  BY Numbers DEF IInv, TypeOK, SenseOK, QInv
<1>n. n \in 0 .. Depth /\ 0 \in 0 .. Depth
  BY <1>1
<1>4. n = 0 <=> untold = <<>>
  BY <1>1
<1>0. 1 \in 1 .. n \/ n = 0
  BY <1>1
<1> HIDE DEF n
<1>2. tail = IF head + n < Depth THEN head + n ELSE head + n - Depth
  BY <1>1, <1>n, RingPosition, Zenon
<1>3. head = tail <=> n = 0
  BY <1>1, <1>2
<1>5. ASSUME untold # <<>> PROVE Head(untold) = sense[head]
  <2>1. 1 \in 1 .. n /\ Head(untold) = untold[1]
    BY <1>0, <1>1, <1>4, <1>5
  <2>2. (head + 1 - 1) % Depth = head
    <3>1. (head + 0) % Depth = IF head + 0 < Depth THEN head + 0 ELSE head + 0 - Depth
      BY <1>1, <1>n, RingPosition, Zenon
    <3>2. head + 1 - 1 = head + 0 /\ head + 0 = head /\ head < Depth
      BY <1>1
    <3> QED BY <3>1, <3>2
  <2> QED BY <2>1, <2>2 DEF QInv, Slot, n
<1> QED BY <1>3, <1>4, <1>5 DEF Oldest

\* The first entry is taken out.
LEMMA EntryTold ==
  ASSUME IInv, QInv, NEW c \in Commands, RequestSense(c)
  PROVE  QInv'
<1> DEFINE n == Len(untold)
<1>1. /\ Depth \in Nat /\ Depth > 0 /\ head \in 0 .. Depth - 1
      /\ untold \in Seq(Codes) /\ n \in Nat /\ n < Depth
      /\ tail = (head + n) % Depth
  BY Numbers DEF IInv, TypeOK, SenseOK, QInv
<1>2. /\ IF head = tail THEN head' = head ELSE head' = (head + 1) % Depth
      /\ sense' = sense /\ tail' = tail /\ Tell
  BY DEF RequestSense
<1>3. CASE untold = <<>>
  <2>1. untold' = untold /\ head' = head
    BY <1>2, <1>3, FirstEntry DEF Tell
  <2> QED BY <1>2, <2>1 DEF QInv, Slot
<1>4. CASE untold # <<>>
  <2>1. /\ untold' = Tail(untold) /\ Len(untold') = n - 1 /\ n > 0
        /\ \A i \in 1 .. n - 1 : untold'[i] = untold[i + 1]
    BY <1>1, <1>2, <1>4 DEF Tell
  <2>2. head' = (head + 1) % Depth
    BY <1>2, <1>4, FirstEntry
  <2>3. /\ head' = IF head + 1 < Depth THEN head + 1 ELSE head + 1 - Depth
        /\ head' \in 0 .. Depth - 1
    <3>1. head' = IF head + 1 < Depth THEN head + 1 ELSE head + 1 - Depth
      BY <1>1, <2>2, RingPosition
    <3> QED BY <1>1, <3>1
  <2>4. ASSUME NEW k \in 0 .. Depth - 1
        PROVE  (head' + k) % Depth = (head + (k + 1)) % Depth
    <3>1. (head' + k) % Depth = IF head' + k < Depth THEN head' + k ELSE head' + k - Depth
      BY <1>1, <2>3, RingPosition
    <3>2. (head + (k + 1)) % Depth
            = IF head + (k + 1) < Depth THEN head + (k + 1) ELSE head + (k + 1) - Depth
      BY <1>1, RingPosition
    <3>3. CASE head + 1 < Depth
      <4>1. head' + k = head + (k + 1)
        BY <1>1, <2>3, <3>3
      <4> QED BY <4>1
    <3>4. CASE ~(head + 1 < Depth)
      <4>1. head' = 0 /\ head + (k + 1) = Depth + k
        BY <1>1, <2>3, <3>4
      <4> QED BY <1>1, <3>1, <3>2, <4>1
    <3> QED BY <3>3, <3>4
  <2>5. tail' = (head' + (n - 1)) % Depth
    <3>1. n - 1 \in 0 .. Depth - 1 /\ (n - 1) + 1 = n
      BY <1>1, <2>1
    <3>2. (head' + (n - 1)) % Depth = (head + ((n - 1) + 1)) % Depth
      BY <3>1, <2>4
    <3> QED BY <1>1, <1>2, <3>1, <3>2
  <2>6. ASSUME NEW i \in 1 .. n - 1
        PROVE  sense'[(head' + i - 1) % Depth] = untold'[i]
    <3>1. i - 1 \in 0 .. Depth - 1 /\ i + 1 \in 1 .. n
      BY <1>1
    <3>2. /\ head' + i - 1 = head' + (i - 1)
          /\ head + ((i - 1) + 1) = head + (i + 1) - 1
      BY <1>1, <2>3
    <3>3. (head' + i - 1) % Depth = (head + (i + 1) - 1) % Depth
      <4>1. (head' + (i - 1)) % Depth = (head + ((i - 1) + 1)) % Depth
        BY <3>1, <2>4
      <4> QED BY <3>2, <4>1
    <3>4. sense[(head + (i + 1) - 1) % Depth] = untold[i + 1]
      BY <3>1 DEF QInv, Slot
    <3> QED BY <1>2, <2>1, <3>3, <3>4
  <2>7. n - 1 < Depth
    BY <1>1
  <2> QED BY <2>1, <2>5, <2>6, <2>7 DEF QInv, Slot
<1> QED BY <1>3, <1>4

\* What a command does to the list.
LEMMA CommandQueue ==
  ASSUME NEW c \in Commands, Command(c)
  PROVE  \/ \E code \in Codes : SenseCode(code)
         \/ RequestSense(c) \/ UNCHANGED senseVars
<1>0. /\ "INVALID_CDB" \in Codes /\ "ADDRESS_OUT_OF_RANGE" \in Codes
      /\ "INVALID_FIELD" \in Codes
  BY DEF Codes
<1>1. CASE Invalid(c) \/ Unsupported(c) \/ TestUnitReady(c)
  BY <1>0, <1>1 DEF Invalid, Unsupported, TestUnitReady, Refuse
<1>2. CASE StartStopUnit(c) \/ Inquiry(c) \/ ModeSense(c) \/ ReadCapacity(c)
  BY <1>2 DEF StartStopUnit, Inquiry, ModeSense, ReadCapacity
<1>3. CASE Read10(c)
  BY <1>0, <1>3 DEF Read10, Refuse
<1>4. CASE Write10(c)
  BY <1>0, <1>4 DEF Write10, Refuse
<1>5. CASE Verify10(c)
  BY <1>0, <1>5 DEF Verify10, Refuse
<1> QED BY <1>1, <1>2, <1>3, <1>4, <1>5 DEF Command

\* The ring is a queue, whatever the host does.
LEMMA QueueNext ==
  ASSUME IInv, QInv, [Next]_vars
  PROVE  QInv'
<1>1. ASSUME UNCHANGED senseVars PROVE QInv'
  BY <1>1 DEF senseVars, QInv, Slot
<1>2. ASSUME NEW c \in Commands, Command(c) PROVE QInv'
  BY <1>1, <1>2, CommandQueue, CodeKept, EntryTold
<1>3. CASE ReadData \/ ReadStray \/ ReadStatus \/ SendBlock
  BY <1>1, <1>3 DEF ReadData, ReadStray, ReadStatus, SendBlock
<1>4. CASE \/ ClearHaltIn \/ ClearHaltOut \/ SecondStall \/ ResetIn \/ ResetOut
           \/ TimeOut
  BY <1>1, <1>4 DEF ClearHaltIn, ClearHaltOut, SecondStall, ResetIn, ResetOut, TimeOut,
                    BotReset, hostOnly
<1>5. CASE Reconfigure
  <2>1. head' = 0 /\ tail' = 0 /\ untold' = <<>> /\ Len(untold') = 0
    BY <1>5 DEF Reconfigure
  <2>2. 0 \in 0 .. Depth - 1 /\ 0 \in 0 .. Depth /\ 0 < Depth
    BY Numbers
  <2>3. (0 + 0) % Depth = 0
    BY <2>2, RingPosition
  <2> QED BY <2>1, <2>2, <2>3 DEF QInv
<1>6. CASE UNCHANGED vars
  BY <1>1, <1>6 DEF vars
<1> QED BY <1>2, <1>3, <1>4, <1>5, <1>6 DEF Next, Host

\* What the host is told when it asks.
LEMMA ToldOldest ==
  ASSUME Depth > 1, IInv, SInv, QInv, [Next]_vars,
         phase = "idle", cbw'.op = "sense", in'.kind = "reply"
  PROVE  in'.val = Oldest /\ (owed \in Codes => in'.val = owed)
<1> DEFINE v == IF head = tail THEN "none" ELSE sense[head]
<1>1. v = Oldest
  BY FirstEntry
<1>2. in = Nak
  BY DEF IInv, Ready
<1>3. \E c \in Commands : Command(c)
  <2>1. in' # Nak
    BY Endpoints
  <2>2. ~UNCHANGED vars
    BY <1>2, <2>1 DEF vars
  <2>3. ~(Host \/ TimeOut \/ Reconfigure)
    BY <2>1 DEF Host, ReadData, ReadStray, ReadStatus, SendBlock, ClearHaltIn,
       ClearHaltOut, SecondStall, ResetIn, ResetOut, TimeOut, Reconfigure
  <2> QED BY <2>2, <2>3 DEF Next
<1>4. PICK c \in Commands : RequestSense(c)
  <2>1. PICK c \in Commands : Command(c)
    BY <1>3
  <2>2. cbw' = c
    BY <2>1 DEF Command, Invalid, Unsupported, TestUnitReady, StartStopUnit, Inquiry,
       ModeSense, RequestSense, ReadCapacity, Read10, Write10, Verify10, Send
  <2>3. c.op = "sense"
    BY <2>2
  <2> QED BY <2>1, <2>3 DEF Command, Invalid, Unsupported, TestUnitReady, StartStopUnit,
       Inquiry, ModeSense, ReadCapacity, Read10, Write10, Verify10
<1>5. Answer(c, Smaller(c.alloc, Reply), v)
  BY <1>4 DEF RequestSense
<1> HIDE DEF v
<1>6. in'.val = v
  BY <1>5, AnswerShape
<1>7. ASSUME owed \in Codes PROVE v = owed
  <2>1. Steady
    <3>1. owed # "any"
      BY <1>7 DEF Codes
    <3> QED BY <3>1 DEF Steady
  <2>2. Holds(owed)
    BY <1>7, <2>1 DEF SInv
  <2>3. head # tail
    <3>1. head \in 0 .. Depth - 1
      BY DEF IInv, TypeOK, SenseOK
    <3> QED BY <2>2, <3>1, RingStep DEF Holds
  <2> QED BY <2>2, <2>3 DEF Holds, v
<1> QED BY <1>1, <1>6, <1>7

\* REQUEST SENSE tells the oldest failure the host has not been told, for every
\* list of more than one entry, through resets, recoveries that let failures pile
\* up, and the loss of a list that is full; and as long as no recovery has
\* interfered it tells why the last command failed.
THEOREM SenseIsFresh ==
  ASSUME Depth > 1
  PROVE  Spec => SenseFresh
<1>1. Init => SInv /\ QInv
  <2>1. Init => /\ phase = "idle" /\ owed = "none" /\ bot_status = "NORMAL"
                /\ head = 0 /\ tail = 0 /\ untold = <<>>
    BY DEF Init
  <2>2. Init => SInv
    BY <2>1 DEF SInv, Live, Failing, Codes
  <2>3. 0 \in 0 .. Depth - 1 /\ 0 \in 0 .. Depth /\ 0 < Depth
    BY Numbers
  <2>4. (0 + 0) % Depth = 0
    BY <2>3, RingPosition
  <2>5. Init => QInv
    BY <2>1, <2>3, <2>4 DEF QInv
  <2> QED BY <2>2, <2>5
<1>2. IInv /\ SInv /\ [Next]_vars => SInv'
  <2>1. SUFFICES ASSUME IInv, SInv, [Next]_vars PROVE SInv'
    OBVIOUS
  <2>2. CASE Next
    BY <2>1, <2>2, CommandKeepsSense, ReadsKeepSense, SendKeepsSense,
       ClearsKeepSense, ResetsKeepSense DEF Next, Host
  <2>3. CASE UNCHANGED vars
    BY <2>1, <2>3, Zenon DEF vars, statusVars, senseVars, SInv, Steady, Failing,
       Live, Holds, Stall, Csw
  <2> QED BY <2>1, <2>2, <2>3
<1>3. IInv /\ QInv /\ [Next]_vars => QInv'
  BY QueueNext
<1>4. IInv /\ SInv /\ QInv /\ [Next]_vars =>
        [phase = "idle" /\ cbw'.op = "sense" /\ in'.kind = "reply" =>
           /\ in'.val = Oldest
           /\ owed \in Codes => in'.val = owed]_vars
  BY ToldOldest
<1> QED BY <1>1, <1>2, <1>3, <1>4, Invariance, PTL DEF Spec, SenseFresh

=============================================================================
