--------------------------- MODULE MscBotTransfers ---------------------------
(***************************************************************************)
(* What MscBot's transfers access and what its statuses say, for every     *)
(* block size and disk, as long as no range the host names wraps the word  *)
(* its address check adds up in.  The invariant PInv says how much of a    *)
(* transfer is left and that the machine's byte address stands for it.     *)
(***************************************************************************)
EXTENDS MscBotProofs, SequenceTheorems

\* Whole blocks and their bytes.
LEMMA Multiples == ASSUME NEW m \in Nat PROVE m * Size \in Nat /\ (m * Size) \div Size = m
<1>1. Size \in Nat /\ Size > 0
  BY Numbers
<1>2. m * Size \in Nat
  BY <1>1
<1> QED BY <1>1, <1>2

LEMMA Successor ==
  ASSUME NEW m \in Nat
  PROVE  /\ (m + 1) * Size = m * Size + Size
         /\ m > 0 => (m - 1) * Size = m * Size - Size /\ m * Size >= Size
<1>1. Size \in Nat /\ Size > 0
  BY Numbers
<1>2. m > 0 => m * Size >= Size
  BY <1>1
<1> QED BY <1>1, <1>2

LEMMA Fits ==
  ASSUME NEW m \in Nat, m < Blocks
  PROVE  (m * Size) % Word = m * Size
<1>1. Size \in Nat /\ Size > 0 /\ Word \in Nat /\ Blocks \in Nat /\ Blocks * Size <= Word
  BY SizeAssumption
<1>2. (m + 1) * Size <= Blocks * Size
  BY <1>1
<1>3. m * Size < Word /\ m * Size \in Nat
  BY <1>1, <1>2, Successor
<1> QED BY <1>1, <1>3

\* One block more.
LEMMA Joined ==
  ASSUME NEW s \in Seq(Nat), NEW t \in Seq(Nat)
  PROVE  /\ Len(s \o t) = Len(s) + Len(t)
         /\ \A i \in 1 .. Len(s) + Len(t) :
              (s \o t)[i] = IF i <= Len(s) THEN s[i] ELSE t[i - Len(s)]
<1>1. Len(s \o t) = Len(s) + Len(t)
  OBVIOUS
<1>2. \A i \in 1 .. Len(s) + Len(t) :
        (s \o t)[i] = IF i <= Len(s) THEN s[i] ELSE t[i - Len(s)]
  OBVIOUS
<1> QED BY <1>1, <1>2

LEMMA OneMore ==
  ASSUME NEW s \in Seq(Nat), NEW t \in Seq(Nat), NEW lba \in Nat,
         Len(t) = 1, t[1] = lba + Len(s),
         \A i \in 1 .. Len(s) : s[i] = lba + i - 1
  PROVE  /\ Len(s \o t) = Len(s) + 1
         /\ \A i \in 1 .. Len(s) + 1 : (s \o t)[i] = lba + i - 1
<1> DEFINE n == Len(s)
           u == s \o t
           b == Len(t)
<1>1. /\ Len(u) = n + b
      /\ \A i \in 1 .. n + b : u[i] = IF i <= n THEN s[i] ELSE t[i - n]
  BY Joined
<1>2. b = 1 /\ n \in Nat /\ t[1] = lba + n /\ \A i \in 1 .. n : s[i] = lba + i - 1
  OBVIOUS
<1> HIDE DEF n, u, b
<1>3. ASSUME NEW i \in 1 .. n + 1
      PROVE  u[i] = lba + i - 1
  <2>1. CASE i <= n
    <3>1. i \in 1 .. n /\ i \in 1 .. n + b
      BY <1>2, <1>3, <2>1
    <3>2. u[i] = s[i]
      BY <1>1, <2>1, <3>1
    <3>3. s[i] = lba + i - 1
      BY <1>2, <3>1
    <3> QED BY <3>2, <3>3, Zenon
  <2>2. CASE i = n + 1
    <3>1. u[i] = t[1]
      <4>1. i \in 1 .. n + b /\ ~(i <= n) /\ i - n = 1
        BY <1>2, <2>2
      <4> QED BY <1>1, <4>1
    <3> QED BY <1>2, <2>2, <3>1
  <2> QED BY <1>2, <2>1, <2>2
<1>4. Len(u) = n + 1
  BY <1>1, <1>2
<1> QED BY <1>3, <1>4 DEF n, u

\* The blocks before have been accessed, n of the nbr at lba are left, and addr
\* is where they are.
At(before, addr, n, lba, nbr) ==
  /\ Len(before) + n = nbr /\ lba + nbr <= Blocks
  /\ n > 0 => blk_size = Size /\ addr = (lba + Len(before)) * Size
  /\ \A i \in 1 .. Len(before) : before[i] = lba + i - 1

\* A block is accessed, or nothing when nothing is left.
Moves(before, addr, n) ==
  /\ media' = before \o Touched(addr, Smaller(n * Size, Size))
  /\ blk_addr' = (addr + Smaller(n * Size, Size)) % Word
  /\ blk_len' = n * Size - Smaller(n * Size, Size)

Moved(before, n, lba, nbr) ==
  /\ \E k \in Nat :
       /\ blk_len' = k * Size /\ Len(media') + k = nbr
       /\ k > 0 => blk_size' = Size /\ blk_addr' = (lba + Len(media')) * Size
  /\ \A i \in 1 .. Len(media') : media'[i] = lba + i - 1
  /\ media' \in Seq(Nat)
  /\ Len(media') * Size = Len(before) * Size + Smaller(n * Size, Size)

LEMMA PartStep ==
  ASSUME DiskOK, NEW before \in Seq(Nat), NEW addr \in 0 .. Word - 1, NEW n \in Nat,
         NEW lba \in Nat, NEW nbr \in Nat, At(before, addr, n, lba, nbr),
         Moves(before, addr, n), UNCHANGED diskVars
  PROVE  Moved(before, n, lba, nbr)
<1>0. /\ Len(before) + n = nbr /\ lba + nbr <= Blocks
      /\ n > 0 => blk_size = Size /\ addr = (lba + Len(before)) * Size
      /\ \A i \in 1 .. Len(before) : before[i] = lba + i - 1
      /\ media' = before \o Touched(addr, Smaller(n * Size, Size))
      /\ blk_addr' = (addr + Smaller(n * Size, Size)) % Word
      /\ blk_len' = n * Size - Smaller(n * Size, Size)
  BY DEF At, Moves
<1>1. Size \in Nat /\ Size > 0 /\ Blocks \in Nat /\ addr \in Nat
  BY Numbers
<1>2. CASE n = 0
  <2>1. n * Size = 0 /\ Smaller(n * Size, Size) = 0
    BY <1>1, <1>2 DEF Smaller
  <2>2. Block(0) = 0
    BY <1>1 DEF Block, DiskOK
  <2>3. Touched(addr, 0) = <<>>
    <3>1. Touched(addr, 0) \in Seq(Nat) /\ Len(Touched(addr, 0)) = 0
      BY <1>1, <2>2, TouchedType
    <3> QED BY <3>1
  <2>4. media' = before
    BY <1>0, <2>1, <2>3
  <2>5. 0 \in Nat /\ 0 * Size = 0 /\ blk_len' = 0
    BY <1>0, <1>1, <2>1
  <2>6. Len(media') + 0 = nbr
    BY <1>0, <1>2, <2>4
  <2>7. Len(before) * Size + 0 = Len(before) * Size
    BY <1>1
  <2>8. \E k \in Nat :
          /\ blk_len' = k * Size /\ Len(media') + k = nbr
          /\ k > 0 => blk_size' = Size /\ blk_addr' = (lba + Len(media')) * Size
    <3>1. ~(0 > 0)
      OBVIOUS
    <3> QED BY <2>5, <2>6, <3>1
  <2>9. \A i \in 1 .. Len(media') : media'[i] = lba + i - 1
    BY <1>0, <2>4
  <2>10. Len(media') * Size = Len(before) * Size + Smaller(n * Size, Size)
    BY <2>1, <2>4, <2>7
  <2> QED BY <2>4, <2>8, <2>9, <2>10 DEF Moved
<1>3. CASE n > 0
  <2> DEFINE m == Len(before)
             t == Touched(addr, Size)
  <2>1. n * Size >= Size /\ (n - 1) * Size = n * Size - Size /\ n * Size \in Nat
    BY <1>1, <1>3, Successor, Multiples
  <2>2. Smaller(n * Size, Size) = Size
    BY <1>1, <2>1 DEF Smaller
  <2>3. blk_size = Size /\ addr = (lba + m) * Size /\ m \in Nat
    BY <1>0, <1>3
  <2>4. Block(addr) = lba + m /\ Block(Size) = 1
    <3>1. lba + m \in Nat /\ 1 * Size = Size
      BY <1>1, <2>3
    <3>2. ((lba + m) * Size) \div Size = lba + m /\ (1 * Size) \div Size = 1
      BY <3>1, Multiples
    <3> QED BY <1>1, <2>3, <3>1, <3>2 DEF Block
  <2>5. t \in Seq(Nat) /\ Len(t) = 1 /\ t[1] = lba + m
    <3>1. /\ t \in Seq(Nat) /\ Len(t) = Block(Size)
          /\ \A i \in 1 .. Block(Size) : t[i] = Block(addr) + i - 1
      BY <1>1, TouchedType
    <3> QED BY <2>3, <2>4, <3>1
  <2>6. media' = before \o t
    BY <1>0, <2>2
  <2> HIDE DEF t
  <2>7. /\ Len(before \o t) = m + 1
        /\ \A i \in 1 .. m + 1 : (before \o t)[i] = lba + i - 1
    BY <1>0, <2>5, OneMore
  <2>11. Len(media') = m + 1 /\ \A i \in 1 .. Len(media') : media'[i] = lba + i - 1
    BY <2>6, <2>7
  <2>12. Len(media') = m + 1 /\ m \in Nat /\ m + n = nbr
    BY <1>0, <2>11
  <2> HIDE DEF m
  <2>8. /\ n - 1 \in Nat /\ blk_len' = (n - 1) * Size
        /\ Len(media') + (n - 1) = nbr
    <3>1. n - 1 \in Nat /\ m + 1 + (n - 1) = nbr
      BY <1>3, <2>12
    <3>2. blk_len' = n * Size - Size
      BY <1>0, <2>2
    <3> QED BY <2>1, <2>12, <3>1, <3>2
  <2>9. ASSUME n - 1 > 0
        PROVE  blk_size' = Size /\ blk_addr' = (lba + Len(media')) * Size
    <3>1. lba + m + 1 \in Nat /\ lba + m + 1 < Blocks
      BY <1>0, <1>1, <1>3, <2>12, <2>9
    <3>2. (lba + m + 1) * Size = (lba + m) * Size + Size
      BY <2>12, Successor
    <3>3. ((lba + m + 1) * Size) % Word = (lba + m + 1) * Size
      BY <3>1, Fits
    <3>4. blk_addr' = (addr + Size) % Word
      BY <1>0, <2>2
    <3>5. blk_addr' = (lba + m + 1) * Size
      BY <2>3, <3>2, <3>3, <3>4
    <3>6. lba + Len(media') = lba + m + 1
      <4>1. Len(media') = m + 1
        BY <2>12
      <4>2. lba + (m + 1) = lba + m + 1
        BY <2>12
      <4> QED BY <4>1, <4>2
    <3> QED BY <2>3, <3>5, <3>6 DEF diskVars
  <2>10. Len(media') * Size = m * Size + Size
    BY <2>12, Successor
  <2>13. media' \in Seq(Nat)
    BY <2>5, <2>6
  <2> QED BY <2>2, <2>8, <2>9, <2>10, <2>11, <2>13 DEF m, Moved
<1> QED BY <1>2, <1>3

-----------------------------------------------------------------------------
\* A step that accesses no block, in a command that goes on.
LEMMA KeepStep ==
  ASSUME PInv, UNCHANGED <<cbw, media, diskVars>>, cbw.op = "write" => moved' = moved,
         (in'.kind # "blocks" /\ bot_state' # "DATA_OUT") \/ ~Live',
         Live' /\ in' = Csw /\ status' = "PASSED" /\ cbw.op \in {"read", "write"} =>
           residue' = 0 /\ Len(media) = cbw.nbr
  PROVE  PInv'
<1>1. Placed'
  BY DEF PInv, Placed, diskVars
<1>2. Inside' /\ MediaInOrder'
  BY DEF PInv, Inside, MediaInOrder
<1> QED BY <1>1, <1>2 DEF PInv

\* A new command that accesses no block, at once or ever.
LEMMA FreshStep ==
  ASSUME NEW c \in Commands, Send(c), media' = <<>>, blk_size' = 0 <=> blk_nbr' = 0,
         in'.kind # "blocks", bot_state' # "DATA_OUT",
         in' = Csw => c.op \notin {"read", "write"}
  PROVE  PInv'
<1>1. cbw' = c /\ moved' = 0
  BY DEF Send
<1>2. Placed'
  BY <1>1 DEF Placed
<1>3. Inside'
  BY DEF Inside
<1>4. MediaInOrder'
  <2>1. 0 * Size = 0
    BY Numbers
  <2> QED BY <1>1, <2>1 DEF MediaInOrder
<1> QED BY <1>2, <1>3, <1>4 DEF PInv

\* Every command that is refused is one.
LEMMA RefusedFresh ==
  ASSUME PInv, NEW c \in Commands, Send(c), NEW code \in Codes, Refuse(c, code),
         UNCHANGED diskVars, bot_state' \in {"IDLE", "DATA_IN"}
  PROVE  PInv'
<1>1. in' = Stall /\ media' = <<>>
  BY DEF Refuse, Abort
<1>2. in'.kind # "blocks" /\ in' # Csw
  BY <1>1 DEF Stall, Csw
<1>3. blk_size' = 0 <=> blk_nbr' = 0
  BY DEF PInv, Placed, diskVars
<1> QED BY <1>1, <1>2, <1>3, FreshStep

LEMMA AnsweredFresh ==
  ASSUME PInv, NEW c \in Commands, Send(c), NEW n \in Nat, NEW v, Answer(c, n, v),
         blk_size' = 0 <=> blk_nbr' = 0, c.op \notin {"read", "write"}
  PROVE  PInv'
<1>1. media' = <<>>
  BY DEF Answer
<1>2. in'.kind \in {"reply", "csw"} /\ bot_state' # "DATA_OUT"
  <2>1. CASE n > 0
    BY <2>1 DEF Answer, SendData
  <2>2. CASE ~(n > 0)
    BY <2>2 DEF Answer, SendCSW, Csw
  <2> QED BY <2>1, <2>2
<1> QED BY <1>1, <1>2, FreshStep

\* A range that passes the check, and its sum as it is.
LEMMA RangeFits ==
  ASSUME Straight, DiskOK, NEW c \in Commands, c.op \in {"read", "write"},
         InRange(c.lba, c.nbr)
  PROVE  c.lba + c.nbr <= blk_nbr /\ c.lba + c.nbr <= Blocks
<1>1. c.lba + c.nbr \in Nat /\ c.lba + c.nbr < Word
  BY CommandType DEF Straight
<1>2. (c.lba + c.nbr) % Word = c.lba + c.nbr
  BY <1>1, Numbers
<1>3. blk_nbr \in {0, Blocks} /\ Blocks \in Nat
  BY Numbers DEF DiskOK
<1> QED BY <1>1, <1>2, <1>3 DEF InRange

\* The bytes of a command that fits, and where they begin.
LEMMA RangeBytes ==
  ASSUME Straight, DiskOK, Placed, NEW c \in Commands, c.op \in {"read", "write"},
         InRange(c.lba, c.nbr)
  PROVE  /\ c.nbr * blk_size = c.nbr * Size
         /\ c.nbr > 0 => /\ blk_size = Size
                         /\ (c.lba * blk_size) % Word = (c.lba + 0) * Size
<1>1. c.lba \in Nat /\ c.nbr \in Nat /\ Size \in Nat /\ Size > 0 /\ Blocks \in Nat
  BY CommandType, Numbers
<1>2. c.lba + c.nbr <= blk_nbr /\ c.lba + c.nbr <= Blocks
  BY RangeFits
<1>3. CASE c.nbr = 0
  <2>1. blk_size \in Nat
    BY Numbers DEF DiskOK
  <2>2. 0 * blk_size = 0 /\ 0 * Size = 0
    BY <1>1, <2>1
  <2> QED BY <1>1, <1>3, <2>2
<1>4. CASE c.nbr > 0
  <2>1. blk_nbr # 0 /\ c.lba < Blocks
    <3>1. blk_nbr \in Nat
      BY <1>1 DEF DiskOK
    <3> QED BY <1>1, <1>2, <1>4, <3>1
  <2>2. blk_size = Size
    BY <2>1 DEF Placed, DiskOK
  <2>3. (c.lba * Size) % Word = c.lba * Size /\ c.lba + 0 = c.lba
    <3>1. (c.lba * Size) % Word = c.lba * Size
      BY <1>1, <2>1, Fits
    <3>2. c.lba + 0 = c.lba
      BY <1>1
    <3> QED BY <3>1, <3>2
  <2> QED BY <2>2, <2>3
<1> QED BY <1>1, <1>3, <1>4

LEMMA ReadPlaces ==
  ASSUME Straight, IInv, PInv, NEW c \in Commands, Read10(c)
  PROVE  PInv'
<1> DEFINE addr == (c.lba * blk_size) % Word
           len  == c.nbr * blk_size
           none == <<>>
<1>1. /\ Send(c) /\ c.op = "read" /\ UNCHANGED diskVars /\ bot_state = "IDLE"
      /\ DiskOK /\ Placed
      /\ {"INVALID_CDB", "ADDRESS_OUT_OF_RANGE"} \subseteq Codes
  BY DEF Read10, Send, IInv, TypeOK, PInv, Codes
<1>2. CASE Refuse(c, "INVALID_CDB") /\ bot_state' \in {"IDLE", "DATA_IN"}
  BY <1>1, <1>2, RefusedFresh
<1>3. CASE Refuse(c, "ADDRESS_OUT_OF_RANGE") /\ bot_state' \in {"IDLE", "DATA_IN"}
  BY <1>1, <1>3, RefusedFresh
<1>4. CASE InRange(c.lba, c.nbr) /\ c.len = len /\ ProcessRead(<<>>, addr, len, c.len)
  <2>1. /\ c.lba \in Nat /\ c.nbr \in Nat /\ c.len \in Nat /\ Size \in Nat
        /\ addr \in 0 .. Word - 1
    BY <1>1, CommandType, Numbers, Bytes
  <2>2. c.lba + c.nbr <= Blocks
    BY <1>1, <1>4, RangeFits
  <2>3. /\ len = c.nbr * Size
        /\ c.nbr > 0 => blk_size = Size /\ addr = (c.lba + 0) * Size
    BY <1>1, <1>4, RangeBytes
  <2> HIDE DEF addr, len
  <2>4. /\ Moves(none, addr, c.nbr)
        /\ in'.kind = "blocks" /\ bot_state' \in {"DATA_IN", "LAST_DATA_IN"}
    BY <1>4, <2>3 DEF ProcessRead, Moves
  <2>5. none \in Seq(Nat) /\ At(none, addr, c.nbr, c.lba, c.nbr)
    <3>1. none \in Seq(Nat) /\ Len(none) = 0
      OBVIOUS
    <3> HIDE DEF none
    <3> QED BY <2>1, <2>2, <2>3, <3>1 DEF At
  <2> HIDE DEF none
  <2>6. Moved(none, c.nbr, c.lba, c.nbr)
    BY <1>1, <2>1, <2>4, <2>5, PartStep
  <2>7. cbw' = c
    BY <1>1 DEF Send
  <2>8. blk_size' = 0 <=> blk_nbr' = 0
    BY <1>1 DEF Placed, diskVars
  <2>9. in' # Csw
    BY <2>4 DEF Csw
  <2>10. Placed'
    BY <2>2, <2>6, <2>7, <2>8, <2>9 DEF Placed, Rest, Moved
  <2>11. Len(media') <= c.nbr
    <3>1. PICK k \in Nat : Len(media') + k = c.nbr
      BY <2>6 DEF Moved
    <3>2. Len(media') \in Nat
      BY <2>6 DEF Moved
    <3> QED BY <2>1, <3>1, <3>2
  <2>12. Inside'
    BY <2>2, <2>7, <2>11 DEF Inside
  <2>13. MediaInOrder'
    BY <1>1, <2>6, <2>7 DEF MediaInOrder, Moved
  <2> QED BY <2>10, <2>12, <2>13 DEF PInv
<1> QED BY <1>1, <1>2, <1>3, <1>4 DEF Read10

LEMMA WritePlaces ==
  ASSUME Straight, IInv, PInv, NEW c \in Commands, Write10(c)
  PROVE  PInv'
<1> DEFINE addr == (c.lba * blk_size) % Word
           len  == c.nbr * blk_size
<1>1. /\ Send(c) /\ c.op = "write" /\ UNCHANGED diskVars /\ bot_state = "IDLE"
      /\ DiskOK /\ Placed
      /\ {"INVALID_CDB", "ADDRESS_OUT_OF_RANGE"} \subseteq Codes
  BY DEF Write10, Send, IInv, TypeOK, PInv, Codes
<1>2. CASE Refuse(c, "INVALID_CDB") /\ bot_state' \in {"IDLE", "DATA_IN"}
  BY <1>1, <1>2, RefusedFresh
<1>3. CASE Refuse(c, "ADDRESS_OUT_OF_RANGE") /\ bot_state' \in {"IDLE", "DATA_IN"}
  BY <1>1, <1>3, RefusedFresh
<1>4. CASE /\ InRange(c.lba, c.nbr) /\ c.len = len
           /\ blk_addr' = addr /\ blk_len' = len /\ media' = <<>> /\ in' = in
  <2>1. c.lba \in Nat /\ c.nbr \in Nat
    BY CommandType
  <2>2. c.lba + c.nbr <= Blocks
    BY <1>1, <1>4, RangeFits
  <2>3. /\ len = c.nbr * Size
        /\ c.nbr > 0 => blk_size = Size /\ addr = (c.lba + 0) * Size
    BY <1>1, <1>4, RangeBytes
  <2> HIDE DEF addr, len
  <2>4. cbw' = c /\ moved' = 0 /\ phase = "idle"
    BY <1>1 DEF Send
  <2>5. in' # Csw
    BY <1>4, <2>4 DEF IInv, Ready, Nak, Csw
  <2>6. Rest(c.nbr)'
    <3>1. Len(media') = 0 /\ 0 + c.nbr = c.nbr
      BY <1>4, <2>1
    <3>2. blk_size' = blk_size
      BY <1>1 DEF diskVars
    <3> QED BY <1>4, <2>2, <2>3, <2>4, <3>1, <3>2 DEF Rest
  <2>7. blk_size' = 0 <=> blk_nbr' = 0
    BY <1>1 DEF Placed, diskVars
  <2>8. Placed'
    BY <2>1, <2>5, <2>6, <2>7 DEF Placed
  <2>9. Inside'
    BY <1>4 DEF Inside
  <2>10. MediaInOrder'
    <3>1. 0 * Size = 0
      BY Numbers
    <3> QED BY <1>4, <2>4, <3>1 DEF MediaInOrder
  <2> QED BY <2>8, <2>9, <2>10 DEF PInv
<1> QED BY <1>1, <1>2, <1>3, <1>4 DEF Write10

\* The commands that touch no block.
LEMMA OtherPlaces ==
  ASSUME IInv, PInv, NEW c \in Commands,
         \/ Invalid(c) \/ Unsupported(c) \/ TestUnitReady(c) \/ StartStopUnit(c)
         \/ Inquiry(c) \/ ModeSense(c) \/ RequestSense(c) \/ ReadCapacity(c)
         \/ Verify10(c)
  PROVE  PInv'
<1>1. /\ "INVALID_CDB" \in Codes /\ "ADDRESS_OUT_OF_RANGE" \in Codes
      /\ "INVALID_FIELD" \in Codes
  BY DEF Codes
<1>2. /\ Reply \in Nat /\ 0 \in Nat /\ Smaller(c.alloc, Reply) \in Nat
  BY CommandType, Numbers, SmallerType
<1>3. blk_size = 0 <=> blk_nbr = 0
  BY DEF PInv, Placed
<1>4. ASSUME Send(c), NEW code \in Codes, Refuse(c, code), bot_state' = bot_state,
             UNCHANGED diskVars
      PROVE  PInv'
  <2>1. bot_state' \in {"IDLE", "DATA_IN"}
    BY <1>4 DEF Send
  <2> QED BY <1>4, <2>1, RefusedFresh
<1>5. ASSUME Send(c), NEW n \in Nat, NEW v, Answer(c, n, v), UNCHANGED diskVars,
             c.op \notin {"read", "write"}
      PROVE  PInv'
  <2>1. blk_size' = 0 <=> blk_nbr' = 0
    BY <1>3, <1>5 DEF diskVars
  <2> QED BY <1>5, <2>1, AnsweredFresh
<1>6. CASE Invalid(c)
  <2>1. /\ Send(c) /\ in' = Stall /\ media' = <<>> /\ bot_state' = bot_state
        /\ UNCHANGED diskVars
    BY <1>6 DEF Invalid, Abort
  <2>2. /\ in'.kind # "blocks" /\ in' # Csw /\ bot_state' # "DATA_OUT"
        /\ blk_size' = 0 <=> blk_nbr' = 0
    BY <1>3, <2>1 DEF Stall, Csw, Send, diskVars
  <2> QED BY <2>1, <2>2, FreshStep
<1>7. CASE Unsupported(c)
  BY <1>1, <1>4, <1>7 DEF Unsupported
<1>8. CASE TestUnitReady(c)
  BY <1>1, <1>2, <1>4, <1>5, <1>8 DEF TestUnitReady
<1>9. CASE StartStopUnit(c) \/ Inquiry(c) \/ ModeSense(c) \/ RequestSense(c)
  BY <1>2, <1>5, <1>9 DEF StartStopUnit, Inquiry, ModeSense, RequestSense
<1>10. CASE ReadCapacity(c)
  <2>1. /\ Send(c) /\ c.op = "capacity" /\ Answer(c, Reply, "none")
        /\ blk_size' = Size /\ blk_nbr' = Blocks
    BY <1>10 DEF ReadCapacity
  <2>2. blk_size' # 0 /\ blk_nbr' # 0
    BY <2>1, Numbers
  <2> QED BY <1>2, <2>1, <2>2, AnsweredFresh
<1>11. CASE Verify10(c)
  BY <1>1, <1>2, <1>4, <1>5, <1>11 DEF Verify10
<1> QED BY <1>6, <1>7, <1>8, <1>9, <1>10, <1>11

\* A part of the command under way.
LEMMA PartPlaces ==
  ASSUME IInv, PInv, Live, NEW n \in Nat, Rest(n), Moves(media, blk_addr, n),
         UNCHANGED <<cbw, diskVars>>,
         cbw.op = "write" => moved' = moved + Smaller(n * Size, Size),
         in' = Csw => residue' = 0 /\ blk_len' = 0
  PROVE  PInv'
<1>1. /\ cbw.lba \in Nat /\ cbw.nbr \in Nat /\ DiskOK /\ media \in Seq(Nat)
      /\ blk_addr \in 0 .. Word - 1
  BY CommandType DEF IInv, TypeOK, MachineOK, DiskOK
<1>2. At(media, blk_addr, n, cbw.lba, cbw.nbr)
  BY DEF Rest, At, PInv, MediaInOrder
<1>3. Moved(media, n, cbw.lba, cbw.nbr)
  BY <1>1, <1>2, PartStep
<1>4. PICK k \in Nat :
        /\ blk_len' = k * Size /\ Len(media') + k = cbw.nbr
        /\ k > 0 => blk_size' = Size /\ blk_addr' = (cbw.lba + Len(media')) * Size
  BY <1>3 DEF Moved
<1>5. cbw' = cbw /\ cbw.lba + cbw.nbr <= Blocks /\ media' \in Seq(Nat)
  BY <1>3 DEF Rest, Moved
<1>6. Rest(k)'
  BY <1>4, <1>5 DEF Rest
<1>7. Len(media') \in Nat
  BY <1>5
<1>8. in' = Csw => Len(media') = cbw.nbr
  <2>1. k > 0 => k * Size >= Size /\ Size > 0
    BY Successor, Numbers
  <2>2. in' = Csw => k * Size = 0
    BY <1>4
  <2>3. k * Size \in Nat /\ Size \in Nat
    BY Multiples, Numbers
  <2>4. in' = Csw => k = 0
    BY <2>1, <2>2, <2>3
  <2> QED BY <1>4, <1>7, <2>4
<1>9. blk_size' = 0 <=> blk_nbr' = 0
  BY DEF PInv, Placed, diskVars
<1>10. Placed'
  BY <1>5, <1>6, <1>8, <1>9 DEF Placed
<1>11. Len(media') <= cbw.nbr
  BY <1>1, <1>4, <1>7
<1>12. Inside'
  BY <1>5, <1>11 DEF Inside
<1>13. cbw.op = "write" => Len(media') * Size = moved'
  <2>1. cbw.op = "write" => Len(media) * Size = moved
    BY DEF PInv, MediaInOrder
  <2>2. Len(media') * Size = Len(media) * Size + Smaller(n * Size, Size)
    BY <1>3 DEF Moved
  <2> QED BY <2>1, <2>2
<1>14. MediaInOrder'
  BY <1>3, <1>5, <1>13 DEF Moved, MediaInOrder
<1> QED BY <1>10, <1>12, <1>14 DEF PInv

\* The host takes what the IN endpoint has.
LEMMA DataInPlaces ==
  ASSUME IInv, PInv, Live, in.kind \in {"blocks", "reply", "csw"}, DataIn,
         moved' = moved + in.len, UNCHANGED <<cbw, diskVars>>
  PROVE  PInv'
<1>1. /\ in.kind = "reply" =>
           bot_state = "SEND_DATA" /\ cbw.op \notin {"read", "write"}
      /\ in.kind = "blocks" =>
           /\ bot_state = IF blk_len = 0 THEN "LAST_DATA_IN" ELSE "DATA_IN"
           /\ cbw.op = "read" /\ residue = blk_len
      /\ in.kind = "csw" => in.len = 0 /\ bot_state = "IDLE"
      /\ in.kind \in {"reply", "blocks"} => cbw.op # "write" /\ bot_state # "DATA_OUT"
      /\ moved \in Nat
  BY DEF IInv, TypeOK, PortOK, Counted, Ready, Csw
<1>2. cbw.op = "write" => moved' = moved
  BY <1>1
<1>3. CASE bot_state = "DATA_IN"
  <2>1. in.kind = "blocks" /\ cbw.op = "read"
    BY <1>1, <1>3
  <2>2. PICK n \in Nat : Rest(n)
    BY <2>1 DEF PInv, Placed
  <2>3. ProcessRead(media, blk_addr, blk_len, residue) /\ blk_len = n * Size
    BY <1>3, <2>2 DEF DataIn, Rest
  <2>4. Moves(media, blk_addr, n) /\ in' # Csw
    BY <2>3 DEF ProcessRead, Moves, Csw
  <2> QED BY <2>1, <2>2, <2>4, PartPlaces
<1>4. CASE bot_state \in {"SEND_DATA", "LAST_DATA_IN"}
  <2>1. /\ in' = Csw /\ residue' = residue /\ bot_state' = "IDLE" /\ UNCHANGED media
    BY <1>4 DEF DataIn, SendCSW
  <2>2. in'.kind # "blocks"
    BY <2>1 DEF Csw
  <2>3. cbw.op \in {"read", "write"} => residue' = 0 /\ Len(media) = cbw.nbr
    <3> SUFFICES ASSUME cbw.op \in {"read", "write"}
                 PROVE  residue' = 0 /\ Len(media) = cbw.nbr
      OBVIOUS
    <3>1. in.kind = "blocks" /\ blk_len = 0 /\ residue = 0
      BY <1>1, <1>4
    <3>2. PICK n \in Nat : Rest(n)
      BY <3>1 DEF PInv, Placed
    <3>3. n * Size = 0 /\ Len(media) + n = cbw.nbr
      BY <3>1, <3>2 DEF Rest
    <3>4. n = 0
      BY <3>3, Successor, Numbers
    <3>5. Len(media) \in Nat
      BY DEF IInv, TypeOK, DiskOK
    <3> QED BY <2>1, <3>1, <3>3, <3>4, <3>5
  <2> QED BY <1>2, <2>1, <2>2, <2>3, KeepStep
<1>5. CASE bot_state \in {"IDLE", "DATA_OUT"}
  <2>1. in' = Nak /\ bot_state' = bot_state /\ UNCHANGED media
    BY <1>5 DEF DataIn
  <2>2. bot_state = "IDLE" /\ in' # Csw /\ in'.kind # "blocks"
    BY <1>1, <1>5, <2>1 DEF Nak, Csw
  <2> QED BY <1>2, <2>1, <2>2, KeepStep
<1> QED BY <1>3, <1>4, <1>5 DEF IInv, TypeOK, MachineOK

\* The host sends the next block.
LEMMA SendPlaces ==
  ASSUME IInv, PInv, SendBlock
  PROVE  PInv'
<1>1. /\ Live /\ bot_state = "DATA_OUT" /\ ProcessWrite
      /\ moved' = moved + Smaller(Size, cbw.len - moved)
      /\ UNCHANGED <<cbw, diskVars>>
  BY DEF SendBlock, Live
<1>2. PICK n \in Nat : Rest(n)
  BY <1>1 DEF PInv, Placed
<1>3. /\ blk_len = n * Size /\ in = Nak
      /\ residue = blk_len /\ residue = cbw.len - moved
  BY <1>1, <1>2 DEF IInv, Counted, Rest
<1> DEFINE len == Smaller(n * Size, Size)
<1>4. n * Size \in Nat /\ Size \in Nat
  BY Multiples, Numbers
<1>5. Smaller(Size, n * Size) = len
  BY <1>4 DEF Smaller
<1>6. moved' = moved + len
  BY <1>1, <1>3, <1>5
<1>7. Moves(media, blk_addr, n)
  BY <1>1, <1>3 DEF ProcessWrite, Moves
<1>8. in' = Csw => residue' = 0 /\ blk_len' = 0
  <2>1. /\ blk_len' = blk_len - len
        /\ IF blk_len = len THEN SendCSW("PASSED", residue - len) ELSE in' = in
    BY <1>1, <1>3 DEF ProcessWrite
  <2>2. len \in Nat
    BY <1>4, SmallerType
  <2> HIDE DEF len
  <2>3. CASE blk_len = len
    <3>1. residue' = residue - len
      BY <2>1, <2>3 DEF SendCSW
    <3>2. residue' = 0 /\ blk_len' = 0
      BY <1>3, <2>1, <2>2, <2>3, <3>1
    <3> QED BY <3>2
  <2>4. CASE blk_len # len
    BY <1>3, <2>1, <2>4 DEF Nak, Csw
  <2> QED BY <2>3, <2>4
<1> QED BY <1>1, <1>2, <1>6, <1>7, <1>8, PartPlaces

\* The recovery of an endpoint, of the machine or of the device.
LEMMA RecoveryPlaces ==
  ASSUME IInv, PInv,
         \/ ClearHaltIn \/ ClearHaltOut \/ ResetIn \/ ResetOut
         \/ SecondStall \/ TimeOut \/ Reconfigure
  PROVE  PInv'
<1>1. UNCHANGED <<cbw, media, diskVars>> /\ moved' = moved
  BY DEF ClearHaltIn, ClearHaltOut, ResetIn, ResetOut, SecondStall, TimeOut, BotReset,
         Reconfigure, hostOnly
<1>2. CASE ClearHaltIn \/ ClearHaltOut
  <2>1. in = Stall /\ Live
    BY <1>2 DEF ClearHaltIn, ClearHaltOut, Live, IInv, Ready
  <2>2. bot_state # "DATA_OUT"
    BY <2>1 DEF IInv, Counted, Stall, Nak
  <2>3. in' \in {Stall, Nak, Csw} /\ bot_state' # "DATA_OUT"
    BY <1>2, <2>1, <2>2
       DEF ClearHaltIn, ClearHaltOut, ClearIn, ClearOut, SendCSW
  <2>4. in' = Csw => status' = "FAILED"
    BY <1>2, <2>1 DEF ClearHaltIn, ClearHaltOut, ClearIn, ClearOut, SendCSW, Stall, Nak, Csw
  <2>5. in'.kind # "blocks"
    BY <2>3 DEF Stall, Nak, Csw
  <2> QED BY <1>1, <2>3, <2>4, <2>5, KeepStep
<1>3. CASE ResetIn \/ ResetOut \/ SecondStall \/ TimeOut \/ Reconfigure
  <2>1. ~Live'
    BY <1>3 DEF ResetIn, ResetOut, SecondStall, TimeOut, BotReset, Reconfigure, Live
  <2> QED BY <1>1, <2>1, KeepStep
<1> QED BY <1>2, <1>3

LEMMA PlacesNext ==
  ASSUME Straight, IInv, PInv, [Next]_vars
  PROVE  PInv'
<1>1. CASE \E c \in Commands : Command(c)
  BY <1>1, ReadPlaces, WritePlaces, OtherPlaces DEF Command
<1>2. ASSUME ReadData \/ ReadStray \/ ReadStatus
      PROVE  PInv'
  <2>1. /\ Live /\ in.kind \in {"blocks", "reply", "csw"} /\ DataIn
        /\ UNCHANGED <<cbw, diskVars>>
    BY <1>2 DEF ReadData, ReadStray, ReadStatus, Live, Csw
  <2>2. moved' = moved + in.len
    <3>1. CASE ReadData \/ ReadStray
      BY <3>1 DEF ReadData, ReadStray
    <3>2. CASE ReadStatus
      <4>1. in = Csw /\ moved' = moved /\ moved \in Nat
        BY <3>2 DEF ReadStatus, IInv, TypeOK, PortOK
      <4>2. in.len = 0
        BY <4>1 DEF Csw
      <4> QED BY <4>1, <4>2
    <3> QED BY <1>2, <3>1, <3>2
  <2> QED BY <2>1, <2>2, DataInPlaces
<1>3. CASE Host
  BY <1>2, <1>3, SendPlaces, RecoveryPlaces DEF Host
<1>4. CASE TimeOut \/ Reconfigure
  BY <1>4, RecoveryPlaces
<1>5. CASE UNCHANGED vars
  BY <1>5 DEF vars, PInv, Placed, Inside, MediaInOrder, Rest, Live, diskVars, blkVars,
              statusVars
<1> QED BY <1>1, <1>3, <1>4, <1>5 DEF Next

LEMMA PlacesInit == Init => PInv
<1> SUFFICES ASSUME Init PROVE PInv
  OBVIOUS
<1>1. Placed
  BY DEF Init, Placed, Live
<1>2. Inside
  BY DEF Init, Inside
<1>3. 0 * Size = 0
  BY Numbers
<1>4. MediaInOrder
  BY <1>3 DEF Init, MediaInOrder
<1> QED BY <1>1, <1>2, <1>4 DEF PInv

-----------------------------------------------------------------------------
\* Where a transfer is: what is left of it, and where.
THEOREM Places == ASSUME Straight PROVE Spec => []PInv
<1>1. Init => PInv
  BY PlacesInit
<1>2. IInv /\ PInv /\ [Next]_vars => PInv'
  BY PlacesNext
<1> QED BY <1>1, <1>2, Invariance, PTL DEF Spec

\* The blocks accessed are those of the command, in order, each once.
THEOREM OrderedMedia == ASSUME Straight PROVE Spec => []MediaInOrder
<1>1. PInv => MediaInOrder
  BY DEF PInv
<1> QED BY <1>1, Places, PTL

\* No block beyond the end of the disk is accessed.
THEOREM StaysWithin == ASSUME Straight PROVE Spec => []WithinDisk
<1>1. ASSUME IInv, PInv
      PROVE  WithinDisk
  <2>1. cbw.lba \in Nat /\ cbw.nbr \in Nat /\ Len(media) \in Nat /\ Blocks \in Nat
    BY <1>1, CommandType, Numbers DEF IInv, TypeOK, MachineOK, DiskOK
  <2> SUFFICES ASSUME NEW i \in 1 .. Len(media) PROVE media[i] < Blocks
    BY DEF WithinDisk
  <2>2. media # <<>>
    OBVIOUS
  <2>3. media[i] = cbw.lba + i - 1
    BY <1>1 DEF PInv, MediaInOrder
  <2>4. cbw.lba + cbw.nbr <= Blocks /\ Len(media) <= cbw.nbr
    BY <1>1, <2>2 DEF PInv, Inside
  <2>5. cbw.lba + i - 1 < Blocks
    BY <2>1, <2>4
  <2> QED BY <2>3, <2>5
<1> QED BY <1>1, Invariance, Places, PTL

\* The residue of every status is what was not moved, and a read or a write that
\* passed has moved everything and accessed each of its blocks.
THEOREM TrueStatus == ASSUME Straight PROVE Spec => []StatusIsTrue
<1>1. ASSUME IInv, PInv
      PROVE  StatusIsTrue
  <2> SUFFICES ASSUME in = Csw, Live
               PROVE  /\ residue = cbw.len - moved
                      /\ status = "PASSED" /\ cbw.op \in {"read", "write"} =>
                           moved = cbw.len /\ Len(media) = cbw.nbr
    BY DEF StatusIsTrue, Live
  <2>1. in.kind = "csw"
    BY DEF Csw
  <2>2. residue = cbw.len - moved
    BY <1>1, <2>1 DEF IInv, Counted
  <2>3. ASSUME status = "PASSED", cbw.op \in {"read", "write"}
        PROVE  moved = cbw.len /\ Len(media) = cbw.nbr
    <3>1. residue = 0 /\ Len(media) = cbw.nbr
      BY <1>1, <2>3 DEF PInv, Placed
    <3>2. cbw.len \in Nat /\ moved \in Nat
      BY <1>1, CommandType DEF IInv, TypeOK, MachineOK, PortOK
    <3>3. moved = cbw.len
      BY <2>2, <3>1, <3>2
    <3> QED BY <3>1, <3>3
  <2> QED BY <2>2, <2>3
<1> QED BY <1>1, Invariance, Places, PTL

-----------------------------------------------------------------------------
(***************************************************************************)
(* The machine implements BlockDevice.                                     *)
(***************************************************************************)

\* Only reads and writes access blocks; what no device can do is not passed.
Judged ==
  /\ cbw.op \notin {"read", "write"} => media = <<>>
  /\ Live /\ cbw.op \in {"unsupported", "invalid"} =>
       in.kind # "reply" /\ (in = Csw => status = "FAILED")

\* A part of a transfer is one block, or nothing when nothing is left.
LEMMA OneBlock ==
  ASSUME NEW before \in Seq(Nat), NEW n \in Nat, NEW lba \in Nat, NEW nbr \in Nat,
         Moved(before, n, lba, nbr)
  PROVE  Len(media') = Len(before) \/ Len(media') = Len(before) + 1
<1> DEFINE m == Len(before)
           k == Len(media')
<1>1. m \in Nat /\ k \in Nat /\ k * Size = m * Size + Smaller(n * Size, Size)
  BY DEF Moved
<1> HIDE DEF m, k
<1>2. Size \in Nat /\ Size > 0
  BY Numbers
<1>3. Smaller(n * Size, Size) = 0 \/ Smaller(n * Size, Size) = Size
  <2>1. CASE n = 0
    <3>1. n * Size = 0
      BY <1>2, <2>1
    <3> QED BY <1>2, <3>1 DEF Smaller
  <2>2. CASE n # 0
    <3>1. n * Size >= Size /\ n * Size \in Nat
      BY <1>2, <2>2, Successor, Multiples
    <3> QED BY <1>2, <3>1 DEF Smaller
  <2> QED BY <2>1, <2>2
<1>4. CASE Smaller(n * Size, Size) = 0
  <2>1. k * Size = m * Size
    <3>1. m * Size \in Nat
      BY <1>1, Multiples
    <3> QED BY <1>1, <1>4, <3>1
  <2>2. k = m
    BY <1>1, <2>1, Multiples
  <2> QED BY <2>2 DEF k, m
<1>5. CASE Smaller(n * Size, Size) = Size
  <2>1. k * Size = (m + 1) * Size
    BY <1>1, <1>5, Successor
  <2>2. m + 1 \in Nat
    BY <1>1
  <2>3. k = m + 1
    BY <1>1, <2>1, <2>2, Multiples
  <2> QED BY <2>3 DEF k, m
<1> QED BY <1>3, <1>4, <1>5

\* What a part of a transfer accesses.
LEMMA PartAccess ==
  ASSUME IInv, PInv, NEW n \in Nat, Rest(n), Moves(media, blk_addr, n), UNCHANGED diskVars
  PROVE  media' = media \/ Len(media') = Len(media) + 1
<1>1. /\ cbw.lba \in Nat /\ cbw.nbr \in Nat /\ DiskOK /\ media \in Seq(Nat)
      /\ blk_addr \in 0 .. Word - 1
  BY CommandType DEF IInv, TypeOK, MachineOK, DiskOK
<1>2. At(media, blk_addr, n, cbw.lba, cbw.nbr)
  BY DEF Rest, At, PInv, MediaInOrder
<1>3. Moved(media, n, cbw.lba, cbw.nbr)
  BY <1>1, <1>2, PartStep
<1>4. Len(media') = Len(media) \/ Len(media') = Len(media) + 1
  BY <1>1, <1>3, OneBlock
<1>5. ASSUME Len(media') = Len(media) PROVE media' = media
  <2>1. /\ media' \in Seq(Nat) /\ \A i \in 1 .. Len(media') : media'[i] = cbw.lba + i - 1
        /\ \A i \in 1 .. Len(media) : media[i] = cbw.lba + i - 1
    BY <1>3 DEF Moved, PInv, MediaInOrder
  <2>2. \A i \in 1 .. Len(media) : media'[i] = media[i]
    BY <1>5, <2>1
  <2> QED BY <1>1, <1>5, <2>1, <2>2, SeqEqual
<1> QED BY <1>4, <1>5

\* A command is sent to an idle machine, and accesses a block at most.
LEMMA CommandAccess ==
  ASSUME Straight, IInv, PInv, NEW c \in Commands, Command(c)
  PROVE  /\ phase = "idle" /\ phase' \in {"data", "status"} /\ cbw' = c
         /\ Len(media') = 0 \/ Len(media') = 1
         /\ c.op \notin {"read", "write"} => media' = <<>>
         /\ c.op \in {"unsupported", "invalid"} => in' = Stall
<1>1. Send(c)
  BY DEF Command, Invalid, Unsupported, TestUnitReady, StartStopUnit, Inquiry, ModeSense,
         RequestSense, ReadCapacity, Read10, Write10, Verify10
<1>2. phase = "idle" /\ phase' \in {"data", "status"} /\ cbw' = c
  BY <1>1 DEF Send
<1>3. \A code : Refuse(c, code) => media' = <<>> /\ in' = Stall
  BY DEF Refuse, Abort
<1>4. \A n, v : Answer(c, n, v) => media' = <<>>
  BY DEF Answer
<1>5. Len(<<>>) = 0
  OBVIOUS
<1>6. CASE Read10(c)
  <2> DEFINE addr == (c.lba * blk_size) % Word
             len  == c.nbr * blk_size
             none == <<>>
  <2>1. \/ Refuse(c, "INVALID_CDB") \/ Refuse(c, "ADDRESS_OUT_OF_RANGE")
        \/ InRange(c.lba, c.nbr) /\ c.len = len /\ ProcessRead(none, addr, len, c.len)
    BY <1>6 DEF Read10
  <2>2. c.op = "read" /\ DiskOK /\ Placed /\ UNCHANGED diskVars
    BY <1>6 DEF Read10, IInv, TypeOK, PInv
  <2>3. CASE InRange(c.lba, c.nbr) /\ c.len = len /\ ProcessRead(none, addr, len, c.len)
    <3>1. c.lba \in Nat /\ c.nbr \in Nat /\ addr \in 0 .. Word - 1
      BY <2>2, CommandType, Numbers, Bytes
    <3>2. c.lba + c.nbr <= Blocks
      BY <2>2, <2>3, RangeFits
    <3>3. /\ len = c.nbr * Size
          /\ c.nbr > 0 => blk_size = Size /\ addr = (c.lba + 0) * Size
      BY <2>2, <2>3, RangeBytes
    <3>4. none \in Seq(Nat) /\ Len(none) = 0
      OBVIOUS
    <3> HIDE DEF addr, len, none
    <3>5. Moves(none, addr, c.nbr)
      BY <2>3, <3>3 DEF ProcessRead, Moves
    <3>6. At(none, addr, c.nbr, c.lba, c.nbr)
      BY <3>1, <3>2, <3>3, <3>4 DEF At
    <3>7. Moved(none, c.nbr, c.lba, c.nbr)
      BY <2>2, <3>1, <3>4, <3>5, <3>6, PartStep
    <3>8. Len(media') = 0 \/ Len(media') = 0 + 1
      BY <3>1, <3>4, <3>7, OneBlock
    <3> QED BY <1>2, <2>2, <3>8
  <2>4. CASE Refuse(c, "INVALID_CDB") \/ Refuse(c, "ADDRESS_OUT_OF_RANGE")
    BY <1>2, <1>3, <1>5, <2>2, <2>4
  <2> QED BY <2>1, <2>3, <2>4
<1>7. CASE Write10(c)
  <2>1. c.op = "write" /\ media' = <<>>
    BY <1>3, <1>7 DEF Write10
  <2> QED BY <1>2, <1>5, <2>1
<1>8. CASE Invalid(c)
  <2>1. media' = <<>> /\ in' = Stall
    BY <1>8 DEF Invalid, Abort
  <2> QED BY <1>2, <1>5, <2>1
<1>9. CASE Unsupported(c)
  <2>1. media' = <<>> /\ in' = Stall
    BY <1>3, <1>9 DEF Unsupported
  <2> QED BY <1>2, <1>5, <2>1
<1>10. CASE \/ TestUnitReady(c) \/ StartStopUnit(c) \/ Inquiry(c) \/ ModeSense(c)
            \/ RequestSense(c) \/ ReadCapacity(c) \/ Verify10(c)
  <2>1. media' = <<>>
    BY <1>3, <1>4, <1>10 DEF TestUnitReady, StartStopUnit, Inquiry, ModeSense, RequestSense,
                             ReadCapacity, Verify10
  <2>2. c.op \notin {"unsupported", "invalid"}
    BY <1>10 DEF TestUnitReady, StartStopUnit, Inquiry, ModeSense, RequestSense,
                 ReadCapacity, Verify10
  <2> QED BY <1>2, <1>5, <2>1, <2>2
<1> QED BY <1>6, <1>7, <1>8, <1>9, <1>10 DEF Command

\* What the host takes or sends.
LEMMA DataAccess ==
  ASSUME IInv, PInv, Live,
         \/ DataIn /\ in.kind \in {"blocks", "reply", "csw"} /\ UNCHANGED <<cbw, diskVars>>
         \/ SendBlock
  PROVE  /\ media' = media \/ Len(media') = Len(media) + 1
         /\ cbw.op \notin {"read", "write"} => media' = media
         /\ in.kind = "csw" => media' = media /\ in' = Nak
         /\ cbw.op \in {"unsupported", "invalid"} /\ in.kind # "reply" =>
              in' = Nak \/ in' = in
<1>1. /\ in.kind = "reply" => bot_state = "SEND_DATA" /\ cbw.op \notin {"read", "write"}
      /\ in.kind = "blocks" => bot_state \in {"LAST_DATA_IN", "DATA_IN"} /\ cbw.op = "read"
      /\ in.kind = "csw" => bot_state = "IDLE"
      /\ bot_state = "DATA_OUT" => cbw.op = "write"
  BY DEF IInv, Counted, Ready
<1>3. CASE DataIn /\ bot_state = "DATA_IN" /\ in.kind \in {"blocks", "reply", "csw"}
           /\ UNCHANGED <<cbw, diskVars>>
  <2>1. in.kind = "blocks" /\ cbw.op = "read"
    BY <1>1, <1>3
  <2>2. PICK n \in Nat : Rest(n)
    BY <2>1 DEF PInv, Placed
  <2>3. ProcessRead(media, blk_addr, blk_len, residue) /\ blk_len = n * Size
    BY <1>3, <2>2 DEF DataIn, Rest
  <2>4. Moves(media, blk_addr, n)
    BY <2>3 DEF ProcessRead, Moves
  <2>6. media' = media \/ Len(media') = Len(media) + 1
    BY <1>3, <2>2, <2>4, PartAccess
  <2> QED BY <2>1, <2>6
<1>4. CASE DataIn /\ bot_state # "DATA_IN" /\ in.kind \in {"blocks", "reply", "csw"}
  <2>1. media' = media
    BY <1>4 DEF DataIn
  <2>2. in.kind = "csw" => in' = Nak
    BY <1>1, <1>4 DEF DataIn
  <2> QED BY <1>1, <1>4, <2>1, <2>2
<1>5. CASE SendBlock
  <2>1. /\ bot_state = "DATA_OUT" /\ ProcessWrite /\ UNCHANGED diskVars
    BY <1>5 DEF SendBlock
  <2>2. PICK n \in Nat : Rest(n)
    BY <2>1 DEF PInv, Placed
  <2>3. Moves(media, blk_addr, n)
    BY <2>1, <2>2 DEF ProcessWrite, Moves, Rest
  <2>4. media' = media \/ Len(media') = Len(media) + 1
    BY <2>1, <2>2, <2>3, PartAccess
  <2> QED BY <1>1, <2>1, <2>4
<1> QED BY <1>3, <1>4, <1>5

LEMMA JudgedNext ==
  ASSUME Straight, IInv, PInv, Judged, [Next]_vars
  PROVE  Judged'
<1> USE DEF Judged
<1>1. ASSUME NEW c \in Commands, Command(c) PROVE Judged'
  <2>1. in' = Stall => in'.kind # "reply" /\ in' # Csw
    BY DEF Stall, Csw
  <2> QED BY <1>1, <2>1, CommandAccess
<1>2. in' = Nak => in'.kind # "reply" /\ in' # Csw
  BY DEF Nak, Csw
<1>3. ASSUME ReadData \/ ReadStray \/ ReadStatus PROVE Judged'
  <2>1. /\ Live /\ in.kind \in {"blocks", "reply", "csw"} /\ DataIn
        /\ UNCHANGED <<cbw, diskVars>>
    BY <1>3 DEF ReadData, ReadStray, ReadStatus, Live, Csw
  <2>2. CASE cbw.op \in {"unsupported", "invalid"}
    <3>1. in.kind # "blocks" /\ in.kind # "reply"
      BY <2>1, <2>2 DEF IInv, Counted
    <3>2. media' = media /\ in' = Nak
      BY <2>1, <3>1, DataAccess
    <3> QED BY <1>2, <2>1, <3>2
  <2>3. CASE cbw.op \notin {"unsupported", "invalid"}
    BY <2>1, <2>3, DataAccess
  <2> QED BY <2>2, <2>3
<1>4. ASSUME SendBlock PROVE Judged'
  <2>1. Live /\ cbw' = cbw /\ cbw.op = "write"
    BY <1>4 DEF SendBlock, Live, IInv, Counted
  <2> QED BY <2>1
<1>5. ASSUME ClearIn PROVE in' = Stall \/ in' = Nak \/ (in' = Csw /\ status' = "FAILED")
  BY <1>5 DEF ClearIn, SendCSW
<1>6. Stall.kind # "reply" /\ Stall # Csw /\ Csw.kind # "reply"
  BY DEF Stall, Csw
<1>7. ASSUME ClearHaltIn \/ ResetIn PROVE Judged'
  <2>1. cbw' = cbw /\ media' = media /\ ClearIn
    BY <1>7 DEF ClearHaltIn, ResetIn, hostOnly
  <2> QED BY <1>2, <1>5, <1>6, <2>1
<1>8. ASSUME ClearHaltOut PROVE Judged'
  <2>1. /\ cbw' = cbw /\ media' = media /\ in = Stall /\ in' = Stall
    BY <1>8 DEF ClearHaltOut, hostOnly, ClearOut, IInv, Ready
  <2> QED BY <1>6, <2>1
<1>9. ASSUME ResetOut \/ SecondStall \/ TimeOut \/ Reconfigure PROVE Judged'
  <2>1. cbw' = cbw /\ media' = media /\ ~Live'
    BY <1>9 DEF ResetOut, SecondStall, TimeOut, BotReset, Reconfigure, hostOnly, Live
  <2> QED BY <2>1
<1>10. CASE UNCHANGED vars
  BY <1>10 DEF vars, statusVars, Live
<1> QED BY <1>1, <1>3, <1>4, <1>7, <1>8, <1>9, <1>10 DEF Next, Host

-----------------------------------------------------------------------------
\* Where the host stands, as the abstract disk sees it.
LEMMA Stages ==
  ASSUME IInv
  PROVE  /\ Stage \in {"idle", "recovering", "decided", "busy"}
         /\ Stage = "idle" <=> phase = "idle"
         /\ Stage = "recovering" <=> phase \in {"reset", "resetOut"}
         /\ Stage = "decided" <=> phase \in {"status", "retry"} /\ in = Csw
         /\ Stage \in {"decided", "busy"} <=> Live
         /\ Stage # "decided" => Verdict = "none"
         /\ Stage = "decided" => Verdict = status
<1>1. phase \in {"idle", "data", "status", "retry", "reset", "resetOut"}
  BY DEF IInv, TypeOK, PortOK
<1>2. /\ phase = "idle" => Stage = "idle"
      /\ phase \in {"reset", "resetOut"} => Stage = "recovering"
      /\ phase \in {"status", "retry"} /\ in = Csw => Stage = "decided"
      /\ phase = "data" \/ (phase \in {"status", "retry"} /\ in # Csw) => Stage = "busy"
  BY DEF Stage
<1> QED BY <1>1, <1>2 DEF Verdict, Live

\* The same after a step.
LEMMA StagesAfter ==
  ASSUME IInv'
  PROVE  /\ Stage' = "idle" <=> phase' = "idle"
         /\ Stage' = "recovering" <=> phase' \in {"reset", "resetOut"}
         /\ Stage' = "decided" => in' = Csw /\ Verdict' = status'
         /\ Live' => Stage' \in {"decided", "busy"}
         /\ Stage' # "decided" => Verdict' = "none"
<1>1. phase' \in {"idle", "data", "status", "retry", "reset", "resetOut"}
  BY DEF IInv, TypeOK, PortOK
<1>2. /\ phase' = "idle" => Stage' = "idle"
      /\ phase' \in {"reset", "resetOut"} => Stage' = "recovering"
      /\ phase' \in {"status", "retry"} /\ in' = Csw => Stage' = "decided"
      /\ phase' = "data" \/ (phase' \in {"status", "retry"} /\ in' # Csw) => Stage' = "busy"
  BY DEF Stage
<1> QED BY <1>1, <1>2 DEF Verdict, Live

\* All of a command's blocks, in order, are what it wants.
LEMMA AllWanted ==
  ASSUME IInv', PInv', Judged', Live', in' = Csw, status' = "PASSED"
  PROVE  media' = Disk!Wanted(cbw') /\ ~Disk!Refused(cbw')
<1>1. /\ cbw'.nbr \in Nat /\ media' \in Seq(Nat)
      /\ \A i \in 1 .. Len(media') : media'[i] = cbw'.lba + i - 1
  BY CommandType DEF IInv, TypeOK, MachineOK, DiskOK, PInv, MediaInOrder
<1>2. ~Disk!Refused(cbw')
  BY DEF Judged, Disk!Refused
<1>3. CASE cbw'.op \in {"read", "write"}
  <2>1. Len(media') = cbw'.nbr
    BY <1>3 DEF PInv, Placed
  <2>2. media' = [i \in 1 .. cbw'.nbr |-> media'[i]]
    BY <1>1, <2>1
  <2>3. media' = [i \in 1 .. cbw'.nbr |-> cbw'.lba + i - 1]
    BY <1>1, <2>1, <2>2
  <2> QED BY <1>2, <1>3, <2>3 DEF Disk!Wanted
<1>4. CASE cbw'.op \notin {"read", "write"}
  BY <1>2, <1>4 DEF Judged, Disk!Wanted
<1> QED BY <1>3, <1>4

\* A step that leaves the host waiting for data or status is an outcome.
LEMMA SomeOutcome ==
  ASSUME IInv', PInv', Judged', Live', NEW c, cbw' = c
  PROVE  Disk!Outcome(c)
<1>1. /\ Stage' \in {"decided", "busy"}
      /\ Stage' # "decided" => Verdict' = "none"
      /\ Stage' = "decided" => Verdict' = status' /\ in' = Csw
  BY StagesAfter
<1>2. status' \in {"PASSED", "FAILED"}
  BY DEF IInv, TypeOK, MachineOK
<1>3. in' = Csw /\ status' = "PASSED" => media' = Disk!Wanted(c) /\ ~Disk!Refused(c)
  BY AllWanted
<1> QED BY <1>1, <1>2, <1>3 DEF Disk!Outcome

\* One block more is the next one, of a command that fits.
LEMMA NextBlock ==
  ASSUME IInv', PInv', Judged', NEW c, cbw' = c, NEW before \in Seq(Nat),
         \A i \in 1 .. Len(before) : before[i] = c.lba + i - 1,
         media' = before \/ Len(media') = Len(before) + 1
  PROVE  Disk!Access(c, before)
<1>1. CASE media' = before
  BY <1>1 DEF Disk!Access
<1>2. CASE Len(media') = Len(before) + 1
  <2>1. /\ c.nbr \in Nat /\ c.lba \in Nat /\ media' \in Seq(Nat) /\ Len(before) \in Nat
        /\ \A i \in 1 .. Len(media') : media'[i] = c.lba + i - 1
    BY CommandType DEF IInv, TypeOK, MachineOK, DiskOK, PInv, MediaInOrder
  <2>2. media' # <<>>
    BY <1>2, <2>1
  <2>3. c.op \in {"read", "write"} /\ c.lba + c.nbr <= Blocks /\ Len(media') <= c.nbr
    BY <2>2 DEF Judged, PInv, Inside
  <2>4. /\ Disk!Wanted(c) = [i \in 1 .. c.nbr |-> c.lba + i - 1]
        /\ Len(Disk!Wanted(c)) = c.nbr
    BY <2>1, <2>3 DEF Disk!Wanted
  <2>5. Len(before) < c.nbr /\ Len(before) + 1 \in 1 .. c.nbr
    BY <1>2, <2>1, <2>3
  <2> DEFINE m == Len(before)
             b == c.lba + (m + 1) - 1
  <2>6. Disk!Wanted(c)[m + 1] = b
    BY <2>4, <2>5
  <2>7. b \in Nat /\ m \in Nat
    BY <2>1
  <2>8. media' = Append(before, b)
    <3>1. Len(Append(before, b)) = m + 1 /\ Append(before, b) \in Seq(Nat)
      BY <2>7
    <3>2. \A i \in 1 .. m + 1 : Append(before, b)[i] = IF i = m + 1 THEN b ELSE before[i]
      BY <2>7
    <3>3. \A i \in 1 .. m + 1 : Append(before, b)[i] = media'[i]
      <4> SUFFICES ASSUME NEW i \in 1 .. m + 1 PROVE Append(before, b)[i] = media'[i]
        OBVIOUS
      <4>1. media'[i] = c.lba + i - 1
        BY <1>2, <2>1
      <4>2. CASE i = m + 1
        BY <3>2, <4>1, <4>2
      <4>3. CASE i # m + 1
        <5>1. i \in 1 .. m
          BY <2>7, <4>3
        <5> QED BY <3>2, <4>1, <4>3, <5>1
      <4> QED BY <4>2, <4>3
    <3> QED BY <1>2, <2>1, <3>1, <3>3, SeqEqual
  <2> HIDE DEF b
  <2> QED BY <2>3, <2>4, <2>5, <2>6, <2>8 DEF Disk!Access
<1> QED BY <1>1, <1>2

\* The end of a command, of a recovery or of a configuration.
LEMMA QuietStep ==
  ASSUME IInv, IInv', UNCHANGED <<cbw, media>>
  PROVE  /\ phase' = "idle" => Disk!StartOver
         /\ Live /\ phase' = "reset" => Disk!GiveUp
         /\ phase = "reset" /\ phase' = "resetOut" => UNCHANGED Disk!vars
<1>1. phase' = "idle" => Stage' = "idle" /\ Verdict' = "none"
  BY StagesAfter
<1>2. phase' \in {"reset", "resetOut"} => Stage' = "recovering" /\ Verdict' = "none"
  BY StagesAfter
<1>3. Live => Stage \in {"busy", "decided"}
  BY Stages
<1>4. phase = "reset" => Stage = "recovering" /\ Verdict = "none"
  BY Stages
<1> QED BY <1>1, <1>2, <1>3, <1>4 DEF Disk!StartOver, Disk!GiveUp, Disk!vars

LEMMA StepRefines ==
  ASSUME Straight, IInv, PInv, Judged, IInv', PInv', Judged', [Next]_vars
  PROVE  [Disk!Next]_Disk!vars
<1>1. ASSUME NEW c \in Commands, Command(c) PROVE Disk!Next
  <2>1. /\ phase = "idle" /\ phase' \in {"data", "status"} /\ cbw' = c
        /\ Len(media') = 0 \/ Len(media') = 1
    BY <1>1, CommandAccess
  <2>2. Stage = "idle" /\ Live'
    BY <2>1, Stages DEF Live
  <2>3. Disk!Outcome(c)
    BY <2>1, <2>2, SomeOutcome
  <2> DEFINE none == <<>>
  <2>4. /\ none \in Seq(Nat) /\ Len(none) = 0
        /\ \A i \in 1 .. Len(none) : none[i] = c.lba + i - 1
    OBVIOUS
  <2>5. media' = none \/ Len(media') = Len(none) + 1
    <3>1. media' \in Seq(Nat)
      BY DEF IInv, TypeOK, DiskOK
    <3> QED BY <2>1, <3>1
  <2> HIDE DEF none
  <2>6. Disk!Access(c, none)
    BY <2>1, <2>4, <2>5, NextBlock
  <2> QED BY <2>1, <2>2, <2>3, <2>6 DEF Disk!Next, Disk!Accept, none
<1>2. ASSUME Live, Live', cbw' = cbw, media' = media \/ Len(media') = Len(media) + 1,
             Stage = "busy"
      PROVE  Disk!Next
  <2>1. Disk!Outcome(cbw)
    BY <1>2, SomeOutcome
  <2>2. media \in Seq(Nat) /\ \A i \in 1 .. Len(media) : media[i] = cbw.lba + i - 1
    BY DEF IInv, TypeOK, DiskOK, PInv, MediaInOrder
  <2>3. Disk!Access(cbw, media)
    BY <1>2, <2>2, NextBlock
  <2> QED BY <1>2, <2>1, <2>3 DEF Disk!Next, Disk!Work
<1>3. ASSUME ReadData \/ ReadStray \/ SendBlock PROVE Disk!Next
  <2>1. /\ Live /\ Live' /\ cbw' = cbw
        /\ ~(phase \in {"status", "retry"} /\ in = Csw)
        /\ \/ DataIn /\ in.kind \in {"blocks", "reply", "csw"} /\ UNCHANGED <<cbw, diskVars>>
           \/ SendBlock
    BY <1>3 DEF ReadData, ReadStray, SendBlock, Live, Csw
  <2>2. media' = media \/ Len(media') = Len(media) + 1
    BY <2>1, DataAccess
  <2>3. Stage = "busy"
    BY <2>1, Stages
  <2> QED BY <1>2, <2>1, <2>2, <2>3
<1>4. ASSUME ReadStatus PROVE Disk!Next
  <2>1. /\ Live /\ DataIn /\ in.kind = "csw" /\ UNCHANGED <<cbw, diskVars>> /\ phase' = "idle"
    BY <1>4 DEF ReadStatus, Live, Csw
  <2>2. media' = media
    BY <2>1, DataAccess
  <2> QED BY <2>1, <2>2, QuietStep DEF Disk!Next
<1>5. ASSUME ClearHaltIn \/ ClearHaltOut PROVE Disk!Next
  <2>1. Live /\ Live' /\ UNCHANGED <<cbw, media>> /\ (in = Stall \/ phase = "data")
    BY <1>5 DEF ClearHaltIn, ClearHaltOut, hostOnly, Live
  <2>2. Stage = "busy"
    BY <2>1, Stages DEF Stall, Csw
  <2> QED BY <1>2, <2>1, <2>2
<1>6. ASSUME SecondStall \/ TimeOut PROVE Disk!Next
  <2>1. Live /\ phase' = "reset" /\ UNCHANGED <<cbw, media>>
    BY <1>6 DEF SecondStall, TimeOut, BotReset, hostOnly, Live
  <2> QED BY <2>1, QuietStep DEF Disk!Next
<1>7. ASSUME ResetIn PROVE UNCHANGED Disk!vars
  <2>1. phase = "reset" /\ phase' = "resetOut" /\ UNCHANGED <<cbw, media>>
    BY <1>7 DEF ResetIn, hostOnly
  <2> QED BY <2>1, QuietStep
<1>8. ASSUME ResetOut \/ Reconfigure PROVE Disk!Next
  <2>1. phase' = "idle" /\ UNCHANGED <<cbw, media>>
    BY <1>8 DEF ResetOut, Reconfigure, hostOnly
  <2> QED BY <2>1, QuietStep DEF Disk!Next
<1>9. CASE UNCHANGED vars
  BY <1>9 DEF vars, statusVars, Disk!vars, Stage, Verdict
<1> QED BY <1>1, <1>3, <1>4, <1>5, <1>6, <1>7, <1>8, <1>9 DEF Next, Host

\* The transport machine and the commands under it, for every block size, disk
\* and set of commands, implement a disk: one verdict for each command, never
\* taken back, passed only for what was done, and no block out of turn.
THEOREM ImplementsTheDisk == ASSUME Straight PROVE Spec => ImplementsDisk
<1>1. Init => Judged /\ Disk!Init
  <2> SUFFICES ASSUME Init PROVE Judged /\ Disk!Init
    OBVIOUS
  <2>1. phase = "idle" /\ media = <<>> /\ cbw \in Commands
    BY DEF Init
  <2>2. Stage = "idle" /\ Verdict = "none"
    BY <2>1, InvInit, Stages
  <2> QED BY <2>1, <2>2 DEF Judged, Live, Disk!Init
<1>2. IInv /\ PInv /\ Judged /\ [Next]_vars => Judged'
  BY JudgedNext
<1>3. IInv /\ PInv /\ Judged /\ IInv' /\ PInv' /\ Judged' /\ [Next]_vars => [Disk!Next]_Disk!vars
  BY StepRefines
<1> QED BY <1>1, <1>2, <1>3, Invariance, Places, PTL DEF Spec, ImplementsDisk, Disk!Spec

=============================================================================
