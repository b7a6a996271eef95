------------------------- MODULE FlashWriterProofs -------------------------
(***************************************************************************)
(* The flash writer for every memory map, page size, record and cut of the *)
(* power: the bootloader's part of the flash survives (first part), and a  *)
(* record is stored where the flash was erased (second part).              *)
(***************************************************************************)
EXTENDS FlashWriter, SequenceTheorems, TLAPS

\* Dropping the first n bytes of a buffer.
LEMMA DropBytes ==
  ASSUME NEW s \in Seq(Byte), NEW n \in 0..Len(s)
  PROVE  /\ SubSeq(s, n + 1, Len(s)) \in Seq(Byte)
         /\ Len(SubSeq(s, n + 1, Len(s))) = Len(s) - n
<1>1. Len(s) \in Nat
  BY LenProperties
<1>2. \A i \in (n + 1) .. Len(s) : s[i] \in Byte
  BY <1>1, ElementOfSeq
<1> QED BY <1>1, <1>2, SubSeqProperties

\* Taking some bytes of a buffer.
LEMMA TakeBytes ==
  ASSUME NEW s \in Seq(Byte), NEW n \in 0..Len(s)
  PROVE  /\ SubSeq(s, 1, n) \in Seq(Byte)
         /\ Len(SubSeq(s, 1, n)) = n
<1>1. Len(s) \in Nat
  BY LenProperties
<1>2. \A i \in 1 .. n : s[i] \in Byte
  BY <1>1, ElementOfSeq
<1> QED BY <1>1, <1>2, SubSeqProperties

\* The words HAL_FLASH_Program is given are four bytes.
LEMMA PaddedIsWord ==
  ASSUME NEW offset \in 0..3, NEW s \in Seq(Byte)
  PROVE  Padded(offset, s) \in [1..4 -> Byte]
<1>1. Len(s) \in Nat /\ ERASED \in Byte
  BY LenProperties, ByteAssumption DEF Byte
<1>2. ASSUME NEW i \in 1..4, i > offset /\ i <= offset + Len(s)
      PROVE  s[i - offset] \in Byte
  <2>1. i - offset \in 1..Len(s)
    BY <1>1, <1>2
  <2> QED BY <2>1, ElementOfSeq
<1> QED BY <1>1, <1>2 DEF Padded

\* Decrypting a block keeps its length and gives bytes.
LEMMA ClearIsBytes ==
  ASSUME NEW s \in Seq(Byte), NEW crypt \in BOOLEAN
  PROVE  Clear(s, crypt) \in Seq(Byte) /\ Len(Clear(s, crypt)) = Len(s)
<1>1. CASE ~crypt
  BY <1>1 DEF Clear
<1>2. CASE crypt
  <2>1. Len(s) \in Nat /\ \A i \in 1..Len(s) : s[i] \in Byte
    BY LenProperties, ElementOfSeq
  <2>2. \A b \in Byte : ERASED - b \in Byte
    BY ByteAssumption, SMT DEF Byte
  <2>3. Decrypt(s) \in [1..Len(s) -> Byte]
    BY <2>1, <2>2 DEF Decrypt
  <2>4. Decrypt(s) \in Seq(Byte)
    BY <2>1, <2>3, SeqDef
  <2>5. Len(Decrypt(s)) = Len(s)
    BY <2>1, <2>3, <2>4, LenProperties
  <2> QED BY <1>2, <2>4, <2>5 DEF Clear
<1> QED BY <1>1, <1>2

-----------------------------------------------------------------------------
\* An address that passes the top of the address space at most once.
LEMMA WrapOnce ==
  ASSUME NEW x \in Nat, NEW m \in Nat \ {0}, x < 2 * m
  PROVE  (x < m => x % m = x) /\ (x >= m => x % m = x - m)
<1>1. CASE x < m
  BY <1>1, SMT
<1>2. CASE x >= m
  <2>1. x - m \in Nat /\ x - m < m
    BY <1>2, SMT
  <2>2. (x - m) % m = x - m
    BY <2>1, SMT
  <2>3. x % m = (x - m) % m
    BY <1>2, SMT
  <2> QED BY <1>2, <2>2, <2>3
<1> QED BY <1>1, <1>2

LEMMA MapFacts ==
  /\ FLASH_BASE \in Nat /\ APP_ADDR \in Nat /\ FLASH_END \in Nat
  /\ ADDRESS_SPACE \in Nat \ {0}
  /\ FLASH_BASE <= APP_ADDR /\ APP_ADDR < FLASH_END
  /\ FLASH_END < ADDRESS_SPACE
  /\ FLASH_BASE % 4 = 0 /\ APP_ADDR % 4 = 0 /\ FLASH_END % 4 = 0
  /\ ADDRESS_SPACE % 4 = 0
BY MapAssumption, PageAssumption, SMT DEF APP_ADDR, FLASH_END

\* Going on by k bytes leaves the rest placed.
LEMMA AdvancePlaced ==
  ASSUME NEW a \in Address, NEW n \in Nat, NEW k \in 0..n, Placed(a, n)
  PROVE  /\ (a + k) % ADDRESS_SPACE \in Address
         /\ Placed((a + k) % ADDRESS_SPACE, n - k)
         /\ (a + k) % 4 = 0 => ((a + k) % ADDRESS_SPACE) % 4 = 0
<1>1. a \in Nat /\ a < ADDRESS_SPACE /\ k \in Nat /\ k <= n /\ a + k \in Nat
  BY MapFacts, SMT DEF Address
<1>2. a + k < 2 * ADDRESS_SPACE
  BY <1>1, MapFacts, SMT DEF Placed
<1>3. CASE a + k < ADDRESS_SPACE
  <2>1. (a + k) % ADDRESS_SPACE = a + k
    BY <1>1, <1>2, <1>3, WrapOnce, MapFacts
  <2>2. a + k \in Address /\ Placed(a + k, n - k)
    BY <1>1, <1>3, MapFacts, SMT DEF Address, Placed
  <2> QED BY <2>1, <2>2
<1>4. CASE a + k >= ADDRESS_SPACE
  <2>1. (a + k) % ADDRESS_SPACE = (a + k) - ADDRESS_SPACE
    BY <1>1, <1>2, <1>4, WrapOnce, MapFacts
  <2>2. /\ (a + k) - ADDRESS_SPACE \in Address
        /\ Placed((a + k) - ADDRESS_SPACE, n - k)
    BY <1>1, <1>2, <1>4, MapFacts, SMT DEF Address, Placed
  <2>3. (a + k) % 4 = 0 => ((a + k) - ADDRESS_SPACE) % 4 = 0
    BY <1>1, <1>4, MapFacts, SMT
  <2> QED BY <2>1, <2>2, <2>3
<1> QED BY <1>1, <1>3, <1>4, MapFacts

\* A record that passes the bounds check is placed: a sum that wrapped belongs
\* to a record that starts above the flash.
LEMMA InRangePlaced ==
  ASSUME phy_addr \in Address, Len(buf) \in Nat, Len(buf) <= FLASH_BASE,
         Len(buf) <= ADDRESS_SPACE - FLASH_END, InRange
  PROVE  phy_addr >= APP_ADDR /\ Placed(phy_addr, Len(buf))
<1>1. /\ phy_addr \in Nat /\ phy_addr < ADDRESS_SPACE
      /\ phy_addr + Len(buf) \in Nat
      /\ phy_addr + Len(buf) < 2 * ADDRESS_SPACE
  BY MapFacts, SMT DEF Address
<1>2. phy_addr >= APP_ADDR
      /\ (phy_addr + Len(buf)) % ADDRESS_SPACE <= FLASH_END
  BY DEF InRange
<1>3. CASE phy_addr + Len(buf) < ADDRESS_SPACE
  <2>1. (phy_addr + Len(buf)) % ADDRESS_SPACE = phy_addr + Len(buf)
    BY <1>1, <1>3, WrapOnce, MapFacts
  <2> QED BY <1>2, <2>1 DEF Placed
<1>4. CASE phy_addr + Len(buf) >= ADDRESS_SPACE
  BY <1>1, <1>2, <1>4, MapFacts, SMT DEF Placed
<1> QED BY <1>1, <1>3, <1>4, MapFacts

-----------------------------------------------------------------------------
LEMMA NoWordType ==
  NoWord \in [addr : Address, bytes : [1..4 -> Byte], index : 0..2]
<1>1. 0 \in Address /\ 0 \in Byte
  BY MapFacts, ByteAssumption, SMT DEF Address, Byte
<1>2. <<0, 0, 0, 0>> \in [1..4 -> Byte]
  BY <1>1
<1> QED BY <1>1, <1>2 DEF NoWord

LEMMA NoWordIndex == NoWord.index = 2
BY DEF NoWord

LEMMA InitIInv == Init => IInv
<1>1. 0 \in Address /\ <<>> \in Seq(Byte) /\ APP_ADDR \in Nat /\ Len(<<>>) = 0
  BY MapFacts, EmptySeq, SMT DEF Address
<1>2. Init => FlagsOK
  BY Zenon DEF Init, FlagsOK
<1>3. ASSUME Init PROVE req[1] \in Address /\ req[2] \in Seq(Byte)
  BY <1>1, <1>3 DEF Init, NoRecord
<1>4. Init => TypeOK
  <2>1. SUFFICES ASSUME Init PROVE TypeOK
    OBVIOUS
  <2>2. flash \in [Flash -> Byte] /\ before \in [Flash -> Byte]
    BY <2>1, ImageAssumption DEF Init
  <2>3. word \in [addr : Address, bytes : [1..4 -> Byte], index : 0..2]
    BY <2>1, NoWordType DEF Init
  <2>4. /\ phy_addr \in Address /\ buf \in Seq(Byte) /\ pc = "idle"
        /\ address \in Nat /\ address >= APP_ADDR
    BY <1>1, <2>1 DEF Init
  <2> QED BY <1>2, <1>3, <2>1, <2>2, <2>3, <2>4 DEF TypeOK
<1>5. Init => WordsPlaced
  BY NoWordIndex DEF Init, WordsPlaced
<1> QED BY <1>4, <1>5 DEF IInv

\* Entering the callback.
LEMMA CallSteps ==
  ASSUME IInv, NEW r \in Records, NEW c \in BOOLEAN,
         RejectBlock(r, c) \/ Write(r, c)
  PROVE  IInv'
<1>1. CASE RejectBlock(r, c)
  <2>1. FlagsOK'
    BY <1>1, Zenon DEF RejectBlock, IInv, TypeOK, FlagsOK, history
  <2> QED BY <1>1, <2>1 DEF RejectBlock, IInv, TypeOK, WordsPlaced, locals,
                            history
<1>2. CASE Write(r, c)
  <2>1. /\ r[1] \in Address /\ r[2] \in Seq(Byte) /\ Len(r[2]) <= FLASH_BASE
        /\ Len(r[2]) <= ADDRESS_SPACE - FLASH_END
    BY RecordAssumption
  <2>2. buf' \in Seq(Byte) /\ Len(buf') = Len(r[2])
    BY <1>2, <2>1, ClearIsBytes DEF Write
  <2>3. /\ phy_addr' = r[1] /\ req' = <<r[1], buf'>> /\ address' = APP_ADDR
        /\ locked' = FALSE /\ return_status' = TRUE /\ fault' = FALSE
        /\ pc' \in {"erase", "check"} /\ pc = "idle"
        /\ flash' = flash /\ word' = word /\ before' = before
    BY <1>2 DEF Write
  <2>4. FlagsOK'
    BY <2>3, Zenon DEF FlagsOK
  <2>5. req'[1] \in Address /\ req'[2] \in Seq(Byte)
    BY <2>1, <2>2, <2>3
  <2>6. TypeOK'
    BY <2>1, <2>2, <2>3, <2>4, <2>5, MapFacts DEF IInv, TypeOK
  <2>7. WordsPlaced'
    BY <2>1, <2>2, <2>3 DEF IInv, WordsPlaced
  <2> QED BY <2>6, <2>7 DEF IInv
<1> QED BY <1>1, <1>2

\* Erasing, the bounds check and the return.
LEMMA EraseAndCheckSteps ==
  ASSUME IInv, ErasePage \/ EraseFails \/ CheckRange \/ Return
  PROVE  IInv'
<1>. USE DEF IInv, locals, history
<1>0. FlagsOK'
  BY Zenon DEF ErasePage, EraseFails, CheckRange, Return, TypeOK, FlagsOK
<1>1. CASE ErasePage
  <2>1. ERASED \in Byte /\ FLASH_PAGE_SIZE \in Nat
    BY ByteAssumption, PageAssumption DEF Byte
  <2>2. flash' \in [Flash -> Byte]
    BY <1>1, <2>1 DEF ErasePage, TypeOK
  <2>3. /\ address' \in Nat /\ address' >= APP_ADDR
    BY <1>1, <2>1, MapFacts, SMT DEF ErasePage, TypeOK
  <2>4. pc' \in {"erase", "check"} /\ pc = "erase"
        /\ UNCHANGED <<phy_addr, buf, word, req, before>>
    BY <1>1 DEF ErasePage
  <2>5. TypeOK'
    BY <1>0, <2>2, <2>3, <2>4 DEF TypeOK
  <2>6. WordsPlaced'
    BY <2>4 DEF WordsPlaced
  <2> QED BY <2>5, <2>6
<1>2. CASE EraseFails
  BY <1>0, <1>2 DEF EraseFails, TypeOK, WordsPlaced
<1>3. CASE CheckRange
  <2>1. Len(buf) \in Nat
    BY LenProperties DEF TypeOK
  <2>2. InRange => phy_addr >= APP_ADDR /\ Placed(phy_addr, Len(buf))
    BY <1>3, <2>1, InRangePlaced DEF CheckRange, TypeOK, WordsPlaced
  <2>3. TypeOK'
    BY <1>0, <1>3 DEF CheckRange, TypeOK
  <2>4. WordsPlaced'
    BY <1>3, <2>2 DEF CheckRange, WordsPlaced
  <2> QED BY <2>3, <2>4
<1>4. CASE Return
  BY <1>0, <1>4 DEF Return, TypeOK, WordsPlaced
<1> QED BY <1>1, <1>2, <1>3, <1>4

\* Power comes back.
LEMMA PowerCycleStep ==
  ASSUME IInv, PowerCycle
  PROVE  IInv'
<1>. USE DEF IInv
<1>1. 0 \in Address /\ <<>> \in Seq(Byte) /\ APP_ADDR \in Nat
  BY MapFacts, EmptySeq, SMT DEF Address
<1>2. FlagsOK'
  BY Zenon DEF PowerCycle, FlagsOK
<1>3. req'[1] \in Address /\ req'[2] \in Seq(Byte)
  BY <1>1 DEF PowerCycle, NoRecord
<1>4. TypeOK'
  BY <1>1, <1>2, <1>3, NoWordType DEF PowerCycle, TypeOK
<1>5. WordsPlaced'
  BY NoWordIndex DEF PowerCycle, WordsPlaced
<1> QED BY <1>4, <1>5

\* Rounding an address down and up to a word.
LEMMA Rounding ==
  ASSUME NEW a \in Nat
  PROVE  /\ (a % 4) \in 0..3 /\ (a % 4) <= a
         /\ a - (a % 4) \in Nat /\ (a - (a % 4)) % 4 = 0
         /\ (a + (4 - (a % 4))) % 4 = 0
<1>1. PICK q \in Nat, u \in 0..3 : a = (4 * q) + u
  <2>1. a \div 4 \in Nat
    BY SMT
  <2>2. (a % 4) \in 0..3
    BY SMT
  <2>3. a = (4 * (a \div 4)) + (a % 4)
    BY SMT
  <2> QED BY <2>1, <2>2, <2>3
<1>2. (a % 4) = u
  BY <1>1, SMT
<1>3. (4 * q) % 4 = 0 /\ ((4 * q) + 4) % 4 = 0
  BY SMT
<1>4. a - u = 4 * q /\ a + (4 - u) = (4 * q) + 4 /\ u <= a
  BY <1>1, SMT
<1> QED BY <1>1, <1>2, <1>3, <1>4

\* A word is given to HAL_FLASH_Program.
LEMMA WordSteps ==
  ASSUME IInv, ProgramHead \/ ProgramBody \/ ProgramTail
  PROVE  IInv'
<1>. USE DEF IInv, locals, history
<1>0. /\ phy_addr \in Address /\ phy_addr \in Nat /\ buf \in Seq(Byte)
      /\ Len(buf) \in Nat
  BY LenProperties DEF TypeOK, Address
<1>1. FlagsOK'
  BY Zenon DEF ProgramHead, ProgramBody, ProgramTail, TypeOK, FlagsOK
<1>2. ASSUME NEW n \in 0..Len(buf), Advance(n), Placed(phy_addr, Len(buf))
      PROVE  /\ buf' \in Seq(Byte) /\ Len(buf') = Len(buf) - n
             /\ phy_addr' \in Address /\ Placed(phy_addr', Len(buf'))
             /\ (phy_addr + n) % 4 = 0 => phy_addr' % 4 = 0
  <2>1. buf' \in Seq(Byte) /\ Len(buf') = Len(buf) - n
    BY <1>0, <1>2, DropBytes DEF Advance
  <2>2. phy_addr' = (phy_addr + n) % ADDRESS_SPACE
    BY <1>2 DEF Advance
  <2> QED BY <1>0, <1>2, <2>1, <2>2, AdvancePlaced
<1>3. ASSUME NEW a \in Address, NEW b \in [1..4 -> Byte], BeginWord(a, b)
      PROVE  /\ word' \in [addr : Address, bytes : [1..4 -> Byte], index : 0..2]
             /\ word'.addr = a /\ word'.index = 0
  BY <1>3 DEF BeginWord
<1>4. CASE ProgramHead
  <2>. DEFINE unalign   == phy_addr % 4
              prog_size == Smaller(Len(buf), 4 - unalign)
  <2>1. /\ pc = "head" /\ pc' = "body" /\ word.index = 2
        /\ Placed(phy_addr, Len(buf)) /\ phy_addr >= APP_ADDR
    BY <1>4 DEF ProgramHead, WordsPlaced
  <2>2. UNCHANGED <<flash, address, req, before>>
    BY <1>4 DEF ProgramHead
  <2>3. unalign \in 0..3 /\ prog_size \in 0..Len(buf)
        /\ (prog_size = Len(buf) \/ (phy_addr + prog_size) % 4 = 0)
    <3>1. unalign \in 0..3 /\ (phy_addr + (4 - unalign)) % 4 = 0
      BY <1>0, Rounding
    <3>. HIDE DEF unalign
    <3>2. CASE Len(buf) < 4 - unalign
      <4>1. prog_size = Len(buf)
        BY <3>2 DEF Smaller
      <4> QED BY <1>0, <3>1, <4>1
    <3>3. CASE ~(Len(buf) < 4 - unalign)
      <4>1. prog_size = 4 - unalign
        BY <3>3 DEF Smaller
      <4>2. prog_size \in 0..Len(buf)
        BY <1>0, <3>1, <3>3, <4>1
      <4> QED BY <3>1, <4>1, <4>2
    <3> QED BY <3>2, <3>3
  <2>4. CASE unalign = 0 /\ UNCHANGED <<word, locals>>
    <3>1. TypeOK'
      BY <1>1, <2>1, <2>2, <2>4 DEF TypeOK
    <3>2. WordsPlaced'
      BY <2>1, <2>4 DEF WordsPlaced
    <3> QED BY <3>1, <3>2
  <2>5. CASE /\ unalign # 0
             /\ BeginWord(phy_addr - unalign,
                          Padded(unalign, SubSeq(buf, 1, prog_size)))
             /\ Advance(prog_size)
    <3>1. Padded(unalign, SubSeq(buf, 1, prog_size)) \in [1..4 -> Byte]
      BY <1>0, <2>3, TakeBytes, PaddedIsWord
    <3>2. /\ phy_addr - unalign \in Address
          /\ (phy_addr - unalign) % 4 = 0
          /\ Placed(phy_addr - unalign, 4)
      <4>. HIDE DEF prog_size
      <4>1. phy_addr - unalign \in Address /\ (phy_addr - unalign) % 4 = 0
        <5>1. /\ unalign \in 0..3 /\ phy_addr - unalign \in Nat
              /\ (phy_addr - unalign) % 4 = 0
          BY <1>0, Rounding
        <5>. HIDE DEF unalign
        <5> QED BY <1>0, <5>1, MapFacts, SMT DEF Address
      <4>2. phy_addr - unalign >= APP_ADDR
        BY <1>0, <2>1, MapFacts, SMT
      <4>3. CASE phy_addr < FLASH_END
        BY <1>0, <4>1, <4>2, <4>3, MapFacts, SMT DEF Placed, Address
      <4>4. CASE phy_addr >= FLASH_END
        BY <1>0, <4>1, <4>4, MapFacts, SMT DEF Placed, Address
      <4> QED BY <1>0, <4>1, <4>3, <4>4, MapFacts
    <3>3. /\ word' \in [addr : Address, bytes : [1..4 -> Byte], index : 0..2]
          /\ word'.addr = phy_addr - unalign
      BY <1>3, <2>5, <3>1, <3>2
    <3>4. /\ buf' \in Seq(Byte) /\ Len(buf') = Len(buf) - prog_size
          /\ phy_addr' \in Address /\ Placed(phy_addr', Len(buf'))
          /\ (phy_addr + prog_size) % 4 = 0 => phy_addr' % 4 = 0
      BY <1>2, <2>1, <2>3, <2>5
    <3>5. phy_addr' % 4 = 0 \/ buf' = <<>>
      <4>. HIDE DEF prog_size
      <4>1. CASE prog_size = Len(buf)
        <5>1. Len(buf') = 0
          BY <1>0, <3>4, <4>1
        <5> QED BY <3>4, <5>1, EmptySeq
      <4> QED BY <2>3, <3>4, <4>1
    <3>6. TypeOK'
      BY <1>1, <2>1, <2>2, <3>3, <3>4 DEF TypeOK
    <3>7. WordsPlaced'
      BY <2>1, <3>2, <3>3, <3>4, <3>5 DEF WordsPlaced
    <3> QED BY <3>6, <3>7
  <2> QED BY <1>4, <2>4, <2>5 DEF ProgramHead
<1>5. CASE ProgramBody
  <2>1. /\ pc = "body" /\ pc' = "body" /\ Len(buf) >= 4
        /\ BeginWord(phy_addr, SubSeq(buf, 1, 4)) /\ Advance(4)
        /\ UNCHANGED <<flash, address, req, before>>
    BY <1>5 DEF ProgramBody
  <2>2. Placed(phy_addr, Len(buf)) /\ phy_addr % 4 = 0
    <3>1. buf # <<>>
      BY <2>1, EmptySeq
    <3> QED BY <2>1, <3>1 DEF WordsPlaced
  <2>3. SubSeq(buf, 1, 4) \in [1..4 -> Byte]
    <3>1. 4 \in 0..Len(buf)
      BY <1>0, <2>1
    <3>2. SubSeq(buf, 1, 4) \in Seq(Byte) /\ Len(SubSeq(buf, 1, 4)) = 4
      BY <1>0, <3>1, TakeBytes
    <3> QED BY <3>2, LenProperties
  <2>4. /\ word' \in [addr : Address, bytes : [1..4 -> Byte], index : 0..2]
        /\ word'.addr = phy_addr
    BY <1>0, <1>3, <2>1, <2>3
  <2>5. /\ buf' \in Seq(Byte) /\ phy_addr' \in Address
        /\ Placed(phy_addr', Len(buf')) /\ phy_addr' % 4 = 0
    <3>1. 4 \in 0..Len(buf) /\ (phy_addr + 4) % 4 = 0
      BY <1>0, <2>1, <2>2, SMT
    <3> QED BY <1>2, <2>1, <2>2, <3>1
  <2>6. Placed(phy_addr, 4)
    BY <1>0, <2>1, <2>2, MapFacts, SMT DEF Placed, Address
  <2>7. TypeOK'
    BY <1>1, <2>1, <2>4, <2>5 DEF TypeOK
  <2>8. WordsPlaced'
    BY <2>1, <2>2, <2>4, <2>5, <2>6 DEF WordsPlaced
  <2> QED BY <2>7, <2>8
<1>6. CASE ProgramTail
  <2>1. /\ pc = "body" /\ pc' = "exit" /\ Len(buf) < 4 /\ word.index = 2
        /\ Placed(phy_addr, Len(buf))
        /\ UNCHANGED <<flash, address, req, before>>
    BY <1>6 DEF ProgramTail, WordsPlaced
  <2>2. CASE buf = <<>> /\ UNCHANGED <<word, locals>>
    <3>1. TypeOK'
      BY <1>1, <2>1, <2>2 DEF TypeOK
    <3>2. WordsPlaced'
      BY <2>1, <2>2 DEF WordsPlaced
    <3> QED BY <3>1, <3>2
  <2>3. CASE /\ buf # <<>> /\ BeginWord(phy_addr, Padded(0, buf))
             /\ Advance(Len(buf))
    <3>1. phy_addr % 4 = 0 /\ Len(buf) > 0
      BY <1>0, <2>1, <2>3, EmptySeq DEF WordsPlaced
    <3>2. Padded(0, buf) \in [1..4 -> Byte]
      BY <1>0, PaddedIsWord
    <3>3. /\ word' \in [addr : Address, bytes : [1..4 -> Byte], index : 0..2]
          /\ word'.addr = phy_addr
      BY <1>0, <1>3, <2>3, <3>2
    <3>4. buf' \in Seq(Byte) /\ phy_addr' \in Address
      <4>1. Len(buf) \in 0..Len(buf)
        BY <1>0
      <4> QED BY <1>2, <2>1, <2>3, <4>1
    <3>5. Placed(phy_addr, 4)
      BY <1>0, <2>1, <3>1, MapFacts, SMT DEF Placed, Address
    <3>6. TypeOK'
      BY <1>1, <2>1, <3>3, <3>4 DEF TypeOK
    <3>7. WordsPlaced'
      BY <2>1, <3>1, <3>3, <3>5 DEF WordsPlaced
    <3> QED BY <3>6, <3>7
  <2> QED BY <1>6, <2>2, <2>3 DEF ProgramTail
<1> QED BY <1>4, <1>5, <1>6

\* A half-word that is flash is one of the application's, with both its bytes.
LEMMA HalfInApp ==
  ASSUME IInv, word.index < 2, HalfAddress \in Flash
  PROVE  /\ HalfAddress \in App /\ HalfAddress + 1 \in App
         /\ HalfBytes[1] \in Byte /\ HalfBytes[2] \in Byte
<1>1. /\ word.addr \in Nat /\ word.addr < ADDRESS_SPACE
      /\ word.bytes \in [1..4 -> Byte] /\ word.index \in 0..1
      /\ word.addr % 4 = 0 /\ Placed(word.addr, 4)
  BY MapFacts, SMT DEF IInv, TypeOK, WordsPlaced, Address
<1>2. word.addr + 4 <= ADDRESS_SPACE
  BY <1>1, MapFacts, SMT
<1>3. HalfAddress = word.addr + (2 * word.index)
  <2>1. /\ word.addr + (2 * word.index) \in Nat
        /\ word.addr + (2 * word.index) < ADDRESS_SPACE
    <3>1. CASE word.index = 0
      <4>1. 2 * word.index = 0
        BY <3>1
      <4> QED BY <1>1, <4>1
    <3>2. CASE word.index = 1
      <4>1. 2 * word.index = 2
        BY <3>2
      <4>2. ADDRESS_SPACE \in Nat
        BY MapAssumption
      <4>3. word.addr + 2 < ADDRESS_SPACE
        BY <1>1, <1>2, <4>2, SMT
      <4> QED BY <1>1, <4>1, <4>3, SMT
    <3> QED BY <1>1, <3>1, <3>2
  <2>2. (word.addr + (2 * word.index)) % ADDRESS_SPACE =
          word.addr + (2 * word.index)
    BY <2>1, WrapOnce, MapFacts
  <2> QED BY <2>2 DEF HalfAddress
<1>4. HalfAddress \in App /\ HalfAddress + 1 \in App
  <2>1. HalfAddress \in {word.addr, word.addr + 2}
    BY <1>1, <1>3
  <2>2. HalfAddress >= FLASH_BASE /\ HalfAddress < FLASH_END
    BY <2>1, <1>1, MapFacts, SMT DEF Flash
  <2>3. word.addr >= APP_ADDR /\ word.addr + 4 <= FLASH_END
    BY <1>1, <2>1, <2>2, MapFacts, SMT DEF Placed
  <2> QED BY <1>1, <2>1, <2>3, MapFacts, SMT DEF App
<1>5. HalfBytes[1] \in Byte /\ HalfBytes[2] \in Byte
  <2>1. CASE word.index = 0
    <3>1. HalfBytes = SubSeq(word.bytes, 1, 2)
      BY <2>1 DEF HalfBytes
    <3>2. \A i \in 1..2 : word.bytes[i] \in Byte
      BY <1>1
    <3>3. HalfBytes \in Seq(Byte) /\ Len(HalfBytes) = 2
      BY <3>1, <3>2, SubSeqProperties
    <3>4. 1 \in 1..Len(HalfBytes) /\ 2 \in 1..Len(HalfBytes)
      BY <3>3
    <3> QED BY <3>3, <3>4, ElementOfSeq
  <2>2. CASE word.index = 1
    <3>1. HalfBytes = SubSeq(word.bytes, 3, 4)
      BY <2>2 DEF HalfBytes
    <3>2. \A i \in 3..4 : word.bytes[i] \in Byte
      BY <1>1
    <3>3. HalfBytes \in Seq(Byte) /\ Len(HalfBytes) = 2
      BY <3>1, <3>2, SubSeqProperties
    <3>4. 1 \in 1..Len(HalfBytes) /\ 2 \in 1..Len(HalfBytes)
      BY <3>3
    <3> QED BY <3>3, <3>4, ElementOfSeq
  <2> QED BY <1>1, <2>1, <2>2
<1> QED BY <1>4, <1>5

\* HAL_FLASH_Program goes through its two half-words.
LEMMA HalfSteps ==
  ASSUME IInv, ProgramHalf \/ ProgramRefused \/ ProgramFails \/ ProgramStray
  PROVE  IInv'
<1>. USE DEF IInv, locals, history
<1>1. FlagsOK'
  BY Zenon DEF ProgramHalf, ProgramRefused, ProgramFails, ProgramStray, TypeOK,
               FlagsOK
<1>2. /\ word.index < 2
      /\ UNCHANGED <<phy_addr, buf, address, req, before>>
      /\ pc' = pc \/ (pc' = "fault" /\ word' = NoWord)
      /\ \/ word' = NoWord
         \/ word.index = 0 /\ word' = [word EXCEPT !.index = 1]
  BY DEF ProgramHalf, ProgramRefused, ProgramFails, ProgramStray, NextHalf
<1>3. flash' \in [Flash -> Byte]
  BY HalfInApp DEF ProgramHalf, ProgramRefused, ProgramFails, ProgramStray,
                   TypeOK
<1>4. /\ word' \in [addr : Address, bytes : [1..4 -> Byte], index : 0..2]
      /\ word'.index < 2 => word'.addr = word.addr
  <2>1. CASE word' = NoWord
    BY <2>1, NoWordType, NoWordIndex
  <2>2. CASE word.index = 0 /\ word' = [word EXCEPT !.index = 1]
    BY <2>2 DEF TypeOK
  <2> QED BY <1>2, <2>1, <2>2
<1>5. pc' \in {"idle", "erase", "check", "head", "body", "exit", "fault"}
  BY <1>2 DEF TypeOK
<1>6. TypeOK'
  BY <1>1, <1>2, <1>3, <1>4, <1>5 DEF TypeOK
<1>7. WordsPlaced'
  BY <1>2, <1>4 DEF WordsPlaced
<1> QED BY <1>6, <1>7

LEMMA StutterStep ==
  ASSUME IInv, UNCHANGED vars
  PROVE  IInv'
BY DEF vars, locals, history, IInv, TypeOK, FlagsOK, WordsPlaced, Placed

LEMMA NextIInv == IInv /\ [Next]_vars => IInv'
<1>1. SUFFICES ASSUME IInv, Next PROVE IInv'
  BY StutterStep
<1> QED BY <1>1, CallSteps, EraseAndCheckSteps, WordSteps, HalfSteps,
           PowerCycleStep DEF Next, Writer, Program

-----------------------------------------------------------------------------
THEOREM Invariance == Spec => []IInv
BY InitIInv, NextIInv, PTL DEF Spec

\* Type correctness of the flash writer.
THEOREM TypeCorrect == Spec => []TypeOK
<1>1. IInv => TypeOK
  BY DEF IInv
<1> QED BY <1>1, Invariance, PTL

\* Every word given to HAL_FLASH_Program lies in the application or in no
\* flash at all, for every memory map, record and alignment.
THEOREM WordsArePlaced == Spec => []WordsPlaced
<1>1. IInv => WordsPlaced
  BY DEF IInv
<1> QED BY <1>1, Invariance, PTL

\* A step erases pages from APP_ADDR on and programs placed words only.
LEMMA StepSparesBootloader ==
  ASSUME IInv, Next
  PROVE  \A a \in Flash \ App : flash'[a] = flash[a]
<1>. SUFFICES ASSUME NEW a \in Flash \ App PROVE flash'[a] = flash[a]
  OBVIOUS
<1>1. a \in Nat /\ a < APP_ADDR
  BY MapFacts, SMT DEF Flash, App
<1>2. CASE ErasePage
  <2>1. a \notin address .. address + FLASH_PAGE_SIZE - 1
    BY <1>1, MapFacts, PageAssumption, SMT DEF IInv, TypeOK
  <2> QED BY <1>2, <2>1 DEF ErasePage
<1>3. CASE ProgramHalf
  <2>1. HalfAddress \in App /\ HalfAddress + 1 \in App
    BY <1>3, HalfInApp DEF ProgramHalf
  <2>2. a # HalfAddress /\ a # HalfAddress + 1
    BY <2>1
  <2> QED BY <1>3, <2>2 DEF ProgramHalf, IInv, TypeOK
<1>4. CASE flash' = flash
  BY <1>4
<1>5. ErasePage \/ ProgramHalf \/ flash' = flash
  BY DEF Next, RejectBlock, Write, Writer, Program, EraseFails, CheckRange,
         ProgramHead, ProgramBody, ProgramTail, ProgramRefused, ProgramFails,
         ProgramStray, Return, PowerCycle
<1> QED BY <1>2, <1>3, <1>4, <1>5

\* The bootloader survives: no record, cut of the power or hardware failure
\* changes a byte of flash outside the application.
THEOREM BootloaderIsUntouched == Spec => BootloaderUntouched
<1>1. IInv /\ [Next]_vars => [\A a \in Flash \ App : flash'[a] = flash[a]]_vars
  BY StepSparesBootloader
<1> QED BY <1>1, Invariance, PTL DEF Spec, BootloaderUntouched

-----------------------------------------------------------------------------
(***************************************************************************)
(* What a call of the flash writer leaves behind, for every memory map,    *)
(* page size, record and flash: a record on erased words is stored byte    *)
(* for byte and nothing else changes; one outside the application changes  *)
(* nothing; the first record erases first; the lock is closed again.       *)
(*                                                                         *)
(* The idea is Coming: the flash as it will be when the word under way and *)
(* the bytes still in the buffer have been programmed.  It is the flash    *)
(* with the record in it from the bounds check to the end.                 *)
(***************************************************************************)

\* The call goes on, or has come to its end with nothing wrong.
Going == pc \in {"head", "body"} \/ (pc = "exit" /\ return_status)

\* Until the first word the record is all in the buffer; the erase has come as
\* far as address.
Begun ==
  /\ pc \in {"erase", "check", "head"} => req = <<phy_addr, buf>>
  /\ pc = "erase" => req[1] = APP_ADDR /\ \A a \in App : a < address => flash[a] = ERASED
  /\ pc = "check" /\ req[1] = APP_ADDR => \A a \in App : flash[a] = ERASED
  /\ pc = "head" => flash = before
  /\ FirstRecordErases

\* n bytes from a on are no flash.
Away(a, n) ==
  \/ a >= FLASH_END /\ a + n <= ADDRESS_SPACE + FLASH_BASE
  \/ a + n <= FLASH_BASE

\* Of a record that is not wholly inside, every word is away.
Ignored ==
  Going /\ ~Held =>
    /\ flash = before
    /\ pc # "exit" => Away(phy_addr, Len(buf)) 
    /\ word.index < 2 => Away(word.addr, 4)

\* A record of no bytes at an unaligned address programs a word of 0xFF, which
\* changes nothing.
Emptied ==
  Going /\ req[2] = <<>> =>
    /\ flash = before /\ buf = <<>>
    /\ word.index < 2 => \A i \in 1 .. 4 : word.bytes[i] = ERASED

InBuffer(a) == a >= phy_addr /\ a < phy_addr + Len(buf)
InWord(a) == word.index < 2 /\ a >= word.addr + 2 * word.index /\ a < word.addr + 4

Coming(a) ==
  IF InBuffer(a) THEN buf[a - phy_addr + 1]
  ELSE IF InWord(a) THEN word.bytes[a - word.addr + 1]
  ELSE flash[a]

\* The record can be stored: it is held, its words were erased, nothing failed.
Storable == Held /\ ~fault /\ req[2] # <<>> /\ \A a \in Touched : before[a] = ERASED

\* What is in the buffer follows the word under way.
Follows == buf = <<>> \/ (phy_addr + Len(buf) = ReqEnd /\ phy_addr >= req[1])

Storing ==
  Going /\ Storable =>
    /\ Follows
    /\ pc = "exit" => buf = <<>>
    /\ word.index < 2 => /\ word.addr >= APP_ADDR /\ word.addr + 4 <= FLASH_END
                         /\ buf = <<>> \/ phy_addr >= word.addr + 4
    /\ \A a \in Flash : Coming(a) = Patched[a]
    /\ \A a \in Flash : InWord(a) => flash[a] = ERASED
    /\ \A a \in Touched : a >= phy_addr /\ buf # <<>> => flash[a] = ERASED

SInv == LockDiscipline /\ Begun /\ Ignored /\ Emptied /\ Storing

-----------------------------------------------------------------------------
\* Steps that start a call or end it: nothing is under way.
LEMMA StartSteps ==
  ASSUME IInv, SInv, NEW r \in Records, NEW c \in BOOLEAN, RejectBlock(r, c) \/ Write(r, c)
  PROVE  SInv'
<1>1. ~Going'
  BY DEF RejectBlock, Write, Going
<1>2. Ignored' /\ Emptied' /\ Storing'
  BY <1>1, Zenon DEF Ignored, Emptied, Storing
<1>3. LockDiscipline'
  BY Zenon DEF RejectBlock, Write, LockDiscipline
<1>4. Begun'
  <2>1. CASE RejectBlock(r, c)
    BY <2>1 DEF RejectBlock, Begun, FirstRecordErases
  <2>2. CASE Write(r, c)
    <3>1. /\ phy_addr' = r[1] /\ req' = <<r[1], buf'>> /\ address' = APP_ADDR
          /\ pc' = IF r[1] = APP_ADDR THEN "erase" ELSE "check"
      BY <2>2 DEF Write
    <3>2. \A a \in App : ~(a < APP_ADDR)
      BY MapFacts, SMT DEF App
    <3>3. req' = <<phy_addr', buf'>> /\ req'[1] = r[1]
      BY <3>1
    <3>4. CASE r[1] = APP_ADDR
      BY <3>1, <3>2, <3>3, <3>4 DEF Begun, FirstRecordErases
    <3>5. CASE r[1] # APP_ADDR
      BY <3>1, <3>3, <3>5 DEF Begun, FirstRecordErases
    <3> QED BY <3>4, <3>5
  <2> QED BY <2>1, <2>2
<1> QED BY <1>2, <1>3, <1>4 DEF SInv

LEMMA EndSteps ==
  ASSUME IInv, SInv, Return \/ PowerCycle \/ EraseFails
  PROVE  SInv'
<1>1. ~Going'
  BY Zenon DEF Return, PowerCycle, EraseFails, Going
<1>2. Ignored' /\ Emptied' /\ Storing'
  BY <1>1, Zenon DEF Ignored, Emptied, Storing
<1>3. LockDiscipline'
  <2>1. CASE Return
    <3>1. pc' = "idle" /\ locked'
      BY <2>1, Zenon DEF Return
    <3> QED BY <3>1, Zenon DEF LockDiscipline
  <2>2. CASE PowerCycle
    <3>1. pc' = "idle" /\ locked'
      BY <2>2, Zenon DEF PowerCycle
    <3> QED BY <3>1, Zenon DEF LockDiscipline
  <2>3. CASE EraseFails
    <3>1. pc = "erase" /\ pc' = "exit" /\ locked' = locked
      BY <2>3, Zenon DEF EraseFails
    <3>2. ~locked
      BY <3>1 DEF SInv, LockDiscipline
    <3> QED BY <3>1, <3>2 DEF LockDiscipline
  <2> QED BY <2>1, <2>2, <2>3
<1>4. pc' \in {"idle", "exit"}
  BY Zenon DEF Return, PowerCycle, EraseFails
<1>5. Begun'
  BY <1>4 DEF Begun, FirstRecordErases
<1> QED BY <1>2, <1>3, <1>5 DEF SInv

LEMMA EraseStep ==
  ASSUME IInv, SInv, ErasePage
  PROVE  SInv'
<1>1. pc' \in {"erase", "check"} /\ pc = "erase" /\ UNCHANGED <<phy_addr, buf, req>>
  BY DEF ErasePage, locals, history
<1>2. ~Going'
  BY <1>1 DEF Going
<1>3. Ignored' /\ Emptied' /\ Storing'
  BY <1>2, Zenon DEF Ignored, Emptied, Storing
<1>4. LockDiscipline'
  BY Zenon DEF ErasePage, LockDiscipline, SInv
<1>5. \A a \in App : a < address' => flash'[a] = ERASED
  <2> SUFFICES ASSUME NEW a \in App, a < address' PROVE flash'[a] = ERASED
    OBVIOUS
  <2>1. a \in Flash /\ a \in Nat
    BY MapFacts, SMT DEF App, Flash
  <2>2. flash'[a] = IF a \in address .. address + FLASH_PAGE_SIZE - 1 THEN ERASED ELSE flash[a]
    BY <2>1 DEF ErasePage
  <2>3. address' = address + FLASH_PAGE_SIZE /\ address \in Nat /\ FLASH_PAGE_SIZE \in Nat
    BY PageAssumption DEF ErasePage, IInv, TypeOK
  <2>4. a < address => flash[a] = ERASED
    BY <1>1 DEF SInv, Begun
  <2>5. a < address \/ a \in address .. address + FLASH_PAGE_SIZE - 1
    BY <2>1, <2>3, SMT
  <2> QED BY <2>2, <2>4, <2>5
<1>6. pc' = "check" => \A a \in App : flash'[a] = ERASED
  <2>1. pc' = "check" => ~(address' < FLASH_END) /\ address' \in Nat
    BY PageAssumption DEF ErasePage, IInv, TypeOK
  <2>2. \A a \in App : a < FLASH_END /\ a \in Nat
    BY MapFacts, SMT DEF App
  <2> QED BY <1>5, <2>1, <2>2, MapFacts
<1>7. req[1] = APP_ADDR /\ req = <<phy_addr, buf>>
  BY <1>1 DEF SInv, Begun
<1>8. Begun'
  BY <1>1, <1>5, <1>6, <1>7 DEF Begun, FirstRecordErases
<1> QED BY <1>3, <1>4, <1>8 DEF SInv

\* The bounds check passes every record that is inside.
LEMMA HeldInRange ==
  ASSUME IInv, req = <<phy_addr, buf>>, Held
  PROVE  InRange
<1>1. /\ phy_addr \in Nat /\ Len(buf) \in Nat /\ phy_addr >= APP_ADDR
      /\ phy_addr + Len(buf) <= FLASH_END
  BY LenProperties DEF Held, ReqEnd, IInv, TypeOK, Address
<1>2. /\ phy_addr + Len(buf) \in Nat /\ phy_addr + Len(buf) < ADDRESS_SPACE
      /\ phy_addr + Len(buf) < 2 * ADDRESS_SPACE
  BY <1>1, MapFacts, SMT
<1>3. (phy_addr + Len(buf)) % ADDRESS_SPACE = phy_addr + Len(buf)
  BY <1>2, WrapOnce, MapFacts
<1> QED BY <1>1, <1>3 DEF InRange

\* Where the record goes nothing is touched but its own words.
LEMMA TouchedWord ==
  ASSUME NEW w \in Nat, w % 4 = 0, NEW p \in Nat, p >= w, p < w + 4,
         req[1] \in Nat, Len(req[2]) \in Nat, req[2] # <<>>,
         p >= req[1], p < ReqEnd,
         NEW a \in Flash, a >= w, a < w + 4
  PROVE  a \in Touched
<1>1. a \in Nat /\ FLASH_BASE \in Nat
  BY MapFacts, SMT DEF Flash
<1>2. a \div 4 = p \div 4
  <2>1. PICK q \in Nat : w = 4 * q
    <3>1. w \div 4 \in Nat /\ w = 4 * (w \div 4)
      BY SMT
    <3> QED BY <3>1
  <2>2. a \div 4 = q
    BY <1>1, <2>1, SMT
  <2>3. p \div 4 = q
    BY <2>1, SMT
  <2> QED BY <2>2, <2>3
<1>3. req[1] \div 4 <= p \div 4 /\ p \div 4 <= (ReqEnd - 1) \div 4
  <2>1. req[1] \in Nat /\ ReqEnd \in Nat /\ p <= ReqEnd - 1
    BY SMT DEF ReqEnd
  <2>2. \A x, y \in Nat : x <= y => x \div 4 <= y \div 4
    BY SMT
  <2>3. ReqEnd - 1 \in Nat
    BY <2>1, SMT
  <2> QED BY <2>1, <2>2, <2>3
<1>4. a \div 4 \in req[1] \div 4 .. (ReqEnd - 1) \div 4
  <2>1. req[1] \div 4 \in Int /\ (ReqEnd - 1) \div 4 \in Int /\ p \div 4 \in Int
    BY SMT DEF ReqEnd
  <2> QED BY <1>2, <1>3, <2>1
<1> QED BY <1>4 DEF Touched

\* The bounds check begins the programming, or ends the call.
LEMMA CheckStep ==
  ASSUME IInv, SInv, CheckRange
  PROVE  SInv'
<1>1. /\ pc = "check" /\ pc' = (IF InRange THEN "head" ELSE "exit") /\ before' = flash /\ flash' = flash
      /\ UNCHANGED <<locked, phy_addr, buf, word, return_status, req, fault>>
  BY DEF CheckRange, locals
<1>2. /\ req = <<phy_addr, buf>> /\ req[1] = phy_addr /\ req[2] = buf
      /\ phy_addr \in Address /\ phy_addr \in Nat /\ buf \in Seq(Byte) /\ Len(buf) \in Nat
      /\ Len(buf) <= FLASH_BASE /\ Len(buf) <= ADDRESS_SPACE - FLASH_END
  BY <1>1, LenProperties DEF SInv, Begun, IInv, TypeOK, WordsPlaced, Address
<1>3. word.index = 2 /\ ~(word.index < 2)
  BY <1>1 DEF IInv, WordsPlaced
<1>4. LockDiscipline'
  <2>1. ~locked
    BY <1>1 DEF SInv, LockDiscipline
  <2>2. pc' \in {"head", "exit"} /\ locked' = locked
    BY <1>1
  <2> QED BY <2>1, <2>2 DEF LockDiscipline
<1>5. Begun'
  <2>1. req[1] = APP_ADDR => \A a \in App : before'[a] = ERASED
    BY <1>1 DEF SInv, Begun
  <2>2. pc' \in {"head", "exit"}
    BY <1>1
  <2> QED BY <1>1, <1>2, <2>1, <2>2 DEF Begun, FirstRecordErases
<1>6. Ignored'
  <2> SUFFICES ASSUME ~Held
               PROVE  pc' # "exit" => Away(phy_addr, Len(buf))
    BY <1>1, <1>3 DEF Ignored, Held, ReqEnd, Away
  <2> SUFFICES ASSUME InRange PROVE Away(phy_addr, Len(buf))
    BY <1>1
  <2>1. phy_addr >= APP_ADDR /\ Placed(phy_addr, Len(buf))
    BY <1>2, InRangePlaced
  <2> QED BY <2>1, <1>2 DEF Placed, Away, Held, ReqEnd
<1>7. Emptied'
  BY <1>1, <1>2, <1>3 DEF Emptied
<1>8. Storing'
  <2> SUFFICES ASSUME Storable'
               PROVE  /\ Follows' /\ pc' # "exit"
                      /\ \A a \in Flash : (Coming(a))' = (Patched[a])'
                      /\ \A a \in Touched' : flash'[a] = ERASED
    BY <1>1, <1>3 DEF Storing, InWord
  <2>1. Held
    BY <1>1 DEF Storable, Held, ReqEnd
  <2>2. pc' # "exit"
    BY <1>1, <1>2, <2>1, HeldInRange
  <2>3. Follows'
    BY <1>1, <1>2, SMT DEF Follows, ReqEnd
  <2>4. \A a \in Touched' : flash'[a] = ERASED
    BY <1>1 DEF Storable
  <2>5. \A a \in Flash : (Coming(a))' = (Patched[a])'
    <3> SUFFICES ASSUME NEW a \in Flash PROVE (Coming(a))' = (Patched[a])'
      OBVIOUS
    <3>1. a \in Nat
      BY MapFacts, SMT DEF Flash
    <3>2. (Coming(a))' = IF a >= phy_addr /\ a < phy_addr + Len(buf)
                         THEN buf[a - phy_addr + 1] ELSE flash[a]
      BY <1>1, <1>3 DEF Coming, InBuffer, InWord
    <3>3. (Patched[a])' = IF a \in phy_addr .. phy_addr + Len(buf) - 1
                          THEN buf[a - phy_addr + 1] ELSE flash[a]
      BY <1>1, <1>2 DEF Patched, ReqEnd
    <3>4. a >= phy_addr /\ a < phy_addr + Len(buf) <=> a \in phy_addr .. phy_addr + Len(buf) - 1
      BY <1>2, <3>1, SMT
    <3> QED BY <3>2, <3>3, <3>4
  <2> QED BY <2>2, <2>3, <2>4, <2>5
<1> QED BY <1>4, <1>5, <1>6, <1>7, <1>8 DEF SInv

\* The half-word under way: where it is and what it holds.
LEMMA HalfPlace ==
  ASSUME IInv, word.index < 2
  PROVE  /\ word.index \in {0, 1} /\ word.addr \in Nat /\ word.addr % 4 = 0
         /\ word.addr + 4 <= ADDRESS_SPACE
         /\ HalfAddress = word.addr + (2 * word.index)
         /\ HalfBytes[1] = word.bytes[(2 * word.index) + 1]
         /\ HalfBytes[2] = word.bytes[(2 * word.index) + 2]
<1>1. /\ word.addr \in Nat /\ word.addr < ADDRESS_SPACE /\ word.index \in {0, 1}
      /\ word.bytes \in [1..4 -> Byte] /\ word.addr % 4 = 0
  BY MapFacts, SMT DEF IInv, TypeOK, WordsPlaced, Address
<1>2. word.addr + 4 <= ADDRESS_SPACE
  BY <1>1, MapFacts, SMT
<1>3. CASE word.index = 0
  <2>1. word.addr + (2 * word.index) = word.addr /\ 2 * word.index = 0
    BY <1>1, <1>3
  <2>6. HalfAddress = word.addr + (2 * word.index)
    <3>1. (word.addr + (2 * word.index)) % ADDRESS_SPACE = word.addr + (2 * word.index)
      <4>1. word.addr + (2 * word.index) \in Nat /\ word.addr + (2 * word.index) < ADDRESS_SPACE
        BY <1>1, <2>1
      <4> QED BY <4>1, WrapOnce, MapFacts
    <3> QED BY <3>1 DEF HalfAddress
  <2>2. HalfAddress = word.addr
    BY <2>1, <2>6
  <2>3. \A i \in 1 .. 2 : word.bytes[i] \in Byte
    BY <1>1
  <2>4. HalfBytes = SubSeq(word.bytes, 1, 2)
    BY <1>3 DEF HalfBytes
  <2>5. \A i \in 1 .. 2 : SubSeq(word.bytes, 1, 2)[i] = word.bytes[i]
    BY <2>3, SubSeqProperties
  <2> QED BY <1>1, <1>2, <1>3, <2>1, <2>2, <2>4, <2>5
<1>4. CASE word.index = 1
  <2>1. word.addr + (2 * word.index) = word.addr + 2 /\ 2 * word.index = 2
    BY <1>1, <1>4
  <2>2. word.addr + 2 \in Nat /\ word.addr + 2 < ADDRESS_SPACE
    BY <1>1, <1>2, MapFacts, SMT
  <2>3. HalfAddress = word.addr + 2
    <3>1. (word.addr + (2 * word.index)) % ADDRESS_SPACE = word.addr + (2 * word.index)
      <4>1. word.addr + (2 * word.index) \in Nat /\ word.addr + (2 * word.index) < ADDRESS_SPACE
        BY <2>1, <2>2
      <4> QED BY <4>1, WrapOnce, MapFacts
    <3> QED BY <2>1, <3>1 DEF HalfAddress
  <2>4. \A i \in 3 .. 4 : word.bytes[i] \in Byte
    BY <1>1
  <2>5. HalfBytes = SubSeq(word.bytes, 3, 4)
    BY <1>4 DEF HalfBytes
  <2>6. \A i \in 1 .. 2 : SubSeq(word.bytes, 3, 4)[i] = word.bytes[3 + i - 1]
    BY <2>4, SubSeqProperties
  <2>7. HalfBytes[1] = word.bytes[3] /\ HalfBytes[2] = word.bytes[4]
    BY <2>5, <2>6
  <2> QED BY <1>1, <1>2, <1>4, <2>1, <2>3, <2>7
<1> QED BY <1>1, <1>3, <1>4

\* What the four ways through a half-word have in common.
LEMMA HalfFrame ==
  ASSUME IInv, SInv, ProgramHalf \/ ProgramRefused \/ ProgramFails \/ ProgramStray
  PROVE  /\ word.index < 2 /\ pc \in {"body", "exit", "fault"}
         /\ UNCHANGED <<phy_addr, buf, req, before, locked, return_status>>
         /\ pc' = pc \/ (pc' = "fault" /\ word' = NoWord)
         /\ word' = NoWord \/ (word.index = 0 /\ word' = [word EXCEPT !.index = 1])
         /\ Going' => Going
         /\ LockDiscipline' /\ Begun'
<1>1. /\ word.index < 2
      /\ UNCHANGED <<phy_addr, buf, req, before, locked, return_status>>
      /\ pc' = pc \/ (pc' = "fault" /\ word' = NoWord)
      /\ word' = NoWord \/ (word.index = 0 /\ word' = [word EXCEPT !.index = 1])
  BY DEF ProgramHalf, ProgramRefused, ProgramFails, ProgramStray, NextHalf, locals, history
<1>2. pc \in {"body", "exit", "fault"}
  BY <1>1 DEF IInv, TypeOK, WordsPlaced
<1>3. Going' => Going
  BY <1>1, Zenon DEF Going
<1>4. LockDiscipline'
  <2>1. pc' \notin {"idle", "fault"} => pc' = pc
    BY <1>1, Zenon
  <2>2. pc' # "idle"
    BY <1>1, <1>2, Zenon
  <2> QED BY <1>1, <2>1, <2>2, Zenon DEF SInv, LockDiscipline
<1>5. Begun'
  <2>1. pc' \in {"body", "exit", "fault"} /\ (pc' = "body" => pc = "body")
    BY <1>1, <1>2
  <2> QED BY <1>1, <2>1 DEF SInv, Begun, FirstRecordErases
<1> QED BY <1>1, <1>2, <1>3, <1>4, <1>5

\* The word after the step.
LEMMA HalfWord ==
  ASSUME IInv, word.index < 2,
         word' = NoWord \/ (word.index = 0 /\ word' = [word EXCEPT !.index = 1])
  PROVE  /\ word'.index < 2 => /\ word.index = 0 /\ word'.index = 1 /\ word'.addr = word.addr
                              /\ word'.bytes = word.bytes
<1>1. CASE word' = NoWord
  BY <1>1, NoWordIndex
<1>2. CASE word.index = 0 /\ word' = [word EXCEPT !.index = 1]
  BY <1>2 DEF IInv, TypeOK
<1> QED BY <1>1, <1>2

LEMMA HalfIgnored ==
  ASSUME IInv, SInv, ProgramHalf \/ ProgramRefused \/ ProgramFails \/ ProgramStray
  PROVE  Ignored'
<1> SUFFICES ASSUME Going', ~Held' PROVE Ignored'
  BY DEF Ignored
<1>1. Going /\ ~Held /\ Ignored
  BY HalfFrame DEF Held, ReqEnd, SInv
<1>2. flash = before /\ Away(word.addr, 4) /\ (pc # "exit" => Away(phy_addr, Len(buf)))
  BY <1>1, HalfFrame DEF Ignored
<1>3. HalfAddress \notin Flash
  BY <1>2, HalfFrame, HalfPlace, MapFacts, SMT DEF Away, Flash
<1>4. flash' = flash
  BY <1>3 DEF ProgramHalf, ProgramRefused, ProgramFails, ProgramStray
<1>5. word'.index < 2 => word'.addr = word.addr
  BY HalfFrame, HalfWord
<1>6. pc' # "exit" => pc # "exit"
  BY HalfFrame DEF Going
<1>7. UNCHANGED <<phy_addr, buf, before>>
  BY HalfFrame
<1> QED BY <1>2, <1>4, <1>5, <1>6, <1>7 DEF Ignored, Away

LEMMA HalfEmptied ==
  ASSUME IInv, SInv, ProgramHalf \/ ProgramRefused \/ ProgramFails \/ ProgramStray
  PROVE  Emptied'
<1> SUFFICES ASSUME Going', req'[2] = <<>> PROVE Emptied'
  BY DEF Emptied
<1>1. Going /\ req[2] = <<>> /\ Emptied
  BY HalfFrame DEF SInv
<1>2. flash = before /\ buf = <<>> /\ \A i \in 1 .. 4 : word.bytes[i] = ERASED
  BY <1>1, HalfFrame DEF Emptied
<1>3. HalfBytes[1] = ERASED /\ HalfBytes[2] = ERASED
  BY <1>2, HalfFrame, HalfPlace
<1>4. flash' = flash
  <2>1. CASE ProgramHalf
    <3>1. HalfBytes # <<0, 0>>
      BY <1>3, ByteAssumption
    <3>2. flash[HalfAddress] = ERASED /\ flash[HalfAddress + 1] = ERASED
      BY <2>1, <3>1 DEF ProgramHalf, Programmable
    <3>3. flash' = [flash EXCEPT ![HalfAddress] = ERASED, ![HalfAddress + 1] = ERASED]
      BY <2>1, <1>3 DEF ProgramHalf
    <3>4. flash \in [Flash -> Byte]
      BY DEF IInv, TypeOK
    <3> QED BY <3>2, <3>3, <3>4
  <2>2. CASE ~ProgramHalf
    BY <2>2 DEF ProgramRefused, ProgramFails, ProgramStray
  <2> QED BY <2>1, <2>2
<1>5. word'.index < 2 => word'.bytes = word.bytes
  BY HalfFrame, HalfWord
<1>6. UNCHANGED <<buf, before>>
  BY HalfFrame
<1> QED BY <1>2, <1>4, <1>5, <1>6 DEF Emptied

LEMMA HalfStoring ==
  ASSUME IInv, SInv, ProgramHalf \/ ProgramRefused \/ ProgramFails \/ ProgramStray
  PROVE  Storing'
<1> SUFFICES ASSUME Going', Storable' PROVE Storing'
  BY DEF Storing
<1>0. /\ word.index < 2 /\ UNCHANGED <<phy_addr, buf, req, before>>
      /\ word' = NoWord \/ (word.index = 0 /\ word' = [word EXCEPT !.index = 1])
  BY HalfFrame
<1>1. /\ Going /\ Held' = Held /\ ReqEnd' = ReqEnd /\ Touched' = Touched /\ fault' = FALSE
  BY <1>0, HalfFrame DEF Held, ReqEnd, Touched, Storable
<1>2. ~ProgramFails /\ fault' = fault
  <2>1. ~ProgramFails
    BY <1>1, Zenon DEF ProgramFails
  <2>2. ProgramHalf \/ ProgramRefused \/ ProgramStray => fault' = fault
    BY Zenon DEF ProgramHalf, ProgramRefused, ProgramStray, history
  <2> QED BY <2>1, <2>2, Zenon
<1>3. Storable
  BY <1>0, <1>1, <1>2 DEF Storable
<1>4. /\ Follows /\ (pc = "exit" => buf = <<>>)
      /\ word.addr >= APP_ADDR /\ word.addr + 4 <= FLASH_END
      /\ buf = <<>> \/ phy_addr >= word.addr + 4
      /\ \A a \in Flash : Coming(a) = Patched[a]
      /\ \A a \in Flash : InWord(a) => flash[a] = ERASED
      /\ \A a \in Touched : a >= phy_addr /\ buf # <<>> => flash[a] = ERASED
  BY <1>0, <1>1, <1>3 DEF SInv, Storing
<1>5. /\ word.index \in {0, 1} /\ word.addr \in Nat
      /\ HalfAddress = word.addr + (2 * word.index)
      /\ HalfBytes[1] = word.bytes[(2 * word.index) + 1]
      /\ HalfBytes[2] = word.bytes[(2 * word.index) + 2]
  BY <1>0, HalfPlace
<1>6. /\ HalfAddress \in Flash /\ HalfAddress + 1 \in Flash /\ HalfAddress \in Nat
      /\ InWord(HalfAddress) /\ InWord(HalfAddress + 1)
  <2>1. /\ HalfAddress \in Nat /\ HalfAddress >= word.addr
        /\ HalfAddress + 1 < word.addr + 4
    BY <1>5, SMT
  <2>2. word.index < 2
    BY <1>5, SMT
  <2>3. HalfAddress >= FLASH_BASE /\ HalfAddress + 1 < FLASH_END
    BY <1>4, <1>5, <2>1, MapFacts, SMT
  <2> QED BY <1>5, <2>1, <2>2, <2>3, MapFacts, SMT DEF Flash, InWord
<1>7. Programmable
  BY <1>4, <1>6 DEF Programmable
<1>8. ProgramHalf
  BY <1>2, <1>6, <1>7 DEF ProgramRefused, ProgramStray
<1>9. \A a \in Flash : flash'[a] = IF a = HalfAddress + 1 THEN HalfBytes[2]
                                   ELSE IF a = HalfAddress THEN HalfBytes[1] ELSE flash[a]
  <2>1. flash' = [flash EXCEPT ![HalfAddress] = HalfBytes[1], ![HalfAddress + 1] = HalfBytes[2]]
    BY <1>8 DEF ProgramHalf
  <2>2. flash \in [Flash -> Byte]
    BY DEF IInv, TypeOK
  <2> QED BY <1>6, <2>1, <2>2
<1>10. ASSUME NEW a \in Flash
       PROVE  /\ InWord(a)' => InWord(a) /\ a # HalfAddress /\ a # HalfAddress + 1
                                /\ word'.bytes = word.bytes /\ word'.addr = word.addr
              /\ InWord(a) /\ ~InWord(a)' => a = HalfAddress \/ a = HalfAddress + 1
              /\ a = HalfAddress \/ a = HalfAddress + 1 => InWord(a) /\ a < word.addr + 4
  <2>1. a \in Nat
    BY MapFacts, SMT DEF Flash
  <2>2. word'.index < 2 => /\ word.index = 0 /\ word'.index = 1 /\ word'.addr = word.addr
                           /\ word'.bytes = word.bytes
    BY <1>0, HalfWord
  <2>3. InWord(a)' => InWord(a) /\ a # HalfAddress /\ a # HalfAddress + 1
                      /\ word'.bytes = word.bytes /\ word'.addr = word.addr
    <3> SUFFICES ASSUME InWord(a)' 
                 PROVE InWord(a) /\ a # HalfAddress /\ a # HalfAddress + 1
                      /\ word'.bytes = word.bytes /\ word'.addr = word.addr
      OBVIOUS
    <3>1. word'.index < 2 /\ a >= word'.addr + (2 * word'.index) /\ a < word'.addr + 4
      BY DEF InWord
    <3>2. a >= word.addr + 2 /\ a < word.addr + 4 /\ word.index = 0
      BY <2>2, <3>1
    <3>3. HalfAddress = word.addr
      BY <1>5, <3>2
    <3> QED BY <1>0, <1>5, <2>1, <2>2, <3>1, <3>2, <3>3 DEF InWord
  <2>4. InWord(a) /\ ~InWord(a)' => a = HalfAddress \/ a = HalfAddress + 1
    <3> SUFFICES ASSUME InWord(a), a # HalfAddress, a # HalfAddress + 1 PROVE InWord(a)'
      OBVIOUS
    <3>1. a >= HalfAddress + 2 /\ a < word.addr + 4
      BY <1>5, <2>1 DEF InWord
    <3>2. word.index = 0
      BY <1>5, <2>1, <3>1
    <3>3. word' = [word EXCEPT !.index = 1]
      BY <1>8, <3>2 DEF ProgramHalf, NextHalf
    <3>4. word'.index = 1 /\ word'.addr = word.addr
      BY <3>3 DEF IInv, TypeOK
    <3>5. HalfAddress = word.addr
      BY <1>5, <3>2
    <3> QED BY <3>1, <3>4, <3>5 DEF InWord
  <2>5. a = HalfAddress \/ a = HalfAddress + 1 => InWord(a) /\ a < word.addr + 4
    BY <1>6 DEF InWord
  <2> QED BY <2>3, <2>4, <2>5
<1>11. ASSUME NEW a \in Flash PROVE (Coming(a))' = (Patched[a])'
  <2>1. (Patched[a])' = Patched[a]
    BY <1>0, <1>1 DEF Patched
  <2>2. InBuffer(a)' <=> InBuffer(a)
    BY <1>0 DEF InBuffer
  <2>3. Coming(a) = Patched[a]
    BY <1>4
  <2>4. CASE InBuffer(a)
    BY <1>0, <2>1, <2>2, <2>3, <2>4 DEF Coming
  <2>5. CASE ~InBuffer(a) /\ InWord(a)'
    <3>1. InWord(a) /\ word'.bytes = word.bytes /\ word'.addr = word.addr
      BY <1>10, <2>5
    <3> QED BY <2>1, <2>2, <2>3, <2>5, <3>1 DEF Coming
  <2>6. CASE ~InBuffer(a) /\ ~InWord(a)' /\ ~InWord(a)
    <3>1. flash'[a] = flash[a]
      BY <1>9, <1>10, <2>6
    <3> QED BY <2>1, <2>2, <2>3, <2>6, <3>1 DEF Coming
  <2>7. CASE ~InBuffer(a) /\ ~InWord(a)' /\ InWord(a)
    <3>1. a = HalfAddress \/ a = HalfAddress + 1
      BY <1>10, <2>7
    <3>2. (Coming(a))' = flash'[a] /\ Coming(a) = word.bytes[a - word.addr + 1]
      BY <2>2, <2>7 DEF Coming
    <3>3. flash'[a] = word.bytes[a - word.addr + 1]
      <4>1. CASE a = HalfAddress
        <5>1. flash'[a] = HalfBytes[1] /\ a - word.addr + 1 = (2 * word.index) + 1
          BY <1>5, <1>6, <1>9, <4>1
        <5> QED BY <1>5, <5>1
      <4>2. CASE a = HalfAddress + 1
        <5>1. flash'[a] = HalfBytes[2] /\ a - word.addr + 1 = (2 * word.index) + 2
          BY <1>5, <1>6, <1>9, <4>2
        <5> QED BY <1>5, <5>1
      <4> QED BY <3>1, <4>1, <4>2
    <3> QED BY <2>1, <2>3, <3>2, <3>3
  <2> QED BY <2>4, <2>5, <2>6, <2>7
<1>12. \A a \in Flash : InWord(a)' => flash'[a] = ERASED
  BY <1>4, <1>9, <1>10
<1>13. \A a \in Touched' : a >= phy_addr' /\ buf' # <<>> => flash'[a] = ERASED
  <2> SUFFICES ASSUME NEW a \in Touched, a >= phy_addr, buf # <<>> PROVE flash'[a] = ERASED
    BY <1>0, <1>1
  <2>1. a \in Flash /\ a \in Nat
    BY MapFacts, SMT DEF Touched, Flash
  <2>2. phy_addr \in Nat /\ phy_addr >= word.addr + 4
    BY <1>4 DEF IInv, TypeOK, Address
  <2>3. ~(a < word.addr + 4)
    BY <1>5, <2>1, <2>2, SMT
  <2>4. a # HalfAddress /\ a # HalfAddress + 1
    BY <1>10, <2>1, <2>3
  <2> QED BY <1>4, <1>9, <2>1, <2>4
<1>14. word'.index < 2 => word'.addr = word.addr
  BY <1>0, HalfWord
<1>15. Follows' /\ (pc' = "exit" => buf' = <<>>)
  <2>1. pc' = "exit" => pc = "exit"
    BY HalfFrame
  <2>2. Follows' <=> Follows
    BY <1>0, <1>1 DEF Follows
  <2> QED BY <1>0, <1>4, <2>1, <2>2
<1> QED BY <1>0, <1>4, <1>11, <1>12, <1>13, <1>14, <1>15 DEF Storing

-----------------------------------------------------------------------------
\* A word goes to HAL_FLASH_Program: n bytes of the buffer, off bytes into it.
GoesOut(n, off) ==
  /\ off = phy_addr % 4
  /\ off + n = 4 \/ (n = Len(buf) /\ off + n < 4)
  /\ word'.addr = phy_addr - off /\ word'.index = 0
  /\ \A i \in 1 .. 4 : word'.bytes[i] = IF i > off /\ i <= off + n THEN buf[i - off] ELSE ERASED
  /\ Advance(n)
  /\ pc' = "exit" => n = Len(buf)
  /\ pc = "head" => off # 0
  /\ buf = <<>> => pc = "head"

LEMMA WordFrame ==
  ASSUME IInv, SInv, ProgramHead \/ ProgramBody \/ ProgramTail
  PROVE  /\ UNCHANGED <<flash, before, req, fault, return_status, locked>>
         /\ pc \in {"head", "body"} /\ pc' \in {"body", "exit"} /\ word.index = 2
         /\ pc = "head" => pc' = "body"
         /\ Going /\ LockDiscipline' /\ Begun'
<1>1. /\ UNCHANGED <<flash, before, req, fault, return_status, locked>>
      /\ pc \in {"head", "body"} /\ pc' \in {"body", "exit"}
      /\ pc = "head" => pc' = "body"
  BY DEF ProgramHead, ProgramBody, ProgramTail, history
<1>2. word.index = 2
  BY DEF ProgramHead, ProgramBody, ProgramTail, IInv, WordsPlaced
<1>3. LockDiscipline'
  <2>1. ~locked
    BY <1>1 DEF SInv, LockDiscipline
  <2> QED BY <1>1, <2>1 DEF LockDiscipline
<1>4. Begun'
  BY <1>1 DEF SInv, Begun, FirstRecordErases
<1>5. Going
  BY <1>1 DEF Going
<1> QED BY <1>1, <1>2, <1>3, <1>4, <1>5

LEMMA PaddedBytes ==
  ASSUME NEW off \in 0 .. 3, NEW n \in 0 .. Len(buf), buf \in Seq(Byte), NEW i \in 1 .. 4
  PROVE  Padded(off, SubSeq(buf, 1, n))[i] = IF i > off /\ i <= off + n THEN buf[i - off] ELSE ERASED
<1>1. Len(buf) \in Nat
  BY LenProperties
<1>2. \A j \in 1 .. n : buf[j] \in Byte
  BY <1>1, ElementOfSeq
<1>3. /\ Len(SubSeq(buf, 1, n)) = n
      /\ \A j \in 1 .. n : SubSeq(buf, 1, n)[j] = buf[j]
  <2>1. Len(SubSeq(buf, 1, n)) = (IF 1 <= n THEN n - 1 + 1 ELSE 0)
        /\ \A j \in 1 .. n - 1 + 1 : SubSeq(buf, 1, n)[j] = buf[1 + j - 1]
    BY <1>1, <1>2, SubSeqProperties
  <2>2. n - 1 + 1 = n /\ \A j \in 1 .. n : 1 + j - 1 = j
    BY <1>1, SMT
  <2> QED BY <1>1, <2>1, <2>2
<1>4. CASE i > off /\ i <= off + n
  <2>1. i - off \in 1 .. n
    BY <1>1, <1>4
  <2> QED BY <1>3, <1>4, <2>1 DEF Padded
<1>5. CASE ~(i > off /\ i <= off + n)
  BY <1>3, <1>5 DEF Padded
<1> QED BY <1>4, <1>5

LEMMA WordChoice ==
  ASSUME IInv, SInv, ProgramHead \/ ProgramBody \/ ProgramTail
  PROVE  \/ UNCHANGED <<word, phy_addr, buf>> /\ (pc' = "exit" => buf = <<>>)
         \/ \E n \in 0 .. Len(buf), off \in 0 .. 3 : GoesOut(n, off)
<1>1. /\ buf \in Seq(Byte) /\ Len(buf) \in Nat /\ phy_addr \in Nat
      /\ pc = "body" => phy_addr % 4 = 0 \/ buf = <<>>
  BY LenProperties DEF IInv, TypeOK, WordsPlaced, Address
<1>2. /\ phy_addr % 4 \in 0 .. 3
  BY <1>1, SMT
<1>3. CASE ProgramHead
  <2> DEFINE off == phy_addr % 4
             n == Smaller(Len(buf), 4 - off)
  <2>1. CASE UNCHANGED <<word, locals>>
    BY <1>3, <2>1 DEF ProgramHead, locals
  <2>2. CASE off # 0 /\ BeginWord(phy_addr - off, Padded(off, SubSeq(buf, 1, n))) /\ Advance(n)
    <3>1. off \in 0 .. 3
      BY <1>2
    <3>2. n \in 0 .. Len(buf) /\ (off + n = 4 \/ (n = Len(buf) /\ off + n < 4))
      <4> HIDE DEF off
      <4> QED BY <1>1, <3>1, SMT DEF Smaller
    <3>3. /\ word'.addr = phy_addr - off /\ word'.index = 0
          /\ word'.bytes = Padded(off, SubSeq(buf, 1, n))
      BY <2>2 DEF BeginWord
    <3>4. \A i \in 1 .. 4 : word'.bytes[i] = IF i > off /\ i <= off + n THEN buf[i - off] ELSE ERASED
      <4> HIDE DEF off, n
      <4> QED BY <1>1, <3>1, <3>2, <3>3, PaddedBytes
    <3>5. pc = "head" /\ pc' # "exit"
      BY <1>3 DEF ProgramHead
    <3>6. off = phy_addr % 4 /\ Advance(n) /\ off # 0
      BY <2>2
    <3> HIDE DEF off, n
    <3>7. GoesOut(n, off)
      BY <3>2, <3>3, <3>4, <3>5, <3>6, Zenon DEF GoesOut
    <3> QED BY <3>1, <3>2, <3>7, Zenon
  <2> QED BY <1>3, <2>1, <2>2 DEF ProgramHead
<1>4. CASE ProgramBody
  <2>1. pc = "body" /\ pc' = "body" /\ Len(buf) >= 4
        /\ BeginWord(phy_addr, SubSeq(buf, 1, 4)) /\ Advance(4)
    BY <1>4 DEF ProgramBody
  <2>2. buf # <<>>
    BY <2>1, EmptySeq
  <2>3. phy_addr % 4 = 0 /\ phy_addr - 0 = phy_addr
    BY <1>1, <2>1, <2>2
  <2>4. 4 \in 0 .. Len(buf) /\ 0 \in 0 .. 3 /\ 0 + 4 = 4
    BY <1>1, <2>1
  <2>5. word'.addr = phy_addr - 0 /\ word'.index = 0 /\ word'.bytes = SubSeq(buf, 1, 4)
    BY <2>1, <2>3 DEF BeginWord
  <2>6. \A i \in 1 .. 4 : word'.bytes[i] = IF i > 0 /\ i <= 0 + 4 THEN buf[i - 0] ELSE ERASED
    <3>1. \A j \in 1 .. 4 : buf[j] \in Byte
      BY <1>1, <2>4, ElementOfSeq
    <3>2. \A i \in 1 .. 4 - 1 + 1 : SubSeq(buf, 1, 4)[i] = buf[1 + i - 1]
      BY <3>1, SubSeqProperties
    <3>3. \A i \in 1 .. 4 : i \in 1 .. 4 - 1 + 1 /\ 1 + i - 1 = i /\ i - 0 = i /\ i > 0 /\ i <= 0 + 4
      BY SMT
    <3> QED BY <2>5, <3>2, <3>3
  <2>7. GoesOut(4, 0)
    <3>1. pc # "head"
      BY <2>1
    <3> QED BY <2>1, <2>2, <2>3, <2>4, <2>5, <2>6, <3>1 DEF GoesOut
  <2> QED BY <2>4, <2>7
<1>5. CASE ProgramTail
  <2>1. pc = "body" /\ pc' = "exit" /\ Len(buf) < 4
    BY <1>5 DEF ProgramTail
  <2>2. CASE buf = <<>> /\ UNCHANGED <<word, locals>>
    BY <2>2 DEF locals
  <2>3. CASE buf # <<>> /\ BeginWord(phy_addr, Padded(0, buf)) /\ Advance(Len(buf))
    <3>1. phy_addr % 4 = 0 /\ phy_addr - 0 = phy_addr
      BY <1>1, <2>1, <2>3
    <3>2. Len(buf) \in 0 .. Len(buf) /\ 0 \in 0 .. 3 /\ 0 + Len(buf) < 4 /\ 0 + Len(buf) = Len(buf)
      BY <1>1, <2>1
    <3>3. word'.addr = phy_addr - 0 /\ word'.index = 0 /\ word'.bytes = Padded(0, buf)
      BY <2>3, <3>1 DEF BeginWord
    <3>4. \A i \in 1 .. 4 : word'.bytes[i] = IF i > 0 /\ i <= 0 + Len(buf) THEN buf[i - 0] ELSE ERASED
      BY <3>3 DEF Padded
    <3>5. GoesOut(Len(buf), 0)
      BY <2>1, <2>3, <3>1, <3>2, <3>3, <3>4 DEF GoesOut
    <3> QED BY <3>2, <3>5
  <2> QED BY <1>5, <2>2, <2>3 DEF ProgramTail
<1> QED BY <1>3, <1>4, <1>5

\* The word starts at a word boundary, and the rest comes after it.
LEMMA WordFacts ==
  ASSUME IInv, NEW n \in 0 .. Len(buf), NEW off \in 0 .. 3, GoesOut(n, off)
  PROVE  /\ phy_addr \in Nat /\ phy_addr < ADDRESS_SPACE /\ Len(buf) \in Nat /\ n \in Nat
         /\ n <= Len(buf)
         /\ word'.addr = phy_addr - off /\ word'.addr \in Nat /\ word'.addr % 4 = 0
         /\ off + n <= 4 /\ (off + n = 4 \/ n = Len(buf))
         /\ buf' \in Seq(Byte) /\ Len(buf') = Len(buf) - n
         /\ \A j \in 1 .. Len(buf) - n : buf'[j] = buf[j + n]
         /\ phy_addr' = (phy_addr + n) % ADDRESS_SPACE
<1>1. /\ phy_addr \in Nat /\ phy_addr < ADDRESS_SPACE /\ buf \in Seq(Byte) /\ Len(buf) \in Nat
      /\ n \in Nat /\ n <= Len(buf)
  BY LenProperties, MapFacts, SMT DEF IInv, TypeOK, Address
<1>2. off = phy_addr % 4
  BY DEF GoesOut
<1>3. phy_addr - off \in Nat /\ (phy_addr - off) % 4 = 0
  BY <1>1, <1>2, Rounding
<1>4. word'.addr = phy_addr - off /\ Advance(n) /\ (off + n = 4 \/ (n = Len(buf) /\ off + n < 4))
  BY DEF GoesOut
<1>5. buf' \in Seq(Byte) /\ Len(buf') = Len(buf) - n
  BY <1>1, <1>4, DropBytes DEF Advance
<1>6. \A j \in 1 .. Len(buf) - n : buf'[j] = buf[j + n]
  <2>1. \A i \in (n + 1) .. Len(buf) : buf[i] \in Byte
    BY <1>1, ElementOfSeq
  <2>2. \A j \in 1 .. Len(buf) - (n + 1) + 1 :
          SubSeq(buf, n + 1, Len(buf))[j] = buf[(n + 1) + j - 1]
    BY <1>1, <2>1, SubSeqProperties
  <2>3. \A j \in 1 .. Len(buf) - n : /\ j \in 1 .. Len(buf) - (n + 1) + 1
                                      /\ (n + 1) + j - 1 = j + n
    BY <1>1, SMT
  <2>4. buf' = SubSeq(buf, n + 1, Len(buf))
    BY <1>4 DEF Advance
  <2> QED BY <2>2, <2>3, <2>4
<1>7. off + n <= 4 /\ (off + n = 4 \/ n = Len(buf))
  BY <1>1, <1>4
<1> QED BY <1>1, <1>3, <1>4, <1>5, <1>6, <1>7 DEF Advance

\* Going on by k bytes stays away.
LEMMA AwayAdvance ==
  ASSUME NEW a \in Nat, a < ADDRESS_SPACE, NEW n \in Nat, NEW k \in Nat, k <= n, Away(a, n)
  PROVE  Away((a + k) % ADDRESS_SPACE, n - k)
<1>1. a + k \in Nat /\ a + k < 2 * ADDRESS_SPACE
  BY MapFacts, SMT DEF Away
<1>2. CASE a + k < ADDRESS_SPACE
  <2>1. (a + k) % ADDRESS_SPACE = a + k
    BY <1>1, <1>2, WrapOnce, MapFacts
  <2>2. Away(a + k, n - k)
    BY MapFacts, SMT DEF Away
  <2> QED BY <2>1, <2>2
<1>3. CASE a + k >= ADDRESS_SPACE
  <2>1. (a + k) % ADDRESS_SPACE = (a + k) - ADDRESS_SPACE
    BY <1>1, <1>3, WrapOnce, MapFacts
  <2>2. Away((a + k) - ADDRESS_SPACE, n - k)
    BY <1>3, MapFacts, SMT DEF Away
  <2> QED BY <2>1, <2>2
<1> QED BY <1>1, <1>2, <1>3, MapFacts

\* A word boundary at or before a is at or before the word of a; and the word of
\* an address before a boundary ends by then.
LEMMA Boundary ==
  ASSUME NEW w \in Nat, w % 4 = 0, NEW a \in Nat, NEW off \in 0 .. 3, a = w + off,
         NEW e \in Nat, e % 4 = 0
  PROVE  (e <= a => e <= w) /\ (a < e => w + 4 <= e)
<1>1. PICK q \in Nat : w = 4 * q
  <2>1. w \div 4 \in Nat /\ w = 4 * (w \div 4)
    BY SMT
  <2> QED BY <2>1
<1>2. PICK r \in Nat : e = 4 * r
  <2>1. e \div 4 \in Nat /\ e = 4 * (e \div 4)
    BY SMT
  <2> QED BY <2>1
<1> QED BY <1>1, <1>2, SMT

LEMMA WordIgnored ==
  ASSUME IInv, SInv, ProgramHead \/ ProgramBody \/ ProgramTail
  PROVE  Ignored'
<1> SUFFICES ASSUME Going', ~Held' PROVE Ignored'
  BY DEF Ignored
<1>1. /\ UNCHANGED <<flash, before, req>> /\ word.index = 2 /\ pc \in {"head", "body"} /\ Going
  BY WordFrame
<1>2. ~Held
  BY <1>1 DEF Held, ReqEnd
<1>3. flash = before /\ Away(phy_addr, Len(buf))
  BY <1>1, <1>2 DEF SInv, Ignored
<1>4. CASE UNCHANGED <<word, phy_addr, buf>>
  BY <1>1, <1>3, <1>4 DEF Ignored, Away
<1>5. CASE \E n \in 0 .. Len(buf), off \in 0 .. 3 : GoesOut(n, off)
  <2> PICK n \in 0 .. Len(buf), off \in 0 .. 3 : GoesOut(n, off)
    BY <1>5
  <2>1. /\ phy_addr \in Nat /\ phy_addr < ADDRESS_SPACE /\ Len(buf) \in Nat /\ n \in Nat
        /\ n <= Len(buf)
        /\ word'.addr = phy_addr - off /\ word'.addr \in Nat /\ word'.addr % 4 = 0
        /\ Len(buf') = Len(buf) - n /\ phy_addr' = (phy_addr + n) % ADDRESS_SPACE
    BY WordFacts
  <2>2. Away(phy_addr', Len(buf'))
    BY <1>3, <2>1, AwayAdvance
  <2>3. phy_addr = word'.addr + off
    BY <2>1
  <2>4. /\ FLASH_END <= phy_addr => FLASH_END <= word'.addr
        /\ phy_addr < ADDRESS_SPACE => word'.addr + 4 <= ADDRESS_SPACE
        /\ phy_addr < FLASH_BASE => word'.addr + 4 <= FLASH_BASE
    BY <2>1, <2>3, Boundary, MapFacts
  <2>5. FLASH_END <= phy_addr \/ phy_addr < FLASH_BASE
    <3> SUFFICES ASSUME phy_addr + Len(buf) <= FLASH_BASE, ~(phy_addr < FLASH_BASE) PROVE FALSE
      BY <1>3, <2>1, MapFacts DEF Away
    <3>1. phy_addr = FLASH_BASE /\ Len(buf) = 0
      BY <2>1, MapFacts, SMT
    <3>2. buf = <<>>
      BY <3>1, EmptySeq DEF IInv, TypeOK
    <3>3. off # 0 /\ off = phy_addr % 4
      BY <3>2 DEF GoesOut
    <3> QED BY <3>1, <3>3, MapFacts
  <2>6. Away(word'.addr, 4)
    BY <2>1, <2>4, <2>5, MapFacts, SMT DEF Away
  <2>7. flash' = before'
    BY <1>1, <1>3
  <2> HIDE DEF Away
  <2> QED BY <2>2, <2>6, <2>7 DEF Ignored, Away
<1> QED BY <1>4, <1>5, WordChoice

LEMMA WordEmptied ==
  ASSUME IInv, SInv, ProgramHead \/ ProgramBody \/ ProgramTail
  PROVE  Emptied'
<1> SUFFICES ASSUME Going', req'[2] = <<>> PROVE Emptied'
  BY DEF Emptied
<1>1. UNCHANGED <<flash, before, req>> /\ word.index = 2 /\ Going
  BY WordFrame
<1>2. flash = before /\ buf = <<>>
  BY <1>1 DEF SInv, Emptied
<1>3. CASE UNCHANGED <<word, phy_addr, buf>>
  BY <1>1, <1>2, <1>3 DEF Emptied
<1>4. CASE \E n \in 0 .. Len(buf), off \in 0 .. 3 : GoesOut(n, off)
  <2> PICK n \in 0 .. Len(buf), off \in 0 .. 3 : GoesOut(n, off)
    BY <1>4
  <2>1. Len(buf) = 0
    BY <1>2, EmptySeq
  <2>2. n = 0 /\ Len(buf') = 0 /\ buf' \in Seq(Byte)
    BY <2>1, WordFacts
  <2>3. buf' = <<>>
    BY <2>2, EmptySeq
  <2>4. \A i \in 1 .. 4 : word'.bytes[i] = ERASED
    <3>1. \A i \in 1 .. 4 : ~(i > off /\ i <= off + n)
      BY <2>2
    <3> QED BY <3>1 DEF GoesOut
  <2> QED BY <1>1, <1>2, <2>3, <2>4 DEF Emptied
<1> QED BY <1>3, <1>4, WordChoice

\* A word of a record that can be stored: it is erased, and it and the rest of
\* the buffer hold what the buffer held.
LEMMA WordStored ==
  ASSUME IInv, SInv, Storable, Going, word.index = 2, pc \in {"head", "body"},
         UNCHANGED <<flash, req, before>>,
         NEW n \in 0 .. Len(buf), NEW off \in 0 .. 3, GoesOut(n, off)
  PROVE  /\ phy_addr' \in Nat /\ phy_addr' = phy_addr + n /\ phy_addr' + Len(buf') = ReqEnd
         /\ phy_addr' >= req[1]
         /\ word'.addr >= APP_ADDR /\ word'.addr + 4 <= FLASH_END
         /\ buf' = <<>> \/ phy_addr' >= word'.addr + 4
         /\ \A a \in Flash : (Coming(a))' = Coming(a)
         /\ \A a \in Flash : InWord(a)' => flash[a] = ERASED
<1>1. buf # <<>>
  <2> SUFFICES ASSUME buf = <<>> PROVE FALSE
    OBVIOUS
  <2>1. req = <<phy_addr, buf>>
    BY DEF GoesOut, SInv, Begun
  <2> QED BY <2>1 DEF Storable
<1>2. /\ phy_addr \in Nat /\ phy_addr < ADDRESS_SPACE /\ Len(buf) \in Nat /\ n \in Nat
      /\ n <= Len(buf)
      /\ word'.addr = phy_addr - off /\ word'.addr \in Nat /\ word'.addr % 4 = 0
      /\ off + n <= 4 /\ (off + n = 4 \/ n = Len(buf))
      /\ buf' \in Seq(Byte) /\ Len(buf') = Len(buf) - n
      /\ \A j \in 1 .. Len(buf) - n : buf'[j] = buf[j + n]
      /\ phy_addr' = (phy_addr + n) % ADDRESS_SPACE
  BY WordFacts
<1>3. /\ phy_addr + Len(buf) = ReqEnd /\ phy_addr >= req[1] /\ req[1] >= APP_ADDR
      /\ ReqEnd <= FLASH_END /\ Len(buf) > 0 /\ req[1] \in Nat /\ Len(req[2]) \in Nat
      /\ req[2] # <<>>
  <2>1. Follows
    BY DEF SInv, Storing
  <2>2. Len(buf) # 0
    BY <1>1, EmptySeq DEF IInv, TypeOK
  <2>3. req[1] \in Nat /\ Len(req[2]) \in Nat
    BY LenProperties DEF IInv, TypeOK, Address
  <2> QED BY <1>1, <1>2, <2>1, <2>2, <2>3 DEF Follows, Storable, Held
<1>n. /\ phy_addr \in Nat /\ Len(buf) \in Nat /\ n \in Nat /\ n <= Len(buf) /\ off \in Nat
      /\ word'.addr \in Nat /\ word'.addr = phy_addr - off /\ off + n <= 4
      /\ off + n = 4 \/ n = Len(buf)
      /\ Len(buf') = Len(buf) - n
      /\ ReqEnd \in Nat /\ phy_addr + Len(buf) = ReqEnd /\ phy_addr >= req[1] /\ req[1] >= APP_ADDR
      /\ ReqEnd <= FLASH_END /\ Len(buf) > 0 /\ req[1] \in Nat
  <2>1. phy_addr + Len(buf) \in Nat
    BY <1>2
  <2>2. off \in Nat
    OBVIOUS
  <2> QED BY <1>2, <1>3, <2>1, <2>2
<1>4. phy_addr' = phy_addr + n
  <2>1. phy_addr + n \in Nat /\ phy_addr + n < ADDRESS_SPACE /\ phy_addr + n < 2 * ADDRESS_SPACE
    BY <1>n, MapFacts, SMT
  <2> QED BY <1>2, <2>1, WrapOnce, MapFacts
<1>5. phy_addr' \in Nat /\ phy_addr' + Len(buf') = ReqEnd /\ phy_addr' >= req[1]
  BY <1>n, <1>4, SMT
<1>6. phy_addr = word'.addr + off
  BY <1>2
<1>7. word'.addr >= APP_ADDR /\ word'.addr + 4 <= FLASH_END
  <2>1. APP_ADDR <= phy_addr /\ phy_addr < FLASH_END
    BY <1>n, MapFacts, SMT
  <2>2. APP_ADDR <= word'.addr /\ word'.addr + 4 <= FLASH_END
    BY <1>2, <1>6, <2>1, Boundary, MapFacts
  <2> QED BY <2>2, <1>2, MapFacts
<1>8. buf' = <<>> \/ phy_addr' >= word'.addr + 4
  <2>1. CASE off + n = 4
    BY <1>2, <1>4, <2>1
  <2>2. CASE n = Len(buf)
    <3>1. Len(buf') = 0
      BY <1>2, <2>2
    <3> QED BY <1>2, <3>1, EmptySeq
  <2> QED BY <1>2, <2>1, <2>2
<1>9. \A a \in Flash : a >= word'.addr /\ a < word'.addr + 4 => flash[a] = ERASED
  <2> SUFFICES ASSUME NEW a \in Flash, a >= word'.addr, a < word'.addr + 4 PROVE flash[a] = ERASED
    OBVIOUS
  <2>1. phy_addr >= word'.addr /\ phy_addr < word'.addr + 4 /\ phy_addr < ReqEnd
    BY <1>2, <1>3, <1>6, SMT
  <2>2. a \in Touched
    BY <1>2, <1>3, <2>1, TouchedWord
  <2>3. CASE pc = "head"
    BY <2>2, <2>3 DEF SInv, Begun, Storable
  <2>4. CASE pc = "body"
    <3>1. off = 0
      BY <1>1, <2>4 DEF IInv, WordsPlaced, GoesOut
    <3>2. a >= phy_addr
      BY <1>6, <3>1, <1>2
    <3> QED BY <1>1, <2>2, <3>2 DEF SInv, Storing
  <2> QED BY <2>3, <2>4
<1>10. \A a \in Flash : InWord(a)' <=> a >= word'.addr /\ a < word'.addr + 4
  <2>1. word'.index = 0 /\ 2 * 0 = 0 /\ word'.addr + 0 = word'.addr
    BY <1>2 DEF GoesOut
  <2> QED BY <2>1 DEF InWord
<1>11. ASSUME NEW a \in Flash PROVE (Coming(a))' = Coming(a)
  <2>1. a \in Nat
    BY MapFacts, SMT DEF Flash
  <2>2. Coming(a) = IF a >= phy_addr /\ a < phy_addr + Len(buf) THEN buf[a - phy_addr + 1] ELSE flash[a]
    BY DEF Coming, InBuffer, InWord
  <2>3. CASE a >= phy_addr + n /\ a < phy_addr + Len(buf)
    <3>1. InBuffer(a)' /\ a >= phy_addr
      BY <1>2, <1>4, <2>1, <2>3 DEF InBuffer
    <3>2. (Coming(a))' = buf'[a - phy_addr' + 1]
      BY <3>1 DEF Coming
    <3>3. a - phy_addr' + 1 \in 1 .. Len(buf) - n /\ (a - phy_addr' + 1) + n = a - phy_addr + 1
      BY <1>2, <1>4, <2>1, <2>3, SMT
    <3>4. buf'[a - phy_addr' + 1] = buf[a - phy_addr + 1]
      BY <1>2, <3>3
    <3> QED BY <2>2, <2>3, <3>1, <3>2, <3>4
  <2>4. CASE ~(a >= phy_addr + n /\ a < phy_addr + Len(buf))
    <3>1. ~InBuffer(a)'
      BY <1>2, <1>4, <2>1, <2>4 DEF InBuffer
    <3>2. CASE a >= word'.addr /\ a < word'.addr + 4
      <4>1. (Coming(a))' = word'.bytes[a - word'.addr + 1]
        BY <1>10, <3>1, <3>2 DEF Coming
      <4>2. a - word'.addr + 1 \in 1 .. 4
        BY <1>2, <2>1, <3>2
      <4>3. word'.bytes[a - word'.addr + 1] =
              IF a - word'.addr + 1 > off /\ a - word'.addr + 1 <= off + n
              THEN buf[(a - word'.addr + 1) - off] ELSE ERASED
        BY <4>2 DEF GoesOut
      <4>4. CASE a >= phy_addr /\ a < phy_addr + n
        <5>1. /\ a - word'.addr + 1 > off /\ a - word'.addr + 1 <= off + n
              /\ (a - word'.addr + 1) - off = a - phy_addr + 1
              /\ a < phy_addr + Len(buf)
          BY <1>n, <2>1, <4>4, SMT
        <5> QED BY <2>2, <4>1, <4>3, <4>4, <5>1
      <4>5. CASE ~(a >= phy_addr /\ a < phy_addr + n)
        <5>1. ~(a - word'.addr + 1 > off /\ a - word'.addr + 1 <= off + n)
          BY <1>n, <2>1, <4>5, SMT
        <5>2. ~(a >= phy_addr /\ a < phy_addr + Len(buf))
          BY <1>2, <2>1, <2>4, <4>5, SMT
        <5> QED BY <1>9, <2>2, <3>2, <4>1, <4>3, <5>1, <5>2
      <4> QED BY <4>4, <4>5
    <3>3. CASE ~(a >= word'.addr /\ a < word'.addr + 4)
      <4>1. (Coming(a))' = flash[a]
        BY <1>10, <3>1, <3>3 DEF Coming
      <4>2. ~(a >= phy_addr /\ a < phy_addr + Len(buf))
        BY <1>2, <1>6, <2>1, <2>4, <3>3, SMT
      <4> QED BY <2>2, <4>1, <4>2
    <3> QED BY <3>2, <3>3
  <2> QED BY <2>3, <2>4
<1>12. \A a \in Flash : InWord(a)' => flash[a] = ERASED
  BY <1>9, <1>10
<1> QED BY <1>4, <1>5, <1>7, <1>8, <1>11, <1>12

LEMMA WordStoring ==
  ASSUME IInv, SInv, ProgramHead \/ ProgramBody \/ ProgramTail
  PROVE  Storing'
<1> SUFFICES ASSUME Going', Storable' PROVE Storing'
  BY DEF Storing
<1>1. /\ UNCHANGED <<flash, before, req, fault>> /\ word.index = 2 /\ ~(word.index < 2) /\ Going
      /\ pc \in {"head", "body"}
  BY WordFrame
<1>2. Storable /\ ReqEnd' = ReqEnd /\ Touched' = Touched
  BY <1>1 DEF Storable, Held, ReqEnd, Touched
<1>3. /\ Follows
      /\ \A a \in Flash : Coming(a) = Patched[a]
      /\ \A a \in Touched : a >= phy_addr /\ buf # <<>> => flash[a] = ERASED
  BY <1>1, <1>2 DEF SInv, Storing
<1>4. \A a \in Flash : (Patched[a])' = Patched[a]
  BY <1>1, <1>2 DEF Patched
<1>5. CASE UNCHANGED <<word, phy_addr, buf>> /\ (pc' = "exit" => buf = <<>>)
  <2>1. \A a \in Flash : (Coming(a))' = Coming(a)
    BY <1>1, <1>5 DEF Coming, InBuffer, InWord
  <2>2. \A a \in Flash : ~InWord(a)'
    BY <1>1, <1>5 DEF InWord
  <2>3. Follows'
    BY <1>1, <1>2, <1>3, <1>5 DEF Follows
  <2> QED BY <1>1, <1>2, <1>3, <1>4, <1>5, <2>1, <2>2, <2>3 DEF Storing
<1>6. CASE \E n \in 0 .. Len(buf), off \in 0 .. 3 : GoesOut(n, off)
  <2> PICK n \in 0 .. Len(buf), off \in 0 .. 3 : GoesOut(n, off)
    BY <1>6
  <2>1. /\ phy_addr' \in Nat /\ phy_addr' = phy_addr + n /\ phy_addr' + Len(buf') = ReqEnd
        /\ phy_addr' >= req[1]
        /\ word'.addr >= APP_ADDR /\ word'.addr + 4 <= FLASH_END
        /\ buf' = <<>> \/ phy_addr' >= word'.addr + 4
        /\ \A a \in Flash : (Coming(a))' = Coming(a)
        /\ \A a \in Flash : InWord(a)' => flash[a] = ERASED
    BY <1>1, <1>2, WordStored
  <2>2. /\ n \in Nat /\ phy_addr \in Nat /\ buf' \in Seq(Byte) /\ Len(buf') = Len(buf) - n
        /\ Len(buf) \in Nat
    BY WordFacts
  <2>3. pc' = "exit" => buf' = <<>>
    <3>1. pc' = "exit" => Len(buf') = 0
      BY <2>2 DEF GoesOut
    <3> QED BY <2>2, <3>1, EmptySeq
  <2>4. \A a \in Touched' : a >= phy_addr' /\ buf' # <<>> => flash'[a] = ERASED
    <3> SUFFICES ASSUME NEW a \in Touched, a >= phy_addr', buf' # <<>> PROVE flash[a] = ERASED
      BY <1>1, <1>2
    <3>1. a \in Nat
      BY MapFacts, SMT DEF Touched, Flash
    <3>2. a >= phy_addr
      BY <2>1, <2>2, <3>1
    <3>3. buf # <<>>
      <4> SUFFICES ASSUME buf = <<>> PROVE FALSE
        OBVIOUS
      <4>1. Len(buf) = 0
        BY EmptySeq
      <4>2. Len(buf') = 0
        BY <2>2, <4>1, LenProperties
      <4> QED BY <2>2, <4>2, EmptySeq
    <3> QED BY <1>3, <3>2, <3>3
  <2>5. Follows'
    BY <1>1, <1>2, <2>1 DEF Follows
  <2>6. \A a \in Flash : InWord(a)' => flash'[a] = ERASED
    BY <1>1, <2>1
  <2>7. \A a \in Flash : (Coming(a))' = (Patched[a])'
    BY <1>3, <1>4, <2>1
  <2> QED BY <2>1, <2>3, <2>4, <2>5, <2>6, <2>7 DEF Storing
<1> QED BY <1>5, <1>6, WordChoice

-----------------------------------------------------------------------------
LEMMA InitSInv == Init => SInv
<1> SUFFICES ASSUME Init PROVE SInv
  OBVIOUS
<1>1. pc = "idle" /\ locked
  BY Zenon DEF Init
<1>2. ~Going
  BY <1>1 DEF Going
<1>3. LockDiscipline
  BY <1>1, Zenon DEF LockDiscipline
<1>4. Begun
  BY <1>1 DEF Begun, FirstRecordErases
<1>5. Ignored /\ Emptied /\ Storing
  BY <1>2, Zenon DEF Ignored, Emptied, Storing
<1> QED BY <1>3, <1>4, <1>5 DEF SInv

LEMMA UnchangedSInv ==
  ASSUME SInv, UNCHANGED vars
  PROVE  SInv'
<1>1. UNCHANGED <<flash, locked, pc, phy_addr, buf, address, word, return_status, req, before, fault>>
  BY DEF vars, locals, history
<1>2. LockDiscipline' /\ Begun'
  BY <1>1 DEF SInv, LockDiscipline, Begun, FirstRecordErases
<1>3. (Held' <=> Held) /\ ReqEnd' = ReqEnd /\ Touched' = Touched /\ (Going' <=> Going)
  BY <1>1 DEF Held, ReqEnd, Touched, Going
<1>4. Ignored' /\ Emptied'
  BY <1>1, <1>3 DEF SInv, Ignored, Emptied, Away
<1>5. \A a \in Flash : /\ (Coming(a))' = Coming(a) /\ (Patched[a])' = Patched[a]
                       /\ (InWord(a)' <=> InWord(a))
  BY <1>1, <1>3 DEF Coming, Patched, InWord, InBuffer
<1>6. (Storable' <=> Storable) /\ (Follows' <=> Follows)
  BY <1>1, <1>3 DEF Storable, Follows
<1>7. Storing'
  BY <1>1, <1>3, <1>5, <1>6 DEF SInv, Storing
<1> QED BY <1>2, <1>4, <1>7 DEF SInv

LEMMA NextSInv == IInv /\ SInv /\ [Next]_vars => SInv'
<1> SUFFICES ASSUME IInv, SInv, Next PROVE SInv'
  BY UnchangedSInv
<1>1. ASSUME ProgramHead \/ ProgramBody \/ ProgramTail PROVE SInv'
  BY <1>1, WordFrame, WordIgnored, WordEmptied, WordStoring DEF SInv
<1>2. ASSUME ProgramHalf \/ ProgramRefused \/ ProgramFails \/ ProgramStray PROVE SInv'
  BY <1>2, HalfFrame, HalfIgnored, HalfEmptied, HalfStoring DEF SInv
<1> QED BY <1>1, <1>2, StartSteps, EndSteps, EraseStep, CheckStep DEF Next, Writer, Program

\* What is left to do at every point of a call adds up to the record, for every
\* memory map, record and flash.
THEOREM StoreInvariance == Spec => []SInv
BY InitSInv, NextSInv, Invariance, PTL DEF Spec

\* A record whose words were erased is stored byte for byte, with nothing beside
\* it changed (fat32.c:365-417): the split into head, body and tail is exact.
THEOREM RecordIsStored == Spec => []RecordStored
<1>1. IInv /\ SInv => RecordStored
  <2> SUFFICES ASSUME IInv, SInv, Programmed, Held, \A a \in Touched : before[a] = ERASED
               PROVE  flash = Patched
    BY DEF RecordStored
  <2>1. pc = "exit" /\ word.index = 2 /\ return_status /\ ~fault /\ Going
    BY Zenon DEF Programmed, Going
  <2>2. flash \in [Flash -> Byte] /\ before \in [Flash -> Byte]
    BY DEF IInv, TypeOK
  <2>3. CASE req[2] = <<>>
    <3>1. flash = before
      BY <2>1, <2>3 DEF SInv, Emptied
    <3>2. Len(req[2]) = 0 /\ req[1] \in Nat
      BY <2>3, EmptySeq DEF IInv, TypeOK, Address
    <3>3. \A a \in Flash : a \notin req[1] .. ReqEnd - 1
      BY <3>2, MapFacts, SMT DEF ReqEnd, Flash
    <3>4. Patched = [a \in Flash |-> before[a]]
      BY <3>3, Zenon DEF Patched
    <3> QED BY <2>2, <3>1, <3>4
  <2>4. CASE req[2] # <<>>
    <3>1. Storable
      BY <2>1, <2>4, Zenon DEF Storable
    <3>2. buf = <<>> /\ \A a \in Flash : Coming(a) = Patched[a]
      BY <2>1, <3>1 DEF SInv, Storing
    <3>3. ASSUME NEW a \in Flash PROVE Coming(a) = flash[a]
      <4>1. ~InWord(a)
        BY <2>1 DEF InWord
      <4>2. ~InBuffer(a)
        <5>1. a \in Nat /\ phy_addr \in Nat /\ Len(buf) = 0
          BY <3>2, EmptySeq, MapFacts, SMT DEF Flash, IInv, TypeOK, Address
        <5> QED BY <5>1 DEF InBuffer
      <4> QED BY <4>1, <4>2, Zenon DEF Coming
    <3>4. \A a \in Flash : flash[a] = Patched[a]
      BY <3>2, <3>3
    <3> DEFINE P(a) == IF a \in req[1] .. ReqEnd - 1 THEN req[2][a - req[1] + 1] ELSE before[a]
    <3>5. Patched = [a \in Flash |-> P(a)]
      BY DEF Patched
    <3> HIDE DEF P
    <3> QED BY <2>2, <3>4, <3>5
  <2> QED BY <2>3, <2>4
<1> QED BY <1>1, StoreInvariance, Invariance, PTL

\* A record that is not wholly inside the application leaves the flash alone
\* (fat32.c:365), however its end wraps.
THEOREM OutsideIsIgnored == Spec => []OutsideIgnored
<1>1. IInv /\ SInv => OutsideIgnored
  <2>1. Programmed => Going
    BY Zenon DEF Programmed, Going
  <2> QED BY <2>1, Zenon DEF SInv, Ignored, OutsideIgnored
<1> QED BY <1>1, StoreInvariance, Invariance, PTL

\* When programming starts at the first address, every page of the application
\* has been erased (fat32.c:347-363), whatever the page size.
THEOREM FirstRecordDoesErase == Spec => []FirstRecordErases
<1>1. SInv => FirstRecordErases
  BY DEF SInv, Begun
<1> QED BY <1>1, StoreInvariance, PTL

\* The flash is open during a call and locked between calls, but after a record
\* that was no cipher block (fat32.c:340).
THEOREM FlashIsLocked == Spec => []LockDiscipline
<1>1. SInv => LockDiscipline
  BY DEF SInv
<1> QED BY <1>1, StoreInvariance, PTL

=============================================================================
