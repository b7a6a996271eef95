----------------------------- MODULE FlashWriter -----------------------------
(***************************************************************************)
(* The data callback of the parser, _fat32_write_firmware of Src/fat32.c,  *)
(* and the flash it programs through the HAL, half-word by half-word and   *)
(* page by page; power may be lost between any two flash operations.       *)
(*                                                                         *)
(* A record is an address and its bytes.  AES-CTR is abstracted to the     *)
(* keystream of ones: an involution that changes every byte.               *)
(***************************************************************************)
EXTENDS Integers, Sequences

CONSTANTS
  FLASH_BASE, DEV_FLASH_SIZE, APP_OFFSET, FLASH_PAGE_SIZE,
  ADDRESS_SPACE,   \* 2^32: addresses wrap here
  ERASED,          \* an erased byte, 0xFF
  AES_BLOCKLEN,
  Records,         \* the <<address, bytes>> the parser may deliver
  Images           \* flash contents at power-up

APP_ADDR  == FLASH_BASE + APP_OFFSET
FLASH_END == FLASH_BASE + DEV_FLASH_SIZE
APP_SIZE  == DEV_FLASH_SIZE - APP_OFFSET
Byte      == 0..ERASED
Flash     == FLASH_BASE .. FLASH_END - 1
App       == APP_ADDR .. FLASH_END - 1
Address   == 0 .. ADDRESS_SPACE - 1

\* Pages are whole words, and the application area is whole pages.
ASSUME PageAssumption ==
  /\ FLASH_PAGE_SIZE \in Nat \ {0} /\ FLASH_PAGE_SIZE % 4 = 0
  /\ APP_OFFSET \in Nat /\ DEV_FLASH_SIZE \in Nat /\ APP_OFFSET < DEV_FLASH_SIZE
  /\ APP_SIZE % FLASH_PAGE_SIZE = 0
\* The flash lies on word boundaries, with room on both sides for the longest
\* record (255 bytes against 0x08000000 and 0xF7FE0000).
ASSUME MapAssumption ==
  /\ FLASH_BASE \in Nat /\ FLASH_BASE % 4 = 0
  /\ APP_ADDR % 4 = 0 /\ FLASH_END % 4 = 0
  /\ ADDRESS_SPACE \in Nat /\ ADDRESS_SPACE % 4 = 0
  /\ FLASH_END < ADDRESS_SPACE
ASSUME ByteAssumption == ERASED \in Nat \ {0} /\ AES_BLOCKLEN \in Nat \ {0}
ASSUME RecordAssumption ==
  \A r \in Records : /\ r[1] \in Address /\ r[2] \in Seq(Byte)
                     /\ Len(r[2]) <= FLASH_BASE
                     /\ Len(r[2]) <= ADDRESS_SPACE - FLASH_END
ASSUME ImageAssumption == Images \subseteq [Flash -> Byte]

VARIABLES
  flash,
  locked,         \* FLASH_CR_LOCK
  pc,             \* where _fat32_write_firmware is
  phy_addr, buf,  \* its locals; size is Len(buf)
  address,        \* the page HAL_FLASHEx_Erase is at
  word,           \* the HAL_FLASH_Program under way, index = 2 when none is
  return_status,
  req,            \* history: the record of this call, in clear
  before,         \* history: the flash when programming began
  fault           \* history: the hardware failed during this call

locals  == <<phy_addr, buf>>
history == <<req, before, fault>>
vars == <<flash, locked, pc, locals, address, word, return_status, history>>

NoWord   == [addr |-> 0, bytes |-> <<0, 0, 0, 0>>, index |-> 2]
NoRecord == <<0, <<>>>>

-----------------------------------------------------------------------------
\* crypt_decrypt, in place.
Decrypt(bytes) == [i \in 1..Len(bytes) |-> ERASED - bytes[i]]

Clear(bytes, crypt) == IF crypt THEN Decrypt(bytes) ELSE bytes

\* Mutant: only the start of the record is compared.
InRangeStartOnly == phy_addr >= APP_ADDR /\ phy_addr <= FLASH_END

\* Mutant: the lower bound is the flash's, not the application's.
InRangeWholeFlash ==
  phy_addr >= FLASH_BASE /\ (phy_addr + Len(buf)) % ADDRESS_SPACE <= FLASH_END

\* The bounds check, phy_addr + size wrapping as a uint32_t.
InRange ==
  phy_addr >= APP_ADDR /\ (phy_addr + Len(buf)) % ADDRESS_SPACE <= FLASH_END

\* Mutant: the bytes start at the word's first byte.
PaddedUnshifted(offset, bytes) ==
  [i \in 1..4 |-> IF i <= Len(bytes) THEN bytes[i] ELSE ERASED]

\* A word that holds bytes from offset on and 0xFF elsewhere.
Padded(offset, bytes) ==
  [i \in 1..4 |-> IF i > offset /\ i <= offset + Len(bytes)
                  THEN bytes[i - offset] ELSE ERASED]

Smaller(a, b) == IF a < b THEN a ELSE b

\* HAL_FLASH_Program(FLASH_TYPEPROGRAM_WORD, addr, bytes) is called.
BeginWord(addr, bytes) == word' = [addr |-> addr, bytes |-> bytes, index |-> 0]

\* Mutant: the address does not wrap at 32 bits.
AdvanceUnbounded(n) ==
  /\ buf' = SubSeq(buf, n + 1, Len(buf))
  /\ phy_addr' = phy_addr + n

\* buf += n; phy_addr += n; size -= n
Advance(n) ==
  /\ buf' = SubSeq(buf, n + 1, Len(buf))
  /\ phy_addr' = (phy_addr + n) % ADDRESS_SPACE

-----------------------------------------------------------------------------
Init ==
  /\ flash \in Images
  /\ locked = TRUE
  /\ pc = "idle"
  /\ phy_addr = 0 /\ buf = <<>>
  /\ address = APP_ADDR /\ word = NoWord
  /\ return_status = TRUE
  /\ req = NoRecord /\ before = flash /\ fault = FALSE

\* A crypted record that is not one AES block: return false at once.
RejectBlock(record, crypt) ==
  /\ pc = "idle"
  /\ crypt /\ Len(record[2]) # AES_BLOCKLEN
  /\ locked' = FALSE /\ return_status' = FALSE
  /\ UNCHANGED <<flash, pc, locals, address, word, history>>

\* The callback is entered: unlock, decrypt in place, and decide to erase.
Write(record, crypt) ==
  /\ pc = "idle"
  /\ crypt => Len(record[2]) = AES_BLOCKLEN
  /\ locked' = FALSE /\ return_status' = TRUE
  /\ phy_addr' = record[1]
  /\ buf' = Clear(record[2], crypt)
  /\ req' = <<record[1], buf'>> /\ fault' = FALSE
  /\ address' = APP_ADDR
  /\ pc' = IF record[1] = APP_ADDR THEN "erase" ELSE "check"
  /\ UNCHANGED <<flash, word, before>>

\* Mutant: the last page is left out.
ErasePageShort ==
  /\ pc = "erase"
  /\ flash' = [a \in Flash |->
                 IF a \in address .. address + FLASH_PAGE_SIZE - 1
                 THEN ERASED ELSE flash[a]]
  /\ address' = address + FLASH_PAGE_SIZE
  /\ pc' = IF address' + FLASH_PAGE_SIZE < FLASH_END THEN "erase" ELSE "check"
  /\ UNCHANGED <<locked, locals, word, return_status, history>>

\* HAL_FLASHEx_Erase, one page; the last page ends the loop.
ErasePage ==
  /\ pc = "erase"
  /\ flash' = [a \in Flash |->
                 IF a \in address .. address + FLASH_PAGE_SIZE - 1
                 THEN ERASED ELSE flash[a]]
  /\ address' = address + FLASH_PAGE_SIZE
  /\ pc' = IF address' < FLASH_END THEN "erase" ELSE "check"
  /\ UNCHANGED <<locked, locals, word, return_status, history>>

\* A page that cannot be erased: goto EXIT, the callback will return false.
EraseFails ==
  /\ pc = "erase"
  /\ return_status' = FALSE /\ fault' = TRUE
  /\ pc' = "exit"
  /\ UNCHANGED <<flash, locked, locals, address, word, req, before>>

\* The bounds check; a record outside the application is silently skipped.
CheckRange ==
  /\ pc = "check"
  /\ pc' = IF InRange THEN "head" ELSE "exit"
  /\ before' = flash
  /\ UNCHANGED <<flash, locked, locals, address, word, return_status, req,
                 fault>>

\* The word that holds an unaligned start.
ProgramHead ==
  LET unalign   == phy_addr % 4
      prog_size == Smaller(Len(buf), 4 - unalign) IN
  /\ pc = "head"
  /\ pc' = "body"
  /\ \/ unalign = 0 /\ UNCHANGED <<word, locals>>
     \/ /\ unalign # 0
        /\ BeginWord(phy_addr - unalign,
                     Padded(unalign, SubSeq(buf, 1, prog_size)))
        /\ Advance(prog_size)
  /\ UNCHANGED <<flash, locked, address, return_status, history>>

ProgramBody ==
  /\ pc = "body" /\ word.index = 2
  /\ Len(buf) >= 4
  /\ BeginWord(phy_addr, SubSeq(buf, 1, 4))
  /\ Advance(4)
  /\ UNCHANGED <<flash, locked, pc, address, return_status, history>>

\* The remaining bytes; size and phy_addr are not used after them.
ProgramTail ==
  /\ pc = "body" /\ word.index = 2
  /\ Len(buf) < 4
  /\ pc' = "exit"
  /\ \/ buf = <<>> /\ UNCHANGED <<word, locals>>
     \/ buf # <<>> /\ BeginWord(phy_addr, Padded(0, buf)) /\ Advance(Len(buf))
  /\ UNCHANGED <<flash, locked, address, return_status, history>>

\* One half-word of HAL_FLASH_Program.
HalfAddress == (word.addr + 2 * word.index) % ADDRESS_SPACE
HalfBytes == SubSeq(word.bytes, 2 * word.index + 1, 2 * word.index + 2)

\* The flash takes a half-word that is erased, and zeros over anything.
Programmable ==
  \/ flash[HalfAddress] = ERASED /\ flash[HalfAddress + 1] = ERASED
  \/ HalfBytes = <<0, 0>>

\* Mutant: the loop counter starts again.
NextHalfForever == word' = [word EXCEPT !.index = 1 - word.index]

\* The loop of HAL_FLASH_Program goes on, or has done both half-words.
NextHalf ==
  word' = IF word.index = 0 THEN [word EXCEPT !.index = 1] ELSE NoWord

ProgramHalf ==
  /\ word.index < 2
  /\ HalfAddress \in Flash /\ Programmable
  /\ flash' = [flash EXCEPT ![HalfAddress] = HalfBytes[1],
                            ![HalfAddress + 1] = HalfBytes[2]]
  /\ NextHalf
  /\ UNCHANGED <<locked, pc, locals, address, return_status, history>>

\* PGERR: the half-word is not erased.  HAL stops with HAL_ERROR, so the second
\* half of a word is lost with the first, and the caller ignores the status.
ProgramRefused ==
  /\ word.index < 2
  /\ HalfAddress \in Flash /\ ~Programmable
  /\ word' = NoWord
  /\ UNCHANGED <<flash, locked, pc, locals, address, return_status, history>>

\* Write protection, a timeout: the same, with no fault of the record.
ProgramFails ==
  /\ word.index < 2
  /\ HalfAddress \in Flash
  /\ fault' = TRUE /\ word' = NoWord
  /\ UNCHANGED <<flash, locked, pc, locals, address, return_status, req,
                 before>>

\* The half-word is no flash: the write is lost or the bus faults, and
\* HardFault_Handler loops for ever.
ProgramStray ==
  /\ word.index < 2
  /\ HalfAddress \notin Flash
  /\ \/ NextHalf /\ UNCHANGED pc
     \/ word' = NoWord /\ pc' = "fault"
  /\ UNCHANGED <<flash, locked, locals, address, return_status, history>>

\* Mutant: the lock is skipped, as RejectBlock skips it.
ReturnUnlocked ==
  /\ pc = "exit" /\ word.index = 2
  /\ pc' = "idle"
  /\ UNCHANGED <<flash, locked, locals, address, word, return_status, history>>

\* EXIT: HAL_FLASH_Lock() and return.
Return ==
  /\ pc = "exit" /\ word.index = 2
  /\ pc' = "idle" /\ locked' = TRUE
  /\ UNCHANGED <<flash, locals, address, word, return_status, history>>

\* Power is lost, or the reset button pressed: only the flash survives.
PowerCycle ==
  /\ pc' = "idle" /\ locked' = TRUE
  /\ phy_addr' = 0 /\ buf' = <<>> /\ address' = APP_ADDR /\ word' = NoWord
  /\ return_status' = TRUE
  /\ req' = NoRecord /\ before' = flash /\ fault' = FALSE
  /\ UNCHANGED flash

Program ==
  \/ ProgramHead \/ ProgramBody \/ ProgramTail
  \/ ProgramHalf \/ ProgramRefused \/ ProgramFails \/ ProgramStray

Writer == ErasePage \/ EraseFails \/ CheckRange \/ Program \/ Return

Next ==
  \/ \E r \in Records, c \in BOOLEAN : RejectBlock(r, c) \/ Write(r, c)
  \/ Writer
  \/ PowerCycle

Spec == Init /\ [][Next]_vars

\* Nothing preempts the callback for good: HAL bounds every wait.
FairSpec == Spec /\ WF_vars(Writer)

-----------------------------------------------------------------------------
FlagsOK == locked \in BOOLEAN /\ return_status \in BOOLEAN /\ fault \in BOOLEAN

\* The types of the variables.
TypeOK ==
  /\ FlagsOK
  /\ flash \in [Flash -> Byte] /\ before \in [Flash -> Byte]
  /\ pc \in {"idle", "erase", "check", "head", "body", "exit", "fault"}
  /\ phy_addr \in Address /\ buf \in Seq(Byte)
  /\ address \in Nat /\ address >= APP_ADDR
  /\ word \in [addr : Address, bytes : [1..4 -> Byte], index : 0..2]
  /\ req[1] \in Address /\ req[2] \in Seq(Byte)

\* n bytes from a on are in the application, or no flash at all: above it (and
\* perhaps on across the top of the address space) or below it.
Placed(a, n) ==
  \/ a >= APP_ADDR /\ a + n <= FLASH_END
  \/ a >= FLASH_END /\ a + n <= ADDRESS_SPACE + FLASH_BASE
  \/ a + n <= FLASH_BASE

\* What is left to program, and every word under way, is so placed, whatever
\* the alignment; after the head word the rest starts on a word boundary.
WordsPlaced ==
  /\ pc \in {"erase", "check"} =>
       Len(buf) <= FLASH_BASE /\ Len(buf) <= ADDRESS_SPACE - FLASH_END
  /\ pc = "head" => phy_addr >= APP_ADDR /\ Placed(phy_addr, Len(buf))
  /\ pc = "body" => /\ Placed(phy_addr, Len(buf))
                    /\ phy_addr % 4 = 0 \/ buf = <<>>
  /\ pc \in {"idle", "erase", "check", "head"} => word.index = 2
  /\ word.index < 2 => word.addr % 4 = 0 /\ Placed(word.addr, 4)

\* The inductive invariant of the proofs.
IInv == TypeOK /\ WordsPlaced

\* No record, aligned or not, inside the application, across its end or across
\* the top of the address space, changes a byte of the bootloader.
BootloaderUntouched ==
  [][\A a \in Flash \ App : flash'[a] = flash[a]]_vars

\* The call has programmed what it was given and nothing in the hardware failed.
Programmed == pc = "exit" /\ word.index = 2 /\ return_status /\ ~fault

ReqEnd == req[1] + Len(req[2])
Held == req[1] >= APP_ADDR /\ ReqEnd <= FLASH_END

\* The words a record touches.
Touched ==
  {a \in Flash : req[2] # <<>> /\ a \div 4 \in req[1] \div 4 .. (ReqEnd - 1) \div 4}

\* The flash with the record in it.
Patched == [a \in Flash |-> IF a \in req[1] .. ReqEnd - 1
                            THEN req[2][a - req[1] + 1] ELSE before[a]]

\* A record whose words were erased is stored byte for byte, with nothing
\* beside it changed: the split into head, body and tail words is exact.
RecordStored ==
  /\ Programmed /\ Held
  /\ \A a \in Touched : before[a] = ERASED
  => flash = Patched

\* A record that is not wholly inside the application leaves the flash alone.
OutsideIgnored ==
  Programmed /\ ~Held => flash = before

\* Programming the first address always starts on an erased application.
FirstRecordErases ==
  /\ pc \in {"head", "body"} /\ req[1] = APP_ADDR
  => \A a \in App : before[a] = ERASED

\* During a call the flash is open, so nothing is lost to the lock; between calls
\* it is locked, whatever failed, but for a record that was not a cipher block.
LockDiscipline ==
  /\ pc \notin {"idle", "fault"} => ~locked
  /\ pc = "idle" /\ ~locked => ~return_status

\* Every call comes back, or ends in HardFault_Handler.
CallReturns == (pc # "idle") ~> (pc \in {"idle", "fault"})

\* A record stored where nothing had been written is read back.  The code does
\* not keep this: a record that ends inside a word and the record that goes on
\* from there share a word, and the second one's part of it is refused.
UnalignedStored ==
  /\ Programmed /\ Held
  /\ \A a \in req[1] .. ReqEnd - 1 : before[a] = ERASED
  => \A a \in req[1] .. ReqEnd - 1 : flash[a] = Patched[a]

=============================================================================
