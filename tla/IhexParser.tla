----------------------------- MODULE IhexParser -----------------------------
(***************************************************************************)
(* The Intel HEX parser of Src/ihex_parser.c: a character-driven state     *)
(* machine whose state survives from one call of ihex_parser() to the next *)
(* (one call per 512-byte sector the host writes).                         *)
(*                                                                         *)
(* A character is its ASCII code.  The environment chooses the length of   *)
(* every call, the next character among Alphabet[state], and the answer of *)
(* the data callback.  Only control and the arithmetic that decides it are *)
(* kept; every integer has the width of its C type.                        *)
(***************************************************************************)
EXTENDS Integers, Sequences

Modulus8  == 256     \* uint8_t wraps here
Modulus16 == 65536   \* and uint16_t here
Byte == 0..(Modulus8 - 1)
Char == 0..255
HalfWord == 0..(Modulus16 - 1)

CONSTANTS
  Sizes,          \* lengths a call of ihex_parser may have (512 in fat32.c)
  Alphabet,       \* Alphabet[s]: characters offered in parser state s
  IHEX_DATA_SIZE, \* sizeof(data), 255 in the code
  AES_BLOCKLEN,   \* record size the decrypting callback overwrites (16)
  Scratch         \* bytes such a callback may leave in data

ASSUME SizesAssumption    == Sizes \subseteq Nat \ {0}
ASSUME AlphabetAssumption == Alphabet \in [0..11 -> SUBSET Char]
ASSUME DataSizeAssumption == IHEX_DATA_SIZE \in 2..255
ASSUME BlockAssumption    == AES_BLOCKLEN \in Nat \ {0}
ASSUME ScratchAssumption  == Scratch \subseteq Byte

START_CODE_STATE    == 0
BYTE_COUNT_0_STATE  == 1
BYTE_COUNT_1_STATE  == 2
ADDR_0_STATE        == 3
ADDR_3_STATE        == 6
RECORD_TYPE_0_STATE == 7
RECORD_TYPE_1_STATE == 8
DATA_STATE          == 9
CHECKSUM_0_STATE    == 10
CHECKSUM_1_STATE    == 11

RECORD_TYPE_DATA           == 0
RECORD_TYPE_EOF            == 1
RECORD_TYPE_EX_SEG_ADDR    == 2
RECORD_TYPE_EX_LIN_ADDR    == 4
RECORD_TYPE_START_LIN_ADDR == 5
RECORD_TYPE_CRYPT_MODE     == 14

VARIABLES
  state, byte_count, address_lo, address_hi, ex_segment_addr_mode,
  record_type,
  data,                 \* the bytes written since memset: the rest are 0
  data_size_in_nibble,
  temp_cs, calc_cs, calc_cs_toogle,
  crypt_mode, ihex_eof_trig,
  left,                 \* characters the current call has still to read
  pending,              \* the data callback has been called and runs
  consumed,             \* history: nibbles taken since ':', until a gap
  gap                   \* history: input was dropped inside this record

modeVars   == <<address_hi, ex_segment_addr_mode, crypt_mode, ihex_eof_trig>>
fieldVars  == <<byte_count, address_lo, record_type>>
dataVars   == <<data, data_size_in_nibble>>
csVars     == <<temp_cs, calc_cs, calc_cs_toogle>>
vars == <<state, fieldVars, dataVars, csVars, modeVars, left, pending,
          consumed, gap>>


NUL   == 0
EOL   == {10, 13}
COLON == 58

-----------------------------------------------------------------------------
\* HexToDec: 'g'..'z' are accepted too, as 16..35; 120 is INVALID_HEX_CHAR.
INVALID_HEX_CHAR == 120
HexToDec(h) ==
  IF h \in 48..57 THEN h - 48
  ELSE IF h \in 65..70 THEN h - 65 + 10
  ELSE IF h \in 97..122 THEN h - 97 + 10
  ELSE INVALID_HEX_CHAR

\* x | q for the q \in 0..2 that the high bits of a HexToDec result can be.
OrHigh(x, q) ==
  IF q = 1 /\ x % 2 = 0 THEN x + 1
  ELSE IF q = 2 /\ (x \div 2) % 2 = 0 THEN x + 2
  ELSE x

\* (x << 4) | hc kept in an unsigned integer of the given modulus.
ShiftIn(x, hc, modulus) == (16 * OrHigh(x, hc \div 16) + (hc % 16)) % modulus

\* data[i] of the 0-based C array: cleared at ':' and written front to back.
DataAt(i) == IF i < Len(data) THEN data[i + 1] ELSE 0

\* data[b_index] = (data[b_index] << 4) | hc, where b_index = nibbles >> 1.
StoreNibble(hc) ==
  IF data_size_in_nibble % 2 = 0 THEN Append(data, hc)
  ELSE [data EXCEPT ![Len(data)] = ShiftIn(data[Len(data)], hc, Modulus8)]

\* The arguments of the data callback.
CallbackAddress ==
  IF ex_segment_addr_mode THEN 16 * address_hi + address_lo
  ELSE Modulus16 * address_hi + address_lo
CallbackSize == data_size_in_nibble \div 2

-----------------------------------------------------------------------------
\* Static storage before the first call.
Init ==
  /\ state = START_CODE_STATE
  /\ byte_count = 0 /\ address_lo = 0 /\ address_hi = 0
  /\ ex_segment_addr_mode = FALSE
  /\ record_type = RECORD_TYPE_DATA
  /\ data = <<>> /\ data_size_in_nibble = 0
  /\ temp_cs = 0 /\ calc_cs = 0 /\ calc_cs_toogle = FALSE
  /\ crypt_mode = FALSE /\ ihex_eof_trig = FALSE
  /\ left = 0 /\ pending = FALSE
  /\ consumed = 0 /\ gap = FALSE

\* ihex_reset_state(), called by fat32_write between two calls of the parser.
ResetState ==
  /\ left = 0 /\ ~pending
  /\ state' = START_CODE_STATE
  /\ address_lo' = 0 /\ address_hi' = 0
  /\ ex_segment_addr_mode' = FALSE
  /\ crypt_mode' = FALSE /\ ihex_eof_trig' = FALSE
  /\ UNCHANGED <<byte_count, record_type, dataVars, csVars, left, pending,
                 consumed, gap>>

\* fat32_write hands a sector to ihex_parser.
Call(size) ==
  /\ left = 0 /\ ~pending
  /\ left' = size
  /\ UNCHANGED <<state, fieldVars, dataVars, csVars, modeVars, pending,
                 consumed, gap>>

\* A call is in progress and the parser itself is running.
Reading == left > 0 /\ ~pending

\* return true / return false before the end of the buffer: the characters
\* left in this sector are never looked at.
DropRest ==
  /\ left' = 0
  /\ gap' = (gap \/ state # START_CODE_STATE)

GoOn == left' = left - 1 /\ UNCHANGED gap

\* Mutant: calc_cs kept in more than a byte.
FoldChecksumWide(hc) ==
  /\ temp_cs' = IF calc_cs_toogle THEN temp_cs ELSE hc
  /\ calc_cs' = IF calc_cs_toogle
                THEN calc_cs + ShiftIn(temp_cs, hc, Modulus16) ELSE calc_cs
  /\ calc_cs_toogle' = ~calc_cs_toogle
  /\ consumed' = IF gap THEN consumed ELSE consumed + 1

\* The checksum prologue of the states 1..11, for a valid character.
FoldChecksum(hc) ==
  /\ temp_cs' = IF calc_cs_toogle THEN temp_cs ELSE hc
  /\ calc_cs' = IF calc_cs_toogle
                THEN (calc_cs + ShiftIn(temp_cs, hc, Modulus16)) % Modulus8
                ELSE calc_cs
  /\ calc_cs_toogle' = ~calc_cs_toogle
  /\ consumed' = IF gap THEN consumed ELSE consumed + 1

\* The parser is in state s and c is a valid digit of value hc.
Takes(s, c, hc) ==
  /\ Reading /\ state = s
  /\ c # NUL /\ hc # INVALID_HEX_CHAR
  /\ FoldChecksum(hc)

-----------------------------------------------------------------------------
\* '\0' ends the call with success, whatever the state.
NulChar(c) ==
  /\ Reading /\ c = NUL
  /\ DropRest
  /\ UNCHANGED <<state, fieldVars, dataVars, csVars, modeVars, pending,
                 consumed>>

\* A character that is no digit inside a record: return false.
BadChar(c) ==
  /\ Reading /\ state # START_CODE_STATE
  /\ c # NUL /\ HexToDec(c) = INVALID_HEX_CHAR
  /\ DropRest
  /\ UNCHANGED <<state, fieldVars, dataVars, csVars, modeVars, pending,
                 consumed>>

\* Mutant: only the sum is cleared between two records.
StartPrologueKeepsToggle(c) ==
  /\ Reading /\ state = START_CODE_STATE /\ c # NUL
  /\ calc_cs' = 0 /\ UNCHANGED calc_cs_toogle

StartPrologue(c) ==
  /\ Reading /\ state = START_CODE_STATE /\ c # NUL
  /\ calc_cs' = 0 /\ calc_cs_toogle' = FALSE

StartEol(c) ==
  /\ StartPrologue(c) /\ c \in EOL
  /\ GoOn
  /\ UNCHANGED <<state, fieldVars, dataVars, temp_cs, modeVars, pending,
                 consumed>>

\* Mutant: the buffer of the last record is kept.
StartColonKeepsData(c) ==
  /\ StartPrologue(c) /\ c = COLON
  /\ byte_count' = 0 /\ record_type' = RECORD_TYPE_DATA /\ address_lo' = 0
  /\ data_size_in_nibble' = 0
  /\ state' = BYTE_COUNT_0_STATE
  /\ left' = left - 1
  /\ consumed' = 0 /\ gap' = FALSE
  /\ UNCHANGED <<temp_cs, modeVars, pending, data>>

StartColon(c) ==
  /\ StartPrologue(c) /\ c = COLON
  /\ byte_count' = 0 /\ record_type' = RECORD_TYPE_DATA /\ address_lo' = 0
  /\ data' = <<>> /\ data_size_in_nibble' = 0
  /\ state' = BYTE_COUNT_0_STATE
  /\ left' = left - 1
  /\ consumed' = 0 /\ gap' = FALSE
  /\ UNCHANGED <<temp_cs, modeVars, pending>>

\* Anything else between two records: return false.
StartBad(c) ==
  /\ StartPrologue(c) /\ c \notin EOL \cup {COLON}
  /\ DropRest
  /\ UNCHANGED <<state, fieldVars, dataVars, temp_cs, modeVars, pending,
                 consumed>>

ByteCount(c) ==
  LET hc == HexToDec(c) IN
  /\ \E s \in BYTE_COUNT_0_STATE .. BYTE_COUNT_1_STATE : Takes(s, c, hc)
  /\ byte_count' = ShiftIn(byte_count, hc, Modulus8)
  /\ state' = state + 1
  /\ GoOn
  /\ UNCHANGED <<address_lo, record_type, dataVars, modeVars, pending>>

Addr(c) ==
  LET hc == HexToDec(c) IN
  /\ \E s \in ADDR_0_STATE .. ADDR_3_STATE : Takes(s, c, hc)
  /\ address_lo' = ShiftIn(address_lo, hc, Modulus16)
  /\ state' = state + 1
  /\ GoOn
  /\ UNCHANGED <<byte_count, record_type, dataVars, modeVars, pending>>

RecordType0(c) ==
  LET hc == HexToDec(c) IN
  /\ Takes(RECORD_TYPE_0_STATE, c, hc)
  /\ \/ hc # 0 /\ DropRest /\ UNCHANGED state
     \/ hc = 0 /\ GoOn /\ state' = RECORD_TYPE_1_STATE
  /\ UNCHANGED <<fieldVars, dataVars, modeVars, pending>>

KnownType(hc) ==
  hc <= RECORD_TYPE_START_LIN_ADDR \/ hc = RECORD_TYPE_CRYPT_MODE

\* Mutant: the length is not compared with the buffer.
RecordType1AnyLength(c) ==
  LET hc == HexToDec(c) IN
  /\ Takes(RECORD_TYPE_1_STATE, c, hc)
  /\ \/ ~KnownType(hc) /\ DropRest /\ UNCHANGED <<state, record_type>>
     \/ /\ KnownType(hc) /\ record_type' = hc
        /\ state' = IF byte_count = 0 THEN CHECKSUM_0_STATE ELSE DATA_STATE
        /\ GoOn
  /\ UNCHANGED <<byte_count, address_lo, dataVars, modeVars, pending>>

\* Mutant: an empty record goes on to the second checksum digit.
RecordType1SkipsDigit(c) ==
  LET hc == HexToDec(c) IN
  /\ Takes(RECORD_TYPE_1_STATE, c, hc)
  /\ \/ ~KnownType(hc) /\ DropRest /\ UNCHANGED <<state, record_type>>
     \/ /\ KnownType(hc) /\ record_type' = hc
        /\ \/ byte_count = 0 /\ state' = CHECKSUM_1_STATE /\ GoOn
           \/ byte_count > IHEX_DATA_SIZE /\ UNCHANGED state /\ DropRest
           \/ byte_count \in 1..IHEX_DATA_SIZE /\ state' = DATA_STATE /\ GoOn
  /\ UNCHANGED <<byte_count, address_lo, dataVars, modeVars, pending>>

RecordType1(c) ==
  LET hc == HexToDec(c) IN
  /\ Takes(RECORD_TYPE_1_STATE, c, hc)
  /\ \/ ~KnownType(hc) /\ DropRest /\ UNCHANGED <<state, record_type>>
     \/ /\ KnownType(hc) /\ record_type' = hc
        /\ \/ byte_count = 0 /\ state' = CHECKSUM_0_STATE /\ GoOn
           \/ byte_count > IHEX_DATA_SIZE /\ UNCHANGED state /\ DropRest
           \/ byte_count \in 1..IHEX_DATA_SIZE /\ state' = DATA_STATE /\ GoOn
  /\ UNCHANGED <<byte_count, address_lo, dataVars, modeVars, pending>>

Data(c) ==
  LET hc == HexToDec(c) IN
  /\ Takes(DATA_STATE, c, hc)
  /\ data' = StoreNibble(hc)
  /\ data_size_in_nibble' = data_size_in_nibble + 1
  /\ state' = IF data_size_in_nibble' \div 2 >= byte_count
              THEN CHECKSUM_0_STATE ELSE DATA_STATE
  /\ GoOn
  /\ UNCHANGED <<fieldVars, modeVars, pending>>

Checksum0(c) ==
  LET hc == HexToDec(c) IN
  /\ Takes(CHECKSUM_0_STATE, c, hc)
  /\ state' = CHECKSUM_1_STATE
  /\ GoOn
  /\ UNCHANGED <<fieldVars, dataVars, modeVars, pending>>

\* The record is complete: what its type makes of it (data records apart).
SetAddressHi(segment) ==
  /\ address_hi' = Modulus8 * DataAt(0) + DataAt(1)
  /\ ex_segment_addr_mode' = segment
  /\ UNCHANGED <<crypt_mode, ihex_eof_trig>>

ApplyRecord ==
  \/ record_type = RECORD_TYPE_EX_SEG_ADDR /\ SetAddressHi(TRUE)
  \/ record_type = RECORD_TYPE_EX_LIN_ADDR /\ SetAddressHi(FALSE)
  \/ /\ record_type = RECORD_TYPE_CRYPT_MODE /\ crypt_mode' = TRUE
     /\ UNCHANGED <<address_hi, ex_segment_addr_mode, ihex_eof_trig>>
  \/ /\ record_type = RECORD_TYPE_EOF /\ ihex_eof_trig' = TRUE
     /\ UNCHANGED <<address_hi, ex_segment_addr_mode, crypt_mode>>
  \/ /\ record_type \in {3, RECORD_TYPE_START_LIN_ADDR}
     /\ UNCHANGED modeVars

\* Mutant: the sum is not tested.
Checksum1Unchecked(c) ==
  LET hc == HexToDec(c)
      valid == 2 * byte_count = data_size_in_nibble IN
  /\ Takes(CHECKSUM_1_STATE, c, hc)
  /\ \/ ~valid /\ DropRest /\ UNCHANGED <<state, modeVars, pending>>
     \/ /\ valid /\ record_type = RECORD_TYPE_DATA
        /\ pending' = TRUE
        /\ GoOn
        /\ UNCHANGED <<state, modeVars>>
     \/ /\ valid /\ record_type # RECORD_TYPE_DATA
        /\ ApplyRecord
        /\ state' = START_CODE_STATE
        /\ GoOn
        /\ UNCHANGED pending
  /\ UNCHANGED <<fieldVars, dataVars>>

\* The last checksum digit.  A rejected record leaves the parser in this
\* state; a data record waits for the callback's answer.
Checksum1(c) ==
  LET hc == HexToDec(c)
      valid == 2 * byte_count = data_size_in_nibble /\ calc_cs' = 0 IN
  /\ Takes(CHECKSUM_1_STATE, c, hc)
  /\ \/ ~valid /\ DropRest /\ UNCHANGED <<state, modeVars, pending>>
     \/ /\ valid /\ record_type = RECORD_TYPE_DATA
        /\ pending' = TRUE
        /\ GoOn
        /\ UNCHANGED <<state, modeVars>>
     \/ /\ valid /\ record_type # RECORD_TYPE_DATA
        /\ ApplyRecord
        /\ state' = START_CODE_STATE
        /\ GoOn
        /\ UNCHANGED pending
  /\ UNCHANGED <<fieldVars, dataVars>>

\* The data callback returns; newData is what it left in the buffer.
CallbackReturn(ok, newData) ==
  /\ pending /\ pending' = FALSE
  /\ data' = newData
  /\ \/ ok /\ state' = START_CODE_STATE /\ UNCHANGED <<left, gap>>
     \/ ~ok /\ UNCHANGED state /\ DropRest
  /\ UNCHANGED <<fieldVars, data_size_in_nibble, csVars, modeVars, consumed>>

\* The buffer after a callback: a full block is decrypted in place.
Overwritten ==
  {data} \cup (IF crypt_mode /\ Len(data) = AES_BLOCKLEN
               THEN [1..Len(data) -> Scratch] ELSE {})

Step(c) ==
  \/ NulChar(c) \/ BadChar(c)
  \/ StartEol(c) \/ StartColon(c) \/ StartBad(c)
  \/ ByteCount(c) \/ Addr(c) \/ RecordType0(c) \/ RecordType1(c)
  \/ Data(c) \/ Checksum0(c) \/ Checksum1(c)

Next ==
  \/ ResetState
  \/ \E size \in Sizes : Call(size)
  \/ \E c \in Alphabet[state] : Step(c)
  \/ \E ok \in BOOLEAN, d \in Overwritten : CallbackReturn(ok, d)

Spec == Init /\ [][Next]_vars

-----------------------------------------------------------------------------
\* Every integer stays within the width of its C type; the parser never
\* leaves the twelve states of its switch (so "default:" is unreachable).
NumbersOK ==
  /\ state \in START_CODE_STATE .. CHECKSUM_1_STATE
  /\ byte_count \in Byte
  /\ address_lo \in HalfWord /\ address_hi \in HalfWord
  /\ record_type \in 0..RECORD_TYPE_START_LIN_ADDR
                     \cup {RECORD_TYPE_CRYPT_MODE}
  /\ data \in Seq(Byte) /\ data_size_in_nibble \in Nat
  /\ temp_cs \in 0..35 /\ calc_cs \in Byte
  /\ left \in Nat /\ consumed \in Nat

FlagsOK ==
  /\ ex_segment_addr_mode \in BOOLEAN
  /\ crypt_mode \in BOOLEAN /\ ihex_eof_trig \in BOOLEAN
  /\ calc_cs_toogle \in BOOLEAN
  /\ pending \in BOOLEAN /\ gap \in BOOLEAN

TypeOK == NumbersOK /\ FlagsOK

\* Where the record is (state) and how much of it the buffer holds agree: no
\* data before the data state, strictly less than announced inside it, exactly
\* what was announced after it; and no byte of the buffer is skipped.
BufferTracksState ==
  /\ state \in BYTE_COUNT_0_STATE .. RECORD_TYPE_1_STATE =>
       data_size_in_nibble = 0
  /\ state = DATA_STATE =>
       /\ byte_count \in 1..IHEX_DATA_SIZE
       /\ data_size_in_nibble < 2 * byte_count
  /\ state \in {CHECKSUM_0_STATE, CHECKSUM_1_STATE} =>
       data_size_in_nibble = 2 * byte_count
  /\ state # START_CODE_STATE =>
       Len(data) = (data_size_in_nibble + 1) \div 2
  /\ pending => state = CHECKSUM_1_STATE

\* The nibbles a record has given when the parser is in the current state.
Position ==
  CASE state \in BYTE_COUNT_0_STATE .. RECORD_TYPE_1_STATE -> state - 1
    [] state = DATA_STATE       -> 8 + data_size_in_nibble
    [] state = CHECKSUM_0_STATE -> 8 + 2 * byte_count
    [] state = CHECKSUM_1_STATE ->
         (IF pending THEN 10 ELSE 9) + 2 * byte_count

\* A record not interrupted has had every nibble up to its state consumed
\* once: neither a call boundary nor a callback loses or repeats one.
NibblesAccounted ==
  state # START_CODE_STATE /\ ~gap => consumed = Position

\* The checksum pairs the nibbles as the sender did: the high half of a byte
\* is never taken for the low half of the one before, also across calls.
ChecksumInStep ==
  state # START_CODE_STATE /\ ~gap =>
    calc_cs_toogle = (consumed % 2 = 1)

\* The inductive invariant of the proofs.
IInv == TypeOK /\ BufferTracksState /\ NibblesAccounted

\* data[b_index] is never written outside the array, whatever the characters,
\* the cuts between calls and the answers of the callback (DATA_STATE case).
BufferSafe ==
  state = DATA_STATE => data_size_in_nibble \div 2 < IHEX_DATA_SIZE

\* The callback gets exactly the bytes the byte-count field announced, and the
\* last announced byte is one the record really wrote, not the memset's zero.
CallbackLengthExact ==
  pending => CallbackSize = byte_count /\ Len(data) = byte_count

\* Unless input was dropped inside it, a record is delivered exactly when its
\* last digit is read: count, address, type, data and checksum nibbles have
\* all been consumed, none twice, wherever the calls cut the record.
DeliveryExact ==
  pending /\ ~gap => consumed = 2 * byte_count + 10

\* The modes that place and decode later records (address_hi, segment mode,
\* crypt mode) and the end-of-file mark change only by ihex_reset_state or by
\* the last digit of a record whose checksum came out 0 and which, unless it
\* was interrupted, has been read to its last nibble.
ModesChangeByRecord ==
  [][modeVars' # modeVars =>
       \/ left = 0 /\ state' = START_CODE_STATE
       \/ /\ state = CHECKSUM_1_STATE /\ calc_cs' = 0
          /\ gap \/ consumed' = 2 * byte_count + 10]_vars

\* A record given to the callback is one contiguous stretch of the input.
\* The code does not keep this: a record interrupted by an error is resumed by
\* the next sector, whose digits can complete or repair its checksum.
RecordIntact == pending => ~gap

=============================================================================
