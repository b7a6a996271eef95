-------------------------- MODULE IhexParserProofs --------------------------
(***************************************************************************)
(* The parser's invariants hold for every set of call lengths, every       *)
(* alphabet, every buffer size of at least 2 bytes and every callback.     *)
(***************************************************************************)
EXTENDS IhexParser, SequenceTheorems, TLAPS

\* HexToDec of any character is a digit value up to 35, or the 'x' that marks
\* an invalid one.
LEMMA HexToDecRange ==
  ASSUME NEW c \in Char
  PROVE  HexToDec(c) \in 0..35 \cup {INVALID_HEX_CHAR}
BY DEF HexToDec, INVALID_HEX_CHAR, Char

\* Reducing modulo the width of an integer stays in the width.
LEMMA ModRange ==
  ASSUME NEW y \in Nat, NEW m \in Nat \ {0}
  PROVE  y % m \in Nat /\ y % m < m
BY SMT

\* Shifting a digit into an integer of a given width stays within the width.
LEMMA ShiftInRange ==
  ASSUME NEW x \in Nat, NEW hc \in 0..35, NEW m \in Nat \ {0}
  PROVE  ShiftIn(x, hc, m) \in Nat /\ ShiftIn(x, hc, m) < m
<1>1. hc \div 16 \in 0..2 /\ hc % 16 \in 0..15
  BY SMT
<1>2. OrHigh(x, hc \div 16) \in Nat
  BY <1>1, SMT DEF OrHigh
<1>3. 16 * OrHigh(x, hc \div 16) + (hc % 16) \in Nat
  BY <1>1, <1>2, SMT
<1>4. /\ (16 * OrHigh(x, hc \div 16) + (hc % 16)) % m \in Nat
      /\ (16 * OrHigh(x, hc \div 16) + (hc % 16)) % m < m
  BY <1>3, ModRange
<1> QED BY <1>4, Zenon DEF ShiftIn

LEMMA ByteFacts == /\ Byte \subseteq Nat /\ 0 \in Byte
                   /\ \A n \in Nat : n < Modulus8 => n \in Byte
                   /\ Modulus8 \in Nat \ {0}
<1>1. Modulus8 \in Nat \ {0}
  BY SMT DEF Modulus8
<1> QED BY <1>1, SMT DEF Byte

LEMMA HalfWordFacts == /\ HalfWord \subseteq Nat /\ 0 \in HalfWord
                       /\ \A n \in Nat : n < Modulus16 => n \in HalfWord
                       /\ Modulus16 \in Nat \ {0}
<1>1. Modulus16 \in Nat \ {0}
  BY SMT DEF Modulus16
<1> QED BY <1>1, SMT DEF HalfWord

LEMMA ModByte ==
  ASSUME NEW y \in Nat
  PROVE  y % Modulus8 \in Byte
BY ModRange, ByteFacts

\* The two widths the parser shifts digits into.
LEMMA ShiftInByte ==
  ASSUME NEW x \in Nat, NEW hc \in 0..35
  PROVE  ShiftIn(x, hc, Modulus8) \in Byte
BY ShiftInRange, ByteFacts

LEMMA ShiftInHalfWord ==
  ASSUME NEW x \in Nat, NEW hc \in 0..35
  PROVE  ShiftIn(x, hc, Modulus16) \in HalfWord /\ ShiftIn(x, hc, Modulus16) \in Nat
BY ShiftInRange, HalfWordFacts

\* DATA_STATE's assignment to data[b_index]: the buffer stays a sequence of
\* bytes, and grows by one byte with the first nibble of a pair only.
LEMMA StoreNibbleGrows ==
  ASSUME NEW hc \in 0..35, data \in Seq(Byte), data_size_in_nibble \in Nat,
         Len(data) = (data_size_in_nibble + 1) \div 2
  PROVE  /\ StoreNibble(hc) \in Seq(Byte)
         /\ Len(StoreNibble(hc)) = (data_size_in_nibble + 2) \div 2
<1>1. CASE data_size_in_nibble % 2 = 0
  <2>1. StoreNibble(hc) = Append(data, hc)
    BY <1>1 DEF StoreNibble
  <2>2. hc \in Byte
    BY SMT DEF Byte, Modulus8
  <2>3. Append(data, hc) \in Seq(Byte) /\ Len(Append(data, hc)) = Len(data) + 1
    BY <2>2, SMT
  <2>4. (data_size_in_nibble + 1) \div 2 + 1 = (data_size_in_nibble + 2) \div 2
    BY <1>1
  <2> QED BY <2>1, <2>3, <2>4
<1>2. CASE data_size_in_nibble % 2 # 0
  <2>1. Len(data) \in 1..Len(data) /\ Len(data) = (data_size_in_nibble + 2) \div 2
    BY <1>2
  <2>2. data[Len(data)] \in Byte
    BY <2>1, ElementOfSeq
  <2>3. data[Len(data)] \in Nat
    BY <2>2, ByteFacts
  <2>4. ShiftIn(data[Len(data)], hc, Modulus8) \in Byte
    BY <2>3, ShiftInByte
  <2>5. StoreNibble(hc) =
          [data EXCEPT ![Len(data)] = ShiftIn(data[Len(data)], hc, Modulus8)]
    BY <1>2 DEF StoreNibble
  <2> QED BY <2>1, <2>4, <2>5, ExceptSeq
<1> QED BY <1>1, <1>2

\* The buffer a callback leaves behind is a buffer of the same length.
LEMMA OverwrittenKeepsLength ==
  ASSUME data \in Seq(Byte), NEW d \in Overwritten
  PROVE  d \in Seq(Byte) /\ Len(d) = Len(data)
<1>1. CASE d = data
  BY <1>1
<1>2. CASE d \in [1..Len(data) -> Scratch]
  <2>1. Len(data) \in Nat
    BY LenProperties
  <2>2. d \in [1..Len(data) -> Byte]
    BY <1>2, ScratchAssumption
  <2>3. d \in Seq(Byte)
    BY <2>1, <2>2, SeqDef
  <2>4. DOMAIN d = 1..Len(d) /\ DOMAIN d = 1..Len(data) /\ Len(d) \in Nat
    BY <2>2, <2>3, LenProperties
  <2>5. Len(d) = Len(data)
    BY <2>1, <2>4
  <2> QED BY <2>3, <2>5
<1> QED BY <1>1, <1>2 DEF Overwritten

-----------------------------------------------------------------------------
USE DEF START_CODE_STATE, BYTE_COUNT_0_STATE, BYTE_COUNT_1_STATE,
        ADDR_0_STATE, ADDR_3_STATE, RECORD_TYPE_0_STATE, RECORD_TYPE_1_STATE,
        DATA_STATE, CHECKSUM_0_STATE, CHECKSUM_1_STATE

\* The prologue of the states 1..11 keeps the checksum variables in range and
\* counts the nibble.
LEMMA TakesEffect ==
  ASSUME TypeOK, NEW c \in Char, NEW s, Takes(s, c, HexToDec(c))
  PROVE  /\ HexToDec(c) \in 0..35
         /\ state = s /\ ~pending /\ left \in Nat \ {0}
         /\ temp_cs' \in 0..35 /\ calc_cs' \in Byte
         /\ calc_cs_toogle' \in BOOLEAN
         /\ consumed' \in Nat
         /\ ~gap => consumed' = consumed + 1
<1>1. HexToDec(c) \in 0..35
  BY HexToDecRange DEF Takes
<1>2. calc_cs \in Nat /\ temp_cs \in 0..35 /\ temp_cs \in Nat
  BY ByteFacts DEF TypeOK, NumbersOK
<1>3. ShiftIn(temp_cs, HexToDec(c), Modulus16) \in Nat
  BY <1>1, <1>2, ShiftInHalfWord
<1>4. temp_cs' \in 0..35
  BY <1>1, <1>2 DEF Takes, FoldChecksum
<1>5. calc_cs' \in Byte
  <2>1. calc_cs + ShiftIn(temp_cs, HexToDec(c), Modulus16) \in Nat
    BY <1>2, <1>3
  <2>2. (calc_cs + ShiftIn(temp_cs, HexToDec(c), Modulus16)) % Modulus8 \in Byte
    BY <2>1, ModByte
  <2> QED BY <2>2, Zenon DEF Takes, FoldChecksum, TypeOK, NumbersOK
<1>6. calc_cs_toogle' \in BOOLEAN
  BY Zenon DEF Takes, FoldChecksum
<1>7. consumed' \in Nat /\ (~gap => consumed' = consumed + 1)
  BY DEF Takes, FoldChecksum, TypeOK, NumbersOK
<1>8. state = s /\ ~pending /\ left \in Nat \ {0}
  BY DEF Takes, Reading, TypeOK, NumbersOK
<1> QED BY <1>1, <1>4, <1>5, <1>6, <1>7, <1>8, Zenon

-----------------------------------------------------------------------------
LEMMA InitIInv == Init => IInv
<1>1. <<>> \in Seq(Byte) /\ 0 \in Byte /\ 0 \in HalfWord
  BY EmptySeq, ByteFacts, HalfWordFacts
<1>2. Init => NumbersOK
  BY <1>1, SMT
     DEF Init, NumbersOK, RECORD_TYPE_DATA, RECORD_TYPE_START_LIN_ADDR
<1>3. Init => FlagsOK
  BY Zenon DEF Init, FlagsOK
<1>4. Init => BufferTracksState /\ NibblesAccounted
  BY DEF Init, BufferTracksState, NibblesAccounted
<1> QED BY <1>2, <1>3, <1>4 DEF IInv, TypeOK

\* Actions that leave the record being read alone.
LEMMA IdleSteps ==
  ASSUME IInv, ResetState \/ \E size \in Sizes : Call(size)
  PROVE  IInv'
<1>. USE DEF fieldVars, dataVars, csVars, modeVars
<1>1. CASE ResetState
  <2>1. NumbersOK'
    BY <1>1, HalfWordFacts, SMT DEF ResetState, IInv, TypeOK, NumbersOK
  <2>2. FlagsOK'
    BY <1>1, Zenon DEF ResetState, IInv, TypeOK, FlagsOK
  <2>3. BufferTracksState' /\ NibblesAccounted'
    BY <1>1 DEF ResetState, BufferTracksState, NibblesAccounted
  <2> QED BY <2>1, <2>2, <2>3, Zenon DEF IInv, TypeOK
<1>2. ASSUME NEW size \in Sizes, Call(size) PROVE IInv'
  <2>1. NumbersOK'
    BY <1>2, SizesAssumption, SMT DEF Call, IInv, TypeOK, NumbersOK
  <2>2. FlagsOK'
    BY <1>2, Zenon DEF Call, IInv, TypeOK, FlagsOK
  <2>3. BufferTracksState' /\ NibblesAccounted'
    BY <1>2 DEF Call, IInv, BufferTracksState, NibblesAccounted, Position
  <2> QED BY <2>1, <2>2, <2>3, Zenon DEF IInv, TypeOK
<1> QED BY <1>1, <1>2

\* A call that ends early, in the middle of a record or between two.
LEMMA EarlyEnds ==
  ASSUME IInv, NEW c \in Char, NulChar(c) \/ BadChar(c)
  PROVE  IInv'
<1>1. /\ UNCHANGED <<state, fieldVars, dataVars, csVars, modeVars, pending,
                     consumed>>
      /\ left' = 0 /\ gap' = (gap \/ state # START_CODE_STATE)
  BY DEF NulChar, BadChar, DropRest
<1>. USE DEF fieldVars, dataVars, csVars, modeVars, IInv, TypeOK
<1>2. NumbersOK'
  BY <1>1, SMT DEF NumbersOK
<1>3. FlagsOK'
  BY <1>1, Zenon DEF FlagsOK
<1>4. BufferTracksState'
  BY <1>1 DEF BufferTracksState
<1>5. NibblesAccounted'
  BY <1>1 DEF NibblesAccounted
<1> QED BY <1>2, <1>3, <1>4, <1>5, Zenon

LEMMA StartSteps ==
  ASSUME IInv, NEW c \in Char, StartEol(c) \/ StartColon(c) \/ StartBad(c)
  PROVE  IInv'
<1>. USE DEF StartPrologue, Reading, IInv, TypeOK, fieldVars, dataVars, modeVars
<1>0. 0 \in Byte /\ 0 \in HalfWord /\ <<>> \in Seq(Byte) /\ Len(<<>>) = 0
  BY ByteFacts, HalfWordFacts, EmptySeq
<1>1. CASE StartEol(c)
  <2>1. NumbersOK'
    BY <1>0, <1>1, SMT DEF StartEol, GoOn, NumbersOK
  <2>2. FlagsOK'
    BY <1>1, Zenon DEF StartEol, GoOn, FlagsOK
  <2>3. BufferTracksState' /\ NibblesAccounted'
    BY <1>1 DEF StartEol, BufferTracksState, NibblesAccounted
  <2> QED BY <2>1, <2>2, <2>3, Zenon
<1>2. CASE StartColon(c)
  <2>1. NumbersOK'
    BY <1>0, <1>2, SMT DEF StartColon, NumbersOK, RECORD_TYPE_DATA,
                           RECORD_TYPE_START_LIN_ADDR
  <2>2. FlagsOK'
    BY <1>2, Zenon DEF StartColon, FlagsOK
  <2>3. BufferTracksState' /\ NibblesAccounted'
    BY <1>0, <1>2 DEF StartColon, BufferTracksState, NibblesAccounted, Position
  <2> QED BY <2>1, <2>2, <2>3, Zenon
<1>3. CASE StartBad(c)
  <2>1. NumbersOK'
    BY <1>0, <1>3, SMT DEF StartBad, DropRest, NumbersOK
  <2>2. FlagsOK'
    BY <1>3, Zenon DEF StartBad, DropRest, FlagsOK
  <2>3. BufferTracksState' /\ NibblesAccounted'
    BY <1>3 DEF StartBad, BufferTracksState, NibblesAccounted
  <2> QED BY <2>1, <2>2, <2>3, Zenon
<1> QED BY <1>1, <1>2, <1>3

\* Dropping the rest of a call inside a record marks the record.
LEMMA DropMarks ==
  ASSUME state # START_CODE_STATE, DropRest
  PROVE  left' = 0 /\ gap'
BY Zenon DEF DropRest

\* Count, address and type digits: the buffer is still empty.
LEMMA HeaderSteps ==
  ASSUME IInv, NEW c \in Char,
         ByteCount(c) \/ Addr(c) \/ RecordType0(c) \/ RecordType1(c)
  PROVE  IInv'
<1>. DEFINE hc == HexToDec(c)
<1>. USE DEF fieldVars, dataVars, csVars, modeVars
<1>1. PICK s \in BYTE_COUNT_0_STATE .. RECORD_TYPE_1_STATE : Takes(s, c, hc)
  BY DEF ByteCount, Addr, RecordType0, RecordType1
<1>2. /\ hc \in 0..35 /\ state = s /\ ~pending /\ left \in Nat \ {0}
      /\ temp_cs' \in 0..35 /\ calc_cs' \in Byte
      /\ calc_cs_toogle' \in BOOLEAN /\ consumed' \in Nat
      /\ ~gap => consumed' = consumed + 1
  BY <1>1, TakesEffect DEF IInv
<1>3. data_size_in_nibble = 0 /\ Len(data) = (data_size_in_nibble + 1) \div 2
      /\ (~gap => consumed = s - 1)
  BY <1>2 DEF IInv, BufferTracksState, NibblesAccounted, Position
<1>4. /\ ShiftIn(byte_count, hc, Modulus8) \in Byte
      /\ ShiftIn(address_lo, hc, Modulus16) \in HalfWord
  <2>1. byte_count \in Nat /\ address_lo \in Nat
    BY ByteFacts, HalfWordFacts DEF IInv, TypeOK, NumbersOK
  <2> QED BY <1>2, <2>1, ShiftInByte, ShiftInHalfWord
<1>. HIDE DEF hc
<1>. USE DEF IInv, TypeOK, GoOn
<1>5. CASE ByteCount(c)
  <2>1. s \in 1..2 /\ state' = s + 1
    BY <1>2, <1>5 DEF ByteCount, Takes, hc
  <2>2. NumbersOK'
    BY <1>2, <1>4, <1>5, <2>1, SMT DEF ByteCount, NumbersOK, hc
  <2>3. FlagsOK'
    BY <1>2, <1>5, Zenon DEF ByteCount, FlagsOK
  <2>4. BufferTracksState' /\ NibblesAccounted'
    BY <1>2, <1>3, <1>5, <2>1
       DEF ByteCount, BufferTracksState, NibblesAccounted, Position
  <2> QED BY <2>2, <2>3, <2>4, Zenon
<1>6. CASE Addr(c)
  <2>1. s \in 3..6 /\ state' = s + 1
    BY <1>2, <1>6 DEF Addr, Takes, hc
  <2>2. NumbersOK'
    BY <1>2, <1>4, <1>6, <2>1, SMT DEF Addr, NumbersOK, hc
  <2>3. FlagsOK'
    BY <1>2, <1>6, Zenon DEF Addr, FlagsOK
  <2>4. BufferTracksState' /\ NibblesAccounted'
    BY <1>2, <1>3, <1>6, <2>1
       DEF Addr, BufferTracksState, NibblesAccounted, Position
  <2> QED BY <2>2, <2>3, <2>4, Zenon
<1>7. CASE RecordType0(c)
  <2>0. s = 7
    BY <1>2, <1>7 DEF RecordType0, Takes
  <2>1. /\ UNCHANGED <<fieldVars, dataVars, modeVars, pending>>
        /\ \/ state' = 7 /\ left' = 0 /\ gap'
           \/ state' = 8 /\ left' = left - 1 /\ gap' = gap
    BY <1>2, <1>7, <2>0, DropMarks, SMT DEF RecordType0
  <2>2. NumbersOK'
    BY <1>2, <2>1, SMT DEF NumbersOK
  <2>3. FlagsOK'
    BY <1>2, <1>7, Zenon DEF RecordType0, DropRest, FlagsOK
  <2>4. BufferTracksState' /\ NibblesAccounted'
    BY <1>2, <1>3, <2>0, <2>1 DEF BufferTracksState, NibblesAccounted, Position
  <2> QED BY <2>2, <2>3, <2>4, Zenon
<1>8. CASE RecordType1(c)
  <2>0. s = 8
    BY <1>2, <1>8 DEF RecordType1, Takes
  <2>1. /\ UNCHANGED <<byte_count, address_lo, dataVars, modeVars, pending>>
        /\ \/ state' = 8 /\ left' = 0 /\ gap'
           \/ byte_count = 0 /\ state' = 10 /\ left' = left - 1 /\ gap' = gap
           \/ byte_count \in 1..IHEX_DATA_SIZE /\ state' = 9
              /\ left' = left - 1 /\ gap' = gap
    BY <1>2, <1>8, <2>0, DropMarks, SMT DEF RecordType1
  <2>2. record_type' = record_type \/ (record_type' = hc /\ KnownType(hc))
    BY <1>8 DEF RecordType1, hc
  <2>3. record_type' \in 0..RECORD_TYPE_START_LIN_ADDR
                          \cup {RECORD_TYPE_CRYPT_MODE}
    BY <1>2, <2>2, SMT DEF NumbersOK, KnownType, RECORD_TYPE_START_LIN_ADDR
  <2>4. NumbersOK'
    BY <1>2, <2>1, <2>3, SMT DEF NumbersOK
  <2>5. FlagsOK'
    BY <1>2, <1>8, Zenon DEF RecordType1, DropRest, FlagsOK
  <2>6. byte_count \in Nat
    BY ByteFacts DEF NumbersOK
  <2>7. BufferTracksState'
    BY <1>2, <1>3, <2>0, <2>1, <2>6 DEF BufferTracksState
  <2>8. NibblesAccounted'
    BY <1>2, <1>3, <2>0, <2>1, <2>6 DEF NibblesAccounted, Position
  <2> QED BY <2>4, <2>5, <2>7, <2>8, Zenon
<1> QED BY <1>5, <1>6, <1>7, <1>8

\* A data digit goes into the buffer; the last one leads to the checksum.
LEMMA DataStep ==
  ASSUME IInv, NEW c \in Char, Data(c)
  PROVE  IInv'
<1>. DEFINE hc == HexToDec(c)
<1>. USE DEF IInv, TypeOK, fieldVars, dataVars, csVars, modeVars
<1>1. /\ hc \in 0..35 /\ state = 9 /\ ~pending /\ left \in Nat \ {0}
      /\ temp_cs' \in 0..35 /\ calc_cs' \in Byte
      /\ calc_cs_toogle' \in BOOLEAN /\ consumed' \in Nat
      /\ ~gap => consumed' = consumed + 1
  BY TakesEffect DEF Data
<1>. HIDE DEF hc
<1>2. /\ byte_count \in Nat /\ data_size_in_nibble \in Nat /\ data \in Seq(Byte)
      /\ data_size_in_nibble < 2 * byte_count
      /\ byte_count \in 1..IHEX_DATA_SIZE
      /\ Len(data) = (data_size_in_nibble + 1) \div 2
      /\ ~gap => consumed = 8 + data_size_in_nibble
  BY <1>1, ByteFacts
     DEF NumbersOK, BufferTracksState, NibblesAccounted, Position
<1>3. /\ data' = StoreNibble(hc)
      /\ data_size_in_nibble' = data_size_in_nibble + 1
      /\ state' = IF data_size_in_nibble' \div 2 >= byte_count THEN 10 ELSE 9
      /\ UNCHANGED <<byte_count, address_lo, record_type, address_hi, pending,
                     gap>>
      /\ left' = left - 1
  BY DEF Data, GoOn, hc
<1>4. data' \in Seq(Byte) /\ Len(data') = (data_size_in_nibble + 2) \div 2
  BY <1>1, <1>2, <1>3, StoreNibbleGrows
<1>5. \/ state' = 9 /\ data_size_in_nibble' < 2 * byte_count
      \/ state' = 10 /\ data_size_in_nibble' = 2 * byte_count
  BY <1>2, <1>3, SMT
<1>6. NumbersOK'
  BY <1>1, <1>2, <1>3, <1>4, <1>5, SMT DEF NumbersOK
<1>7. FlagsOK'
  BY <1>1, Zenon DEF Data, GoOn, FlagsOK
<1>8. BufferTracksState'
  BY <1>1, <1>2, <1>3, <1>4, <1>5, SMT DEF BufferTracksState
<1>9. NibblesAccounted'
  BY <1>1, <1>2, <1>3, <1>5, SMT DEF NibblesAccounted, Position
<1> QED BY <1>6, <1>7, <1>8, <1>9, Zenon

\* The two bytes of an address record fit the 16 bits of address_hi.
LEMMA AddressHiRange ==
  ASSUME data \in Seq(Byte)
  PROVE  Modulus8 * DataAt(0) + DataAt(1) \in HalfWord
<1>1. \A i \in Nat : DataAt(i) \in Byte
  <2>1. SUFFICES ASSUME NEW i \in Nat PROVE DataAt(i) \in Byte
    OBVIOUS
  <2>2. CASE i < Len(data)
    <3>1. i + 1 \in 1..Len(data)
      BY <2>2
    <3>2. data[i + 1] \in Byte
      BY <3>1, ElementOfSeq
    <3> QED BY <2>2, <3>2 DEF DataAt
  <2>3. CASE ~(i < Len(data))
    BY <2>3, ByteFacts DEF DataAt
  <2> QED BY <2>2, <2>3
<1>2. DataAt(0) \in Byte /\ DataAt(1) \in Byte
  BY <1>1
<1>3. ASSUME NEW x \in Byte, NEW y \in Byte
      PROVE  Modulus8 * x + y \in HalfWord
  <2>1. x \in Nat /\ y \in Nat /\ x < Modulus8 /\ y < Modulus8
    BY ByteFacts, SMT DEF Byte
  <2>2. Modulus8 * x + y \in Nat /\ Modulus8 * x + y < Modulus16
    BY <2>1, SMT DEF Modulus8, Modulus16
  <2> QED BY <2>2, HalfWordFacts
<1> QED BY <1>2, <1>3

\* The checksum digits and what a complete record does to the modes.
LEMMA ChecksumSteps ==
  ASSUME IInv, NEW c \in Char, Checksum0(c) \/ Checksum1(c)
  PROVE  IInv'
<1>. USE DEF IInv, TypeOK, fieldVars, dataVars, csVars, modeVars
<1>0. byte_count \in Nat
  BY ByteFacts DEF NumbersOK
<1>1. CASE Checksum0(c)
  <2>1. /\ state = 10 /\ ~pending /\ left \in Nat \ {0}
        /\ temp_cs' \in 0..35 /\ calc_cs' \in Byte
        /\ calc_cs_toogle' \in BOOLEAN /\ consumed' \in Nat
        /\ ~gap => consumed' = consumed + 1
    BY <1>1, TakesEffect DEF Checksum0
  <2>2. NumbersOK'
    BY <1>1, <2>1, SMT DEF Checksum0, GoOn, NumbersOK
  <2>3. FlagsOK'
    BY <1>1, <2>1, Zenon DEF Checksum0, GoOn, FlagsOK
  <2>4. BufferTracksState'
    BY <1>1, <2>1 DEF Checksum0, BufferTracksState
  <2>5. NibblesAccounted'
    BY <1>0, <1>1, <2>1 DEF Checksum0, GoOn, NibblesAccounted, Position
  <2> QED BY <2>2, <2>3, <2>4, <2>5, Zenon
<1>2. CASE Checksum1(c)
  <2>1. /\ state = 11 /\ ~pending /\ left \in Nat \ {0}
        /\ temp_cs' \in 0..35 /\ calc_cs' \in Byte
        /\ calc_cs_toogle' \in BOOLEAN /\ consumed' \in Nat
        /\ ~gap => consumed' = consumed + 1
    BY <1>2, TakesEffect DEF Checksum1
  <2>2. \/ DropRest /\ UNCHANGED <<state, modeVars, pending>>
        \/ pending' = TRUE /\ GoOn /\ UNCHANGED <<state, modeVars>>
        \/ ApplyRecord /\ state' = 0 /\ GoOn /\ UNCHANGED pending
    BY <1>2 DEF Checksum1
  <2>3. UNCHANGED <<fieldVars, dataVars>>
    BY <1>2 DEF Checksum1
  <2>4. CASE DropRest /\ UNCHANGED <<state, modeVars, pending>>
    <3>1. left' = 0 /\ gap'
      BY <2>1, <2>4, DropMarks
    <3>2. NumbersOK'
      BY <2>1, <2>3, <2>4, <3>1, SMT DEF NumbersOK
    <3>3. FlagsOK'
      BY <2>1, <2>4, Zenon DEF DropRest, FlagsOK
    <3>4. BufferTracksState' /\ NibblesAccounted'
      BY <2>1, <2>3, <2>4, <3>1 DEF BufferTracksState, NibblesAccounted
    <3> QED BY <3>2, <3>3, <3>4, Zenon
  <2>5. CASE pending' = TRUE /\ GoOn /\ UNCHANGED <<state, modeVars>>
    <3>1. NumbersOK'
      BY <2>1, <2>3, <2>5, SMT DEF GoOn, NumbersOK
    <3>2. FlagsOK'
      BY <2>1, <2>5, Zenon DEF GoOn, FlagsOK
    <3>3. BufferTracksState'
      BY <2>1, <2>3, <2>5 DEF BufferTracksState
    <3>4. NibblesAccounted'
      BY <1>0, <2>1, <2>3, <2>5 DEF GoOn, NibblesAccounted, Position
    <3> QED BY <3>1, <3>2, <3>3, <3>4, Zenon
  <2>6. CASE ApplyRecord /\ state' = 0 /\ GoOn /\ UNCHANGED pending
    <3>1. address_hi' \in HalfWord
      BY <2>6, AddressHiRange DEF ApplyRecord, SetAddressHi, NumbersOK
    <3>2. NumbersOK'
      BY <2>1, <2>3, <2>6, <3>1, SMT DEF GoOn, NumbersOK
    <3>3. /\ ex_segment_addr_mode' \in BOOLEAN /\ crypt_mode' \in BOOLEAN
          /\ ihex_eof_trig' \in BOOLEAN
      BY <2>6, Zenon DEF ApplyRecord, SetAddressHi, FlagsOK
    <3>4. FlagsOK'
      BY <2>1, <2>6, <3>3, Zenon DEF GoOn, FlagsOK
    <3>5. BufferTracksState' /\ NibblesAccounted'
      BY <2>1, <2>6 DEF BufferTracksState, NibblesAccounted
    <3> QED BY <3>2, <3>4, <3>5, Zenon
  <2> QED BY <2>2, <2>4, <2>5, <2>6
<1> QED BY <1>1, <1>2

\* The callback's answer, and the block a decrypting callback leaves.
LEMMA CallbackStep ==
  ASSUME IInv, NEW ok \in BOOLEAN, NEW d \in Overwritten, CallbackReturn(ok, d)
  PROVE  IInv'
<1>. USE DEF IInv, TypeOK, fieldVars, csVars, modeVars
<1>1. d \in Seq(Byte) /\ Len(d) = Len(data)
  BY OverwrittenKeepsLength DEF NumbersOK
<1>2. /\ state = 11 /\ pending' = FALSE /\ data' = d
      /\ UNCHANGED <<byte_count, address_lo, record_type, data_size_in_nibble,
                     temp_cs, calc_cs, address_hi, consumed>>
  BY DEF CallbackReturn, BufferTracksState
<1>3. \/ state' = 0 /\ UNCHANGED <<left, gap>>
      \/ state' = 11 /\ left' = 0 /\ gap'
  BY <1>2, DropMarks DEF CallbackReturn
<1>4. NumbersOK'
  BY <1>1, <1>2, <1>3, SMT DEF NumbersOK
<1>5. FlagsOK'
  BY Zenon DEF CallbackReturn, DropRest, FlagsOK
<1>6. BufferTracksState' /\ NibblesAccounted'
  BY <1>1, <1>2, <1>3 DEF BufferTracksState, NibblesAccounted
<1> QED BY <1>4, <1>5, <1>6, Zenon

LEMMA StutterStep ==
  ASSUME IInv, UNCHANGED vars
  PROVE  IInv'
BY DEF vars, fieldVars, dataVars, csVars, modeVars, IInv, TypeOK, NumbersOK,
       FlagsOK, BufferTracksState, NibblesAccounted, Position

\* Every step of the parser keeps the inductive invariant.
LEMMA NextIInv == IInv /\ [Next]_vars => IInv'
<1>1. SUFFICES ASSUME IInv, Next PROVE IInv'
  BY StutterStep
<1>2. ASSUME NEW c \in Alphabet[state], Step(c) PROVE IInv'
  <2>1. c \in Char
    <3>1. state \in 0..11
      BY <1>1, SMT DEF IInv, TypeOK, NumbersOK
    <3>2. Alphabet[state] \in SUBSET Char
      BY <3>1, AlphabetAssumption
    <3> QED BY <1>2, <3>2
  <2> QED BY <1>1, <1>2, <2>1, EarlyEnds, StartSteps, HeaderSteps, DataStep,
             ChecksumSteps DEF Step
<1> QED BY <1>1, <1>2, IdleSteps, CallbackStep DEF Next

-----------------------------------------------------------------------------
THEOREM Invariance == Spec => []IInv
BY InitIInv, NextIInv, PTL DEF Spec

\* Type correctness: no integer of the parser leaves the width of its C type,
\* and its switch never reaches "default:".
THEOREM TypeCorrect == Spec => []TypeOK
<1>1. IInv => TypeOK
  BY DEF IInv
<1> QED BY <1>1, Invariance, PTL

\* data[b_index] is written inside the array only, for every input, every cut
\* of it into calls and every answer of the callback.
THEOREM BufferIsSafe == Spec => []BufferSafe
<1>1. IInv => BufferSafe
  BY ByteFacts, DataSizeAssumption, SMT
     DEF IInv, TypeOK, NumbersOK, BufferTracksState, BufferSafe
<1> QED BY <1>1, Invariance, PTL

\* The flash writer gets exactly the announced bytes, all of them received.
THEOREM CallbackLengthIsExact == Spec => []CallbackLengthExact
<1>1. IInv => CallbackLengthExact
  BY ByteFacts, SMT DEF IInv, TypeOK, NumbersOK, BufferTracksState,
                    CallbackLengthExact, CallbackSize
<1> QED BY <1>1, Invariance, PTL

\* A record that was not interrupted is delivered when all of its nibbles have
\* been read, each once, however the calls cut it.
THEOREM DeliveryIsExact == Spec => []DeliveryExact
<1>1. IInv => DeliveryExact
  BY ByteFacts, SMT DEF IInv, TypeOK, NumbersOK, BufferTracksState,
                    NibblesAccounted, Position, DeliveryExact
<1> QED BY <1>1, Invariance, PTL

-----------------------------------------------------------------------------
\* One more nibble flips the parity of the count.
LEMMA NextParity ==
  ASSUME NEW n \in Nat
  PROVE  ((n + 1) % 2 = 1) <=> ~(n % 2 = 1)
BY SMT

\* A digit inside a record flips the toggle and, in a record not interrupted,
\* is counted: the two stay in step.
LEMMA TakesKeepsStep ==
  ASSUME TypeOK, ChecksumInStep, NEW c \in Char,
         NEW s \in BYTE_COUNT_0_STATE .. CHECKSUM_1_STATE,
         Takes(s, c, HexToDec(c)), gap => gap'
  PROVE  ChecksumInStep'
<1>1. SUFFICES ASSUME ~(gap') PROVE calc_cs_toogle' = (consumed' % 2 = 1)
  BY DEF ChecksumInStep
<1>2. ~gap
  BY <1>1, Zenon
<1>3. state # START_CODE_STATE
  BY SMT DEF Takes
<1>4. calc_cs_toogle = (consumed % 2 = 1)
  BY <1>2, <1>3, Zenon DEF ChecksumInStep
<1>5. consumed' = consumed + 1 /\ consumed \in Nat
  BY <1>2, SMT DEF Takes, FoldChecksum, TypeOK, NumbersOK
<1>6. (consumed' % 2 = 1) <=> ~(consumed % 2 = 1)
  BY <1>5, NextParity
<1>7. calc_cs_toogle' = ~calc_cs_toogle
  BY Zenon DEF Takes, FoldChecksum
<1> QED BY <1>4, <1>6, <1>7, Zenon

\* A step of the parser proper keeps the checksum in step with the nibbles.
LEMMA StepKeepsStep ==
  ASSUME IInv, ChecksumInStep, NEW c \in Char, Step(c)
  PROVE  ChecksumInStep'
<1>0. TypeOK
  BY Zenon DEF IInv
<1>1. ASSUME NulChar(c) \/ BadChar(c) PROVE ChecksumInStep'
  <2>1. /\ UNCHANGED <<state, csVars, consumed>>
        /\ gap' = (gap \/ state # START_CODE_STATE)
    BY <1>1 DEF NulChar, BadChar, DropRest
  <2> QED BY <2>1, Zenon DEF ChecksumInStep, csVars
<1>2. ASSUME StartEol(c) \/ StartBad(c) PROVE ChecksumInStep'
  <2>1. state' = START_CODE_STATE
    BY <1>2, Zenon DEF StartEol, StartBad, StartPrologue
  <2> QED BY <2>1, Zenon DEF ChecksumInStep
<1>3. ASSUME StartColon(c) PROVE ChecksumInStep'
  <2>1. calc_cs_toogle' = FALSE /\ consumed' = 0
    BY <1>3, Zenon DEF StartColon, StartPrologue
  <2>2. ~(consumed' % 2 = 1)
    BY <2>1, SMT
  <2> QED BY <2>1, <2>2, Zenon DEF ChecksumInStep
<1>4. ASSUME \/ ByteCount(c) \/ Addr(c) \/ RecordType0(c) \/ RecordType1(c)
             \/ Data(c) \/ Checksum0(c) \/ Checksum1(c)
      PROVE  ChecksumInStep'
  <2>1. PICK s \in BYTE_COUNT_0_STATE .. CHECKSUM_1_STATE :
          Takes(s, c, HexToDec(c))
    BY <1>4, SMT DEF ByteCount, Addr, RecordType0, RecordType1, Data,
                     Checksum0, Checksum1
  <2>2. gap' = gap \/ gap' = (gap \/ state # START_CODE_STATE)
    BY <1>4, Zenon DEF ByteCount, Addr, RecordType0, RecordType1, Data,
                       Checksum0, Checksum1, GoOn, DropRest
  <2>3. gap => gap'
    BY <2>2, Zenon
  <2> QED BY <1>0, <2>1, <2>3, TakesKeepsStep
<1> QED BY <1>1, <1>2, <1>3, <1>4, Zenon DEF Step

\* Every character the environment offers is a character.
LEMMA OfferedIsChar ==
  ASSUME TypeOK, NEW c \in Alphabet[state]
  PROVE  c \in Char
<1>1. state \in 0..11
  BY SMT DEF TypeOK, NumbersOK
<1>2. Alphabet[state] \in SUBSET Char
  BY <1>1, AlphabetAssumption
<1> QED BY <1>2

\* The checksum pairs the nibbles of a record as its sender did, whatever the
\* cuts between calls, the end-of-line characters and the callback's answers.
THEOREM ChecksumKeepsStep == Spec => []ChecksumInStep
<1>1. Init => ChecksumInStep
  BY Zenon DEF Init, ChecksumInStep
<1>2. IInv /\ ChecksumInStep /\ [Next]_vars => ChecksumInStep'
  <2>1. SUFFICES ASSUME IInv, ChecksumInStep, [Next]_vars
                 PROVE  ChecksumInStep'
    BY Zenon
  <2>2. TypeOK
    BY <2>1, Zenon DEF IInv
  <2>3. CASE ResetState
    BY <2>3, Zenon DEF ResetState, ChecksumInStep
  <2>4. ASSUME NEW size \in Sizes, Call(size) PROVE ChecksumInStep'
    BY <2>1, <2>4, Zenon DEF Call, ChecksumInStep, csVars
  <2>5. ASSUME NEW c \in Alphabet[state], Step(c) PROVE ChecksumInStep'
    BY <2>1, <2>2, <2>5, OfferedIsChar, StepKeepsStep
  <2>6. ASSUME NEW ok \in BOOLEAN, NEW d \in Overwritten,
               CallbackReturn(ok, d)
        PROVE  ChecksumInStep'
    <3>1. UNCHANGED <<csVars, consumed>>
      BY <2>6, Zenon DEF CallbackReturn
    <3>2. \/ state' = START_CODE_STATE
          \/ state' = state /\ gap' = (gap \/ state # START_CODE_STATE)
      BY <2>6, Zenon DEF CallbackReturn, DropRest
    <3> QED BY <2>1, <3>1, <3>2, Zenon DEF ChecksumInStep, csVars
  <2>7. CASE UNCHANGED vars
    BY <2>1, <2>7, Zenon DEF vars, csVars, ChecksumInStep
  <2> QED BY <2>1, <2>3, <2>4, <2>5, <2>6, <2>7 DEF Next
<1> QED BY <1>1, <1>2, Invariance, PTL DEF Spec

-----------------------------------------------------------------------------
\* Only ihex_reset_state and the last checksum digit touch the modes.
LEMMA OthersKeepModes ==
  ASSUME NEW c, Step(c), ~Checksum1(c)
  PROVE  modeVars' = modeVars
BY Zenon DEF Step, NulChar, BadChar, StartEol, StartColon, StartBad,
   ByteCount, Addr, RecordType0, RecordType1, Data, Checksum0

\* The last digit changes them only after a sum of 0, and then the record, if
\* it was not interrupted, has been read to its last nibble.
LEMMA Checksum1Modes ==
  ASSUME IInv, NEW c \in Char, Checksum1(c), modeVars' # modeVars
  PROVE  /\ state = CHECKSUM_1_STATE /\ calc_cs' = 0
         /\ gap \/ consumed' = 2 * byte_count + 10
<1>1. Takes(CHECKSUM_1_STATE, c, HexToDec(c)) /\ calc_cs' = 0
  BY Zenon DEF Checksum1
<1>2. TypeOK /\ NibblesAccounted
  BY Zenon DEF IInv
<1>3. /\ state = CHECKSUM_1_STATE /\ ~pending
      /\ ~gap => consumed' = consumed + 1
  BY <1>1, <1>2, TakesEffect
<1>4. byte_count \in Nat
  BY <1>2, ByteFacts DEF TypeOK, NumbersOK
<1>5. ~gap => consumed = 9 + 2 * byte_count
  BY <1>2, <1>3, SMT DEF NibblesAccounted, Position
<1>6. ~gap => consumed' = 2 * byte_count + 10
  BY <1>3, <1>4, <1>5, SMT
<1> QED BY <1>1, <1>3, <1>6, Zenon

\* What places and decodes later records changes only by ihex_reset_state or
\* by a record that was checked and, unless interrupted, read in full.
THEOREM ModesChangeOnlyByRecord == Spec => ModesChangeByRecord
<1>. DEFINE Accounted ==
       \/ left = 0 /\ state' = START_CODE_STATE
       \/ /\ state = CHECKSUM_1_STATE /\ calc_cs' = 0
          /\ gap \/ consumed' = 2 * byte_count + 10
<1>1. IInv /\ [Next]_vars => [modeVars' # modeVars => Accounted]_vars
  <2>1. SUFFICES ASSUME IInv, Next, modeVars' # modeVars PROVE Accounted
    BY Zenon
  <2>2. CASE ResetState
    BY <2>2, Zenon DEF ResetState
  <2>3. ASSUME NEW size \in Sizes, Call(size) PROVE Accounted
    BY <2>1, <2>3, Zenon DEF Call
  <2>4. ASSUME NEW c \in Alphabet[state], Step(c) PROVE Accounted
    <3>1. Checksum1(c)
      BY <2>1, <2>4, OthersKeepModes
    <3>2. c \in Char
      BY <2>1, OfferedIsChar DEF IInv
    <3> QED BY <2>1, <3>1, <3>2, Checksum1Modes
  <2>5. ASSUME NEW ok \in BOOLEAN, NEW d \in Overwritten,
               CallbackReturn(ok, d)
        PROVE  Accounted
    BY <2>1, <2>5, Zenon DEF CallbackReturn
  <2> QED BY <2>1, <2>2, <2>3, <2>4, <2>5 DEF Next
<1>2. Spec => [][modeVars' # modeVars => Accounted]_vars
  BY <1>1, Invariance, PTL DEF Spec
<1> QED BY <1>2, Zenon DEF ModesChangeByRecord, Accounted

=============================================================================
