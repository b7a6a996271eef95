---------------------------- MODULE MC_IhexParser ----------------------------
(***************************************************************************)
(* IhexParser for TLC: short calls, and in each state the characters that  *)
(* make its branches differ.  Counts go to 3 with a buffer of 2 bytes, so  *)
(* the byte-count check has both outcomes.                                 *)
(***************************************************************************)
EXTENDS IhexParser

Digit0 == 48
Digit1 == 49
Digit2 == 50
Digit3 == 51
Digit4 == 52
Digit5 == 53
Digit8 == 56
LetterA == 65
LetterB == 66
LetterC == 67
LetterD == 68
LetterE == 69   \* with the leading 0, the crypt-mode type
LetterF == 70
LowerG == 103   \* a letter HexToDec takes for 16
Junk == 33      \* '!', no digit and no separator

MC_Sizes == {3}

\* Whole records of every type and an unknown one, with right and wrong
\* checksums, lengths the buffer holds and one it does not, stray letters, noise
\* and early ends.
RecordAlphabet ==
  [s \in 0..11 |->
     CASE s = START_CODE_STATE    -> {10, COLON, Junk}
       [] s = BYTE_COUNT_0_STATE  -> {Digit0}
       [] s = BYTE_COUNT_1_STATE  -> {Digit0, Digit2, Digit3}
       [] s \in 3..5              -> {Digit0}
       [] s = ADDR_3_STATE        -> {Digit0}
       [] s = RECORD_TYPE_0_STATE -> {Digit0, Digit1}
       [] s = RECORD_TYPE_1_STATE -> {Digit0, Digit1, Digit2, Digit4, Digit5,
                                      LetterE, LetterF}
       [] s = DATA_STATE          -> {Digit1, Junk}
       [] s = CHECKSUM_0_STATE    -> {LetterD, LetterC, LetterF, LowerG}
       [] s = CHECKSUM_1_STATE    -> {LetterA, LetterB, LetterC, Digit8,
                                      LetterE, NUL}]

\* Bound: noise inside records of the types that change nothing else.
Noise == gap => record_type = RECORD_TYPE_DATA

MC_Scratch == {0}

=============================================================================
