-------------------------- MODULE BootloaderProofs --------------------------
(***************************************************************************)
(* An undisturbed upload installs its file, for every file length, every   *)
(* sector size and every number of firmware versions, whatever is in the   *)
(* flash when it starts; and the device keeps what a bootloader promises   *)
(* its owner (Installer).                                                  *)
(***************************************************************************)
EXTENDS Bootloader, TLAPS

\* The arithmetic of halves and records.
LEMMA HalfFacts ==
  ASSUME NEW h \in Nat
  PROVE  /\ Record(h) \in Nat /\ Halves \in Nat /\ 2 * Record(h) >= h
         /\ IsHead(h) => 2 * Record(h) = h + 1 /\ ~IsHead(h + 1)
         /\ ~IsHead(h) => 2 * Record(h) = h /\ IsHead(h + 1)
         /\ IsHead(h) => Record(h + 1) = Record(h)
         /\ ~IsHead(h) => Record(h + 1) = Record(h) + 1
  BY FileAssumption, SMT DEF Record, IsHead, Halves

\* The initial states.
LEMMA InitIInv == Init => IInv
<1> SUFFICES ASSUME Init PROVE IInv
  OBVIOUS
<1>1. Halves \in Nat /\ Slots \subseteq Nat /\ 1 \in Slots /\ Halves > 4
  BY FileAssumption DEF Halves, Slots
<1>2. FlagsOK
  BY Zenon DEF Init, FlagsOK
<1>3. app \in [Slots -> Values]
  BY DEF Init, Values
<1>4. TypeOK
  BY <1>1, <1>2, <1>3, FileAssumption DEF Init, TypeOK, Values, Spoiled
<1>5. clean = FALSE /\ done = FALSE /\ isr = "idle"
  BY DEF Init
<1> QED BY <1>4, <1>5 DEF IInv, InStep, StoredSoFar, UnderWay, Installed

\* What the types say of the numbers.
LEMMA Numbers ==
  ASSUME TypeOK
  PROVE  /\ R \in Nat /\ R > 2 /\ W \in Nat /\ W > 0
         /\ Halves = 2 * R /\ Halves \in Nat /\ Spoiled = R + 1
         /\ sent \in Nat /\ sent <= Halves /\ end \in Nat /\ end <= Halves
         /\ cur \in Nat /\ cur > 0 /\ cur <= Halves + 1
         /\ partial \in Nat /\ partial <= Spoiled
         /\ slot \in Nat /\ slot > 0 /\ slot <= R - 2
         /\ page \in Nat /\ page > 0 /\ page <= R - 2
  BY FileAssumption DEF TypeOK, Halves, Slots, Spoiled

\* Steps of main() that leave the upload alone.
LEMMA MainSteps ==
  ASSUME IInv, Reset \/ Poll \/ StopUsb
  PROVE  IInv'
<1>. USE DEF IInv
<1>1. /\ UNCHANGED <<app, parserVars, sectorVars, writeVars, hostVars, clean>>
      /\ mode' \in {"boot", "btldr", "delay", "stopped", "app"}
  BY DEF Reset, Boot, Poll, StopUsb
<1>2. /\ done' => done
      /\ key' \in BOOLEAN /\ done' \in BOOLEAN
  <2>0. key \in BOOLEAN /\ done \in BOOLEAN
    BY DEF TypeOK, FlagsOK
  <2>1. CASE Reset
    <3>1. PICK button \in BOOLEAN : done' = (done /\ ~button) /\ key' = key
      BY <2>1 DEF Reset, Boot
    <3>2. CASE done' = TRUE
      BY <2>0, <3>1, <3>2
    <3>3. CASE done' = FALSE
      BY <2>0, <3>1, <3>3
    <3> QED BY <2>0, <3>1, <3>2, <3>3
  <2>2. CASE Poll
    BY <2>0, <2>2 DEF Poll
  <2>3. CASE StopUsb
    BY <2>0, <2>3 DEF StopUsb
  <2> QED BY <2>1, <2>2, <2>3
<1>3. FlagsOK'
  BY <1>1, <1>2, Zenon DEF TypeOK, FlagsOK, parserVars
<1>4. TypeOK'
  BY <1>1, <1>3 DEF TypeOK, parserVars, sectorVars, writeVars, hostVars
<1> QED
  BY <1>1, <1>2, <1>4
  DEF parserVars, sectorVars, writeVars, hostVars, InStep, StoredSoFar,
      UnderWay, Installed, Taken, Complete

\* Steps after which the processor starts again.
LEMMA RestartSteps ==
  ASSUME IInv, SystemReset \/ AppReset \/ PowerCycle
  PROVE  IInv'
<1>. USE DEF IInv
<1>1. Restart
  BY DEF SystemReset, AppReset, PowerCycle
<1>2. /\ key' \in BOOLEAN /\ done' \in BOOLEAN
      /\ done' => done /\ UNCHANGED app
  <2>0. key \in BOOLEAN /\ done \in BOOLEAN
    BY DEF TypeOK, FlagsOK
  <2>1. CASE SystemReset
    BY <2>0, <2>1 DEF SystemReset
  <2>2. CASE AppReset
    BY <2>2 DEF AppReset
  <2>3. CASE PowerCycle
    BY <2>3 DEF PowerCycle
  <2> QED BY <2>1, <2>2, <2>3
<1>3. app' \in [Slots -> Values]
  <2>1. CASE UNCHANGED app
    BY <2>1 DEF TypeOK
  <2>2. CASE PowerCycle /\ isr = "erase"
    <3>1. PICK x \in HalfErased(page) : app' = [app EXCEPT ![page] = x]
      BY <2>2 DEF PowerCycle
    <3>2. x \in Values
      BY <3>1 DEF HalfErased, TypeOK, Values
    <3> QED BY <3>1, <3>2 DEF TypeOK
  <2>3. CASE PowerCycle /\ isr = "program"
    <3>1. PICK x \in Damaged(slot) : app' = [app EXCEPT ![slot] = x]
      BY <2>3 DEF PowerCycle
    <3>2. x \in Values
      BY <3>1 DEF Damaged, TypeOK, Values
    <3> QED BY <3>1, <3>2 DEF TypeOK
  <2> QED BY <2>1, <2>2, <2>3 DEF SystemReset, AppReset, PowerCycle
<1>4. FlagsOK'
  BY <1>1, <1>2, Zenon DEF Restart, FlagsOK
<1>5. Halves \in Nat
  BY Numbers
<1>6. TypeOK'
  BY <1>1, <1>3, <1>4, <1>5, FileAssumption
  DEF Restart, TypeOK, writeVars, Spoiled
<1>7. clean' = FALSE /\ isr' = "idle" /\ sent' = Halves /\ ver' = ver
  BY <1>1 DEF Restart
<1> QED
  BY <1>2, <1>6, <1>7
  DEF InStep, StoredSoFar, UnderWay, Installed, Complete

\* Steps of the host.
LEMMA HostSteps ==
  ASSUME IInv, Host
  PROVE  IInv'
<1>. USE DEF IInv
<1>0. Usb /\ UNCHANGED <<mode, key, app, writeVars>>
  BY DEF Host, StartUpload, WriteSector, RetrySector, WriteDirectory
<1>1. isr = "idle"
  BY <1>0 DEF Usb, Quiet
<1>2. Halves \in Nat /\ Halves > 4 /\ Halves % 2 = 0
  BY Numbers
<1>3. ASSUME NEW v \in Versions, StartUpload(v) PROVE IInv'
  <2>1. /\ ver' = v /\ sent' = 0 /\ done' = FALSE
        /\ UNCHANGED <<partial, hi, eof, isr, cur, end>>
        /\ clean' => partial = 0 /\ ~eof
    BY <1>3 DEF StartUpload, parserVars, sectorVars
  <2>2. FlagsOK'
    BY <1>3, Zenon DEF StartUpload, TypeOK, FlagsOK, parserVars
  <2>3. TypeOK'
    BY <1>0, <1>2, <2>1, <2>2 DEF TypeOK, writeVars
  <2>4. Taken' = 0
    BY <1>1, <2>1 DEF Taken
  <2>5. ~IsHead(0)
    BY DEF IsHead
  <2>6. InStep' /\ StoredSoFar'
    BY <1>2, <2>1, <2>4, <2>5 DEF InStep, StoredSoFar, IsHead
  <2>7. UnderWay' /\ Installed'
    BY <1>1, <2>1 DEF UnderWay, Installed
  <2> QED BY <2>3, <2>6, <2>7
<1>4. CASE WriteSector
  <2>1. /\ sent < Halves /\ isr' = "parse" /\ cur' = sent + 1
        /\ end' = Smaller(sent + W, Halves) /\ sent' = end'
        /\ UNCHANGED <<partial, hi, eof, ver, clean, done>>
    BY <1>4 DEF WriteSector, parserVars
  <2>2. end' \in Nat /\ end' <= Halves /\ end' > sent
    BY <1>2, <2>1, Numbers DEF Smaller
  <2>3. FlagsOK'
    BY <1>0, <2>1, Zenon DEF TypeOK, FlagsOK
  <2>4. TypeOK'
    BY <1>0, <1>2, <2>1, <2>2, <2>3, Numbers DEF TypeOK, writeVars
  <2>5. Taken' = Taken
    BY <1>1, <2>1, Numbers DEF Taken
  <2>6. InStep' /\ StoredSoFar'
    BY <1>0, <2>1, <2>5 DEF InStep, StoredSoFar, IsHead, Record
  <2>7. ~done
    BY <2>1, Numbers DEF UnderWay
  <2>8. UnderWay' /\ Installed'
    BY <2>1, <2>2, <2>7, Numbers DEF UnderWay, Installed
  <2> QED BY <2>4, <2>6, <2>8
<1>5. CASE RetrySector
  <2>1. /\ isr' = "parse" /\ end' = sent /\ clean' = FALSE /\ done' = FALSE
        /\ UNCHANGED <<partial, hi, eof, ver, sent>>
        /\ cur' \in 1 .. sent
    BY <1>5 DEF RetrySector, parserVars, hostVars
  <2>2. FlagsOK'
    BY <1>0, <2>1, Zenon DEF TypeOK, FlagsOK
  <2>3. TypeOK'
    BY <1>0, <2>1, <2>2, Numbers DEF TypeOK, writeVars
  <2>4. UnderWay'
    BY <2>1, Numbers DEF UnderWay
  <2> QED BY <2>1, <2>3, <2>4 DEF InStep, StoredSoFar, Installed
<1>6. CASE WriteDirectory
  <2>1. /\ partial' = 0 /\ hi' = FALSE /\ eof' = FALSE /\ done' = FALSE
        /\ UNCHANGED <<isr, cur, end, ver, sent>>
        /\ clean' => sent = 0
    BY <1>6 DEF WriteDirectory, sectorVars, hostVars
  <2>2. FlagsOK'
    BY <1>6, Zenon DEF WriteDirectory, TypeOK, FlagsOK
  <2>3. TypeOK'
    BY <1>0, <1>2, <2>1, <2>2, Numbers DEF TypeOK, writeVars
  <2>4. Taken' = sent
    BY <1>1, <2>1 DEF Taken
  <2>5. InStep' /\ StoredSoFar'
    BY <1>2, <2>1, <2>4 DEF InStep, StoredSoFar, IsHead
  <2>6. UnderWay' /\ Installed'
    BY <1>1, <2>1 DEF UnderWay, Installed
  <2> QED BY <2>3, <2>5, <2>6
<1> QED BY <1>3, <1>4, <1>5, <1>6 DEF Host

\* The parser takes the rest of a sector, half by half.
LEMMA ParseSteps ==
  ASSUME IInv, EndSector \/ TakeHead \/ Reject
  PROVE  IInv'
<1>. USE DEF IInv
<1>0. /\ UNCHANGED <<mode, key, app, hi, eof, page, slot, value, ver, sent>>
      /\ UNCHANGED <<end, clean, done>>
      /\ isr = "parse" /\ isr' \in {"idle", "parse"}
  BY DEF EndSector, TakeHead, Reject, Parsing, DropRest, parserVars, writeVars,
         hostVars
<1>1. FlagsOK'
  BY <1>0, Zenon DEF TypeOK, FlagsOK
<1>2. CASE EndSector
  <2>1. cur > end /\ isr' = "idle" /\ UNCHANGED <<cur, partial>>
    BY <1>2 DEF EndSector, DropRest, parserVars
  <2>2. TypeOK'
    BY <1>0, <1>1, <2>1 DEF TypeOK
  <2>3. clean => Taken' = Taken
    BY <1>0, <2>1, Numbers DEF Taken, UnderWay
  <2>4. InStep' /\ StoredSoFar'
    BY <1>0, <2>1, <2>3 DEF InStep, StoredSoFar, Record, IsHead
  <2>5. UnderWay' /\ Installed'
    BY <1>0, <2>1 DEF UnderWay, Installed, Complete
  <2> QED BY <2>2, <2>4, <2>5
<1>3. CASE TakeHead
  <2>1. /\ cur <= end /\ IsHead(cur) /\ partial = 0
        /\ partial' = Record(cur) /\ isr' = "parse" /\ cur' = cur + 1
    BY <1>3 DEF TakeHead, Parsing
  <2>2. Record(cur) \in Nat /\ Record(cur) <= R
    BY <2>1, Numbers, HalfFacts
  <2>3. TypeOK'
    BY <1>0, <1>1, <2>1, <2>2, Numbers DEF TypeOK
  <2>4. Taken = cur - 1 /\ Taken' = cur
    BY <1>0, <2>1, Numbers DEF Taken
  <2>5. ~done
    BY <1>0, <2>1, Numbers DEF UnderWay
  <2>6. cur # Halves /\ 2 * Record(cur) = cur + 1
    BY <2>1, Numbers DEF IsHead, Record
  <2>7. InStep'
    <3>1. clean' /\ Taken' >= 2 => hi'
      BY <1>0, <2>1, <2>4, Numbers DEF InStep, IsHead
    <3>2. clean' => (eof' <=> Taken' = Halves)
      BY <1>0, <2>1, <2>4, <2>6, Numbers DEF InStep
    <3>3. clean' => partial' = IF IsHead(Taken') THEN Record(Taken') ELSE 0
      BY <2>1, <2>4
    <3> QED BY <3>1, <3>2, <3>3 DEF InStep
  <2>8. StoredSoFar'
    <3>1. SUFFICES ASSUME clean, cur >= 4, NEW i \in Slots
                   PROVE  app[i] = IF 2 * i + 2 <= cur THEN ver ELSE Erased
      BY <1>0, <2>4 DEF StoredSoFar
    <3>2. cur - 1 >= 4 /\ i \in Nat
      BY <2>1, <3>1, Numbers DEF IsHead, Slots
    <3>3. 2 * i + 2 <= cur <=> 2 * i + 2 <= cur - 1
      BY <2>2, <2>6, <3>2, Numbers, SMT
    <3> QED BY <2>4, <3>1, <3>2, <3>3 DEF StoredSoFar
  <2>9. UnderWay' /\ Installed'
    BY <1>0, <2>1, <2>5, Numbers DEF UnderWay, Installed
  <2> QED BY <2>3, <2>7, <2>8, <2>9
<1>4. CASE Reject
  <2>1. /\ cur <= end /\ (IsHead(cur) <=> partial # 0)
        /\ isr' = "idle" /\ UNCHANGED <<cur, partial>>
    BY <1>4 DEF Reject, Parsing, DropRest, parserVars
  <2>2. TypeOK'
    BY <1>0, <1>1, <2>1 DEF TypeOK
  <2>3. ~clean
    <3>1. SUFFICES ASSUME clean PROVE FALSE
      OBVIOUS
    <3>2. Taken = cur - 1
      BY <1>0 DEF Taken
    <3>3. partial = IF IsHead(cur - 1) THEN Record(cur - 1) ELSE 0
      BY <3>1, <3>2 DEF InStep
    <3>4. IsHead(cur - 1) <=> ~IsHead(cur)
      BY Numbers DEF IsHead
    <3>5. IsHead(cur - 1) => Record(cur - 1) > 0
      BY Numbers DEF IsHead, Record
    <3> QED BY <2>1, <3>3, <3>4, <3>5
  <2>4. ~done
    BY <1>0, <2>1, Numbers DEF UnderWay
  <2>5. UnderWay' /\ Installed'
    BY <1>0, <2>1, <2>3, <2>4 DEF UnderWay, Installed
  <2>6. InStep' /\ StoredSoFar'
    BY <1>0, <2>3 DEF InStep, StoredSoFar
  <2> QED BY <2>2, <2>5, <2>6
<1> QED BY <1>2, <1>3, <1>4

\* The second half of the record under way.
LEMMA TailSteps ==
  ASSUME IInv, TakeTail
  PROVE  IInv'
<1>. USE DEF IInv
<1>0. /\ isr = "parse" /\ cur <= end /\ ~IsHead(cur) /\ partial = Record(cur)
      /\ UNCHANGED <<mode, key, app, end, ver, sent, clean>>
  BY DEF TakeTail, Parsing, hostVars
<1>1. Taken = cur - 1 /\ IsHead(cur - 1) /\ Record(cur - 1) = Record(cur)
  BY <1>0, Numbers DEF Taken, IsHead, Record
<1>2. 2 * Record(cur) = cur /\ Record(cur) \in Nat /\ Record(cur) > 0
  BY <1>0, Numbers, HalfFacts
<1>3. ~done
  BY <1>0, Numbers DEF UnderWay
\* The record has no further effect on the flash.
<1>4. ASSUME NextHalf, UNCHANGED writeVars,
             hi' \in BOOLEAN, eof' \in BOOLEAN, done' \in BOOLEAN,
             hi => hi', clean => hi',
             IF partial = R THEN eof' = TRUE /\ done' = clean
             ELSE eof' = eof /\ done' = done,
             clean => partial \in {1, R}
      PROVE  IInv'
  <2>1. partial' = 0 /\ isr' = "parse" /\ cur' = cur + 1
    BY <1>4 DEF NextHalf
  <2>2. FlagsOK'
    BY <1>0, <1>4, Zenon DEF TypeOK, FlagsOK
  <2>3. TypeOK'
    BY <1>0, <1>4, <2>1, <2>2, Numbers DEF TypeOK, writeVars
  <2>4. Taken' = cur
    BY <2>1, Numbers DEF Taken
  <2>5. InStep'
    <3>1. clean => (eof' <=> cur = Halves)
      <4>1. CASE partial = R
        BY <1>0, <1>2, <1>4, <4>1, Numbers
      <4>2. CASE partial # R
        <5>1. cur # Halves /\ cur - 1 # Halves
          BY <1>0, <1>2, <4>2, Numbers
        <5> QED BY <1>1, <1>4, <4>2, <5>1 DEF InStep
      <4> QED BY <4>1, <4>2
    <3> QED BY <1>0, <1>4, <2>1, <2>4, <3>1 DEF InStep
  <2>6. StoredSoFar'
    <3>1. SUFFICES ASSUME clean, cur >= 4, NEW i \in Slots
                   PROVE  app[i] = IF 2 * i + 2 <= cur THEN ver ELSE Erased
      BY <1>0, <2>4 DEF StoredSoFar
    <3>2. partial = R /\ cur = Halves /\ cur > 4
      BY <1>0, <1>2, <1>4, <3>1, Numbers
    <3>3. 2 * i + 2 <= cur - 1
      BY <3>2, Numbers DEF Slots
    <3>4. i \in Nat /\ 2 * i + 2 <= cur
      BY <3>3, Numbers DEF Slots
    <3> QED BY <1>1, <3>1, <3>2, <3>3, <3>4, Numbers DEF StoredSoFar
  <2>7. UnderWay'
    <3>1. done' => cur = Halves /\ cur = end /\ end = sent
      <4>1. done' => partial = R /\ clean
        BY <1>3, <1>4
      <4>2. partial = R => cur = Halves /\ cur = end
        BY <1>0, <1>2, Numbers
      <4>3. clean => end = sent
        BY <1>0 DEF UnderWay
      <4> QED BY <4>1, <4>2, <4>3
    <3> QED BY <1>0, <2>1, <3>1, Numbers DEF UnderWay
  <2>8. Installed'
    <3>1. SUFFICES ASSUME done', NEW i \in Slots PROVE app[i] = ver
      BY <1>0 DEF Installed, Complete
    <3>2. clean /\ partial = R /\ cur = Halves
      BY <1>0, <1>2, <1>3, <1>4, <3>1, Numbers
    <3>3. 2 * i + 2 <= cur - 1 /\ cur - 1 >= 4
      BY <3>2, Numbers DEF Slots
    <3> QED BY <1>1, <3>1, <3>2, <3>3 DEF StoredSoFar
  <2> QED BY <2>3, <2>5, <2>6, <2>7, <2>8
<1>5. CASE partial = 1 /\ hi' = TRUE /\ NextHalf /\ UNCHANGED <<eof, writeVars, done>>
  <2>1. partial # R
    BY <1>5, Numbers
  <2> QED BY <1>4, <1>5, <2>1 DEF TypeOK, FlagsOK
<1>6. CASE /\ partial = R /\ eof' = TRUE /\ done' = clean
           /\ NextHalf /\ UNCHANGED <<hi, writeVars>>
  <2>1. clean => hi
    BY <1>0, <1>1, <1>2, <1>6, Numbers DEF InStep
  <2> QED BY <1>4, <1>6, <2>1 DEF TypeOK, FlagsOK
<1>7. CASE /\ partial \in 2 .. R - 1 /\ ~hi
           /\ NextHalf /\ UNCHANGED <<hi, eof, writeVars, done>>
  <2>1. ~clean
    BY <1>0, <1>1, <1>2, <1>7, Numbers DEF InStep
  <2>2. partial # R
    BY <1>7, Numbers
  <2> QED BY <1>4, <1>7, <2>1, <2>2 DEF TypeOK, FlagsOK
<1>8. CASE /\ partial \in 2 .. R - 1 /\ hi
           /\ WriteFirmware(partial - 1, ver) /\ UNCHANGED <<hi, eof, done>>
  <2>1. /\ slot' = partial - 1 /\ value' = ver /\ page' = 1
        /\ isr' = (IF slot' = 1 THEN "erase" ELSE "program")
        /\ UNCHANGED <<partial, cur>>
    BY <1>8 DEF WriteFirmware
  <2>2. FlagsOK'
    BY <1>0, <1>8, Zenon DEF TypeOK, FlagsOK
  <2>3. slot' \in Slots /\ page' \in Slots
    BY <1>8, <2>1, Numbers DEF Slots
  <2>4. TypeOK'
    BY <1>0, <2>1, <2>2, <2>3 DEF TypeOK
  <2>5. Taken' = Taken
    BY <1>0, <2>1 DEF Taken
  <2>6. InStep' /\ StoredSoFar'
    BY <1>0, <1>8, <2>1, <2>5 DEF InStep, StoredSoFar, IsHead, Record
  <2>7. slot' < R - 1 /\ slot' = Record(cur) - 1
    BY <1>0, <1>8, <2>1, Numbers
  <2>8. UnderWay' /\ Installed'
    <3>1. \A i \in Slots : ~(i < page')
      BY <2>1 DEF Slots
    <3>2. isr' = "erase" => slot' = 1
      BY <2>1
    <3>3. isr' = "program" => slot' # 1
      BY <2>1
    <3>4. isr' \in {"erase", "program"} /\ ~done'
      BY <1>3, <1>8, <2>1
    <3>5. cur' <= end' + 1 /\ cur' <= end'
      BY <1>0, <2>1, Numbers
    <3>6. clean' => end' = sent'
      BY <1>0 DEF UnderWay
    <3>7. ~IsHead(cur') /\ slot' = Record(cur') - 1
      BY <1>0, <2>1, <2>7 DEF IsHead, Record
    <3> QED BY <2>1, <2>7, <3>1, <3>2, <3>3, <3>4, <3>5, <3>6, <3>7, <1>0
            DEF UnderWay, Installed
  <2> QED BY <2>4, <2>6, <2>8
<1> QED BY <1>5, <1>6, <1>7, <1>8 DEF TakeTail

\* Digits that belong to another record: not in an undisturbed upload.
LEMMA ForeignSteps ==
  ASSUME IInv, TakeForeign
  PROVE  IInv'
<1>. USE DEF IInv
<1>0. /\ isr = "parse" /\ cur <= end /\ ~IsHead(cur)
      /\ partial \notin {0, Record(cur)}
      /\ UNCHANGED <<mode, key, app, ver, sent, clean, done>>
  BY DEF TakeForeign, Parsing, hostVars
<1>1. ~clean
  <2>1. SUFFICES ASSUME clean PROVE FALSE
    OBVIOUS
  <2>2. Taken = cur - 1 /\ Record(cur - 1) = Record(cur)
    BY <1>0, Numbers DEF Taken, IsHead, Record
  <2> QED BY <1>0, <2>1, <2>2 DEF InStep
<1>2. ~done
  BY <1>0, Numbers DEF UnderWay
<1>3. hi' \in BOOLEAN /\ eof' \in BOOLEAN
  BY DEF TakeForeign, TypeOK, FlagsOK
<1>4. FlagsOK'
  BY <1>0, <1>3, Zenon DEF TypeOK, FlagsOK
<1>5. /\ isr' \in {"idle", "parse", "erase", "program"}
      /\ end' \in 0 .. Halves /\ cur' \in 1 .. Halves + 1
      /\ cur' <= end' + 1
      /\ isr' \in {"erase", "program"} => cur' <= end'
      /\ partial' \in 0 .. Spoiled
      /\ page' \in Slots /\ slot' \in Slots
      /\ value' \in Versions \cup {Junk}
  <2>1. CASE partial' = Spoiled /\ DropRest /\ UNCHANGED <<hi, eof, writeVars>>
    BY <1>0, <2>1, Numbers DEF DropRest, writeVars, TypeOK
  <2>2. CASE NextHalf /\ end' \in {cur, end} /\ UNCHANGED writeVars
    <3>1. /\ partial' = 0 /\ isr' = "parse" /\ cur' = cur + 1
          /\ UNCHANGED <<page, slot, value>>
      BY <2>2 DEF NextHalf, writeVars
    <3>2. end' \in 0 .. Halves /\ cur' \in 1 .. Halves + 1 /\ cur' <= end' + 1
      BY <1>0, <2>2, <3>1, Numbers
    <3>3. partial' \in 0 .. Spoiled
      BY <3>1, Numbers
    <3> QED BY <3>1, <3>2, <3>3 DEF TypeOK
  <2>3. CASE /\ \E i \in Slots : WriteFirmware(i, Junk)
             /\ end' \in {cur, end}
    <3>1. 1 \in Slots
      BY Numbers DEF Slots
    <3>2. PICK i \in Slots : WriteFirmware(i, Junk)
      BY <2>3
    <3>3. /\ slot' = i /\ value' = Junk /\ page' = 1
          /\ isr' \in {"erase", "program"} /\ UNCHANGED <<partial, cur>>
      BY <3>2 DEF WriteFirmware
    <3>4. end' \in 0 .. Halves /\ cur' \in 1 .. Halves + 1 /\ cur' <= end'
      BY <1>0, <2>3, <3>3, Numbers
    <3>5. partial' \in 0 .. Spoiled
      BY <3>3 DEF TypeOK
    <3>6. cur' <= end' + 1
      <4>1. cur \in Nat /\ end \in Nat /\ cur <= end
        BY <1>0, Numbers
      <4>2. end' \in {cur, end} /\ cur' = cur
        BY <2>3, <3>3
      <4>3. cur <= cur + 1 /\ cur <= end + 1
        BY <4>1
      <4> QED BY <4>2, <4>3
    <3> QED BY <3>1, <3>3, <3>4, <3>5, <3>6
  <2> QED BY <2>1, <2>2, <2>3 DEF TakeForeign
<1>6. TypeOK'
  BY <1>0, <1>4, <1>5 DEF TypeOK
<1> QED
  BY <1>0, <1>1, <1>2, <1>5, <1>6
  DEF InStep, StoredSoFar, UnderWay, Installed

\* The flash is erased page by page and programmed.
LEMMA FlashSteps ==
  ASSUME IInv, ErasePage \/ EraseFails \/ Program \/ ProgramFails
  PROVE  IInv'
<1>. USE DEF IInv
<1>0. /\ isr \in {"erase", "program"} /\ cur <= end
      /\ UNCHANGED <<mode, key, hi, eof, slot, value, ver, sent, end, done>>
  BY DEF ErasePage, EraseFails, Program, ProgramFails, parserVars, writeVars,
         hostVars, DropRest, UnderWay
<1>1. ~done
  BY <1>0 DEF UnderWay
<1>2. Taken = cur - 1
  BY <1>0 DEF Taken
<1>3. CASE ErasePage
  <2>1. /\ isr = "erase" /\ app' = [app EXCEPT ![page] = Erased]
        /\ UNCHANGED <<partial, cur, clean>>
        /\ \/ page < R - 2 /\ page' = page + 1 /\ isr' = "erase"
           \/ ~(page < R - 2) /\ isr' = "program" /\ page' = page
    BY <1>3 DEF ErasePage, parserVars
  <2>2. FlagsOK'
    BY <1>0, <2>1, Zenon DEF TypeOK, FlagsOK
  <2>3. page' \in Slots
    BY <2>1, Numbers DEF Slots
  <2>4. TypeOK'
    BY <1>0, <2>1, <2>2, <2>3 DEF TypeOK, Values
  <2>5. Taken' = cur - 1
    BY <2>1 DEF Taken
  <2>6. InStep'
    BY <1>0, <1>2, <2>1, <2>5 DEF InStep, IsHead, Record
  <2>7. clean => cur = 4
    BY <2>1, Numbers DEF UnderWay, IsHead, Record
  <2>8. StoredSoFar'
    BY <2>1, <2>5, <2>7 DEF StoredSoFar
  <2>9. ASSUME clean PROVE \A i \in Slots : i <= page => app'[i] = Erased
    BY <2>1, <2>9, Numbers DEF UnderWay, Slots, TypeOK
  <2>10. UnderWay'
    <3>1. clean /\ isr' = "program" => Complete(Erased)'
      BY <2>1, <2>9, Numbers DEF Complete, Slots
    <3>2. clean /\ isr' = "erase" =>
            \A i \in Slots : i < page' => app'[i] = Erased
      BY <2>1, <2>9, Numbers DEF Slots
    <3> QED BY <1>0, <1>1, <2>1, <3>1, <3>2 DEF UnderWay, IsHead, Record
  <2> QED BY <1>0, <1>1, <2>4, <2>6, <2>8, <2>10 DEF Installed
<1>4. CASE EraseFails
  <2>1. /\ partial' = Spoiled /\ isr' = "idle" /\ clean' = FALSE
        /\ UNCHANGED <<app, cur, page>>
    BY <1>4 DEF EraseFails, DropRest, writeVars
  <2>2. FlagsOK'
    BY <1>0, <2>1, Zenon DEF TypeOK, FlagsOK
  <2>3. TypeOK'
    BY <1>0, <2>1, <2>2, Numbers DEF TypeOK
  <2> QED BY <1>0, <1>1, <2>1, <2>3
          DEF InStep, StoredSoFar, UnderWay, Installed
<1>5. CASE ProgramFails
  <2>1. /\ partial' = 0 /\ isr' = "parse" /\ cur' = cur + 1 /\ clean' = FALSE
        /\ page' = page
    BY <1>5 DEF ProgramFails, NextHalf, writeVars
  <2>2. app' \in [Slots -> Values]
    <3>1. PICK x \in Damaged(slot) : app' = [app EXCEPT ![slot] = x]
      BY <1>5 DEF ProgramFails
    <3>2. x \in Values
      BY <3>1 DEF Damaged, TypeOK, Values
    <3> QED BY <3>1, <3>2 DEF TypeOK
  <2>3. FlagsOK'
    BY <1>0, <2>1, Zenon DEF TypeOK, FlagsOK
  <2>4. TypeOK'
    BY <1>0, <2>1, <2>2, <2>3, Numbers DEF TypeOK
  <2> QED BY <1>0, <1>1, <2>1, <2>4, Numbers
          DEF InStep, StoredSoFar, UnderWay, Installed
<1>6. CASE Program
  <2>1. /\ isr = "program" /\ partial' = 0 /\ isr' = "parse" /\ cur' = cur + 1
        /\ app' = [app EXCEPT ![slot] = IF @ = Erased THEN value ELSE @]
        /\ UNCHANGED <<page, clean>>
    BY <1>6 DEF Program, NextHalf, writeVars
  <2>2. FlagsOK'
    BY <1>0, <2>1, Zenon DEF TypeOK, FlagsOK
  <2>3. app' \in [Slots -> Values]
    BY <2>1 DEF TypeOK, Values
  <2>4. TypeOK'
    BY <1>0, <2>1, <2>2, <2>3, Numbers DEF TypeOK
  <2>5. Taken' = cur
    BY <2>1, Numbers DEF Taken
  <2>6. ASSUME clean
        PROVE  /\ ~IsHead(cur) /\ slot = Record(cur) - 1 /\ value = ver
               /\ cur = (2 * slot) + 2 /\ cur < Halves
    <3>1. ~IsHead(cur) /\ slot = Record(cur) - 1 /\ value = ver /\ slot < R - 1
      BY <1>0, <2>6 DEF UnderWay
    <3>2. 2 * Record(cur) = cur /\ Record(cur) \in Nat
      BY <3>1, Numbers, HalfFacts
    <3> QED BY <3>1, <3>2, Numbers
  <2>7. InStep'
    <3>1. clean => (eof' <=> cur = Halves)
      BY <1>0, <1>2, <2>6, Numbers DEF InStep
    <3>2. clean /\ cur >= 2 => hi'
      <4>1. clean => cur > 3
        BY <2>6, Numbers
      <4> QED BY <1>0, <1>2, <4>1, Numbers DEF InStep
    <3> QED BY <2>1, <2>5, <2>6, <3>1, <3>2 DEF InStep
  <2>8. StoredSoFar'
    <3>1. SUFFICES ASSUME clean, NEW i \in Slots
                   PROVE  app'[i] = IF 2 * i + 2 <= cur THEN ver ELSE Erased
      BY <1>0, <2>1, <2>5 DEF StoredSoFar
    <3>2. i \in Nat /\ i > 0
      BY DEF Slots
    <3>3. app[i] = IF i < slot THEN ver ELSE Erased
      <4>1. CASE slot = 1
        BY <2>1, <3>1, <3>2, <4>1, Numbers DEF UnderWay, Complete
      <4>2. CASE slot # 1
        <5>1. cur - 1 >= 4
          <6>1. cur = (2 * slot) + 2
            BY <2>6, <3>1
          <6>2. slot >= 2
            BY <4>2, Numbers
          <6> QED BY <6>1, <6>2, Numbers, SMT
        <5>2. i < slot <=> 2 * i + 2 <= cur - 1
          BY <2>6, <3>1, <3>2, Numbers
        <5> QED BY <1>2, <3>1, <5>1, <5>2 DEF StoredSoFar
      <4> QED BY <4>1, <4>2
    <3>4. 2 * i + 2 <= cur <=> (i < slot \/ i = slot)
      BY <2>6, <3>1, <3>2, Numbers
    <3>5. CASE i = slot
      <4>1. app[slot] = Erased
        BY <3>3, <3>5, Numbers
      <4>2. app'[slot] = value
        BY <2>1, <4>1 DEF TypeOK
      <4> QED BY <2>6, <3>1, <3>4, <3>5, <4>2
    <3>6. CASE i # slot
      <4>1. app'[i] = app[i]
        BY <2>1, <3>6 DEF TypeOK
      <4> QED BY <3>3, <3>4, <3>6, <4>1
    <3> QED BY <3>5, <3>6
  <2> QED BY <1>0, <1>1, <2>1, <2>4, <2>7, <2>8, Numbers
          DEF UnderWay, Installed
<1> QED BY <1>3, <1>4, <1>5, <1>6

\* The invariant of the device, for every file, sector size and history.
THEOREM Invariance == Spec => []IInv
<1>1. Init => IInv
  BY InitIInv
<1>2. IInv /\ [Next]_vars => IInv'
  <2> SUFFICES ASSUME IInv, [Next]_vars PROVE IInv'
    OBVIOUS
  <2>1. CASE Next
    BY <2>1, MainSteps, RestartSteps, HostSteps, ParseSteps, TailSteps,
       ForeignSteps, FlashSteps DEF Next, Main, Interrupt
  <2>2. CASE UNCHANGED vars
    BY <2>2 DEF vars, parserVars, sectorVars, writeVars, hostVars, IInv, TypeOK,
       FlagsOK, InStep, StoredSoFar, UnderWay, Installed, Taken, Complete,
       Record, IsHead
  <2> QED BY <2>1, <2>2
<1> QED BY <1>1, <1>2, PTL DEF Spec

\* Every variable keeps its type.
THEOREM TypeCorrect == Spec => []TypeOK
<1>1. IInv => TypeOK
  BY DEF IInv
<1> QED BY <1>1, Invariance, PTL

\* While nothing disturbs an upload, parser and host agree on the place.
THEOREM StaysInStep == Spec => []InStep
<1>1. IInv => InStep
  BY DEF IInv
<1> QED BY <1>1, Invariance, PTL

\* While nothing disturbs an upload, the flash holds just what was taken.
THEOREM StoresWhatIsTaken == Spec => []StoredSoFar
<1>1. IInv => StoredSoFar
  BY DEF IInv
<1> QED BY <1>1, Invariance, PTL

\* An undisturbed upload installs all of its file, and it stays installed up to
\* and through the reset.
THEOREM UploadInstalls == Spec => []Installed
<1>1. IInv => Installed
  BY DEF IInv
<1> QED BY <1>1, Invariance, PTL

-----------------------------------------------------------------------------
\* The interrupt is not in the middle of anything when main() leaves the loop.
LEMMA ServedNext == Served /\ [Next]_vars => Served'
<1> SUFFICES ASSUME Served, [Next]_vars PROVE Served'
  OBVIOUS
<1>1. CASE Reset \/ Main \/ AppReset \/ PowerCycle
  BY <1>1 DEF Reset, Boot, Main, Poll, StopUsb, SystemReset, AppReset, PowerCycle,
              Restart, Quiet, Served, sectorVars
<1>2. CASE Host
  BY <1>2 DEF Host, StartUpload, WriteSector, RetrySector, WriteDirectory, Usb,
              Quiet, Served, sectorVars
<1>3. CASE Interrupt
  BY <1>3 DEF Interrupt, EndSector, TakeHead, Reject, TakeTail, TakeForeign, ErasePage,
              EraseFails, Program, ProgramFails, Parsing, Served
<1>4. CASE UNCHANGED vars
  BY <1>4 DEF vars, sectorVars, Served
<1> QED BY <1>1, <1>2, <1>3, <1>4 DEF Next

\* With the option, the application starts complete and nobody touches it then.
LEMMA CompleteNext ==
  ASSUME CksNotVld, Served, RunsOnlyComplete, [Next]_vars
  PROVE  RunsOnlyComplete'
<1>1. ASSUME app' = app, mode' = "app" => \E v \in Versions : Complete(v)
      PROVE  RunsOnlyComplete'
  BY <1>1 DEF RunsOnlyComplete, Complete
<1>2. CASE Reset
  <2>1. PICK button \in BOOLEAN, exists \in BOOLEAN : Boot(button, exists)
    BY <1>2 DEF Reset
  <2>2. app' = app /\ (mode' = "app" => app_cks_valid)
    BY <2>1 DEF Boot
  <2> QED BY <1>1, <2>2 DEF app_cks_valid
<1>3. CASE Main \/ AppReset \/ PowerCycle
  BY <1>3 DEF Main, Poll, StopUsb, SystemReset, AppReset, PowerCycle, Restart,
              RunsOnlyComplete
<1>4. CASE Host
  BY <1>4 DEF Host, StartUpload, WriteSector, RetrySector, WriteDirectory, Usb,
              RunsOnlyComplete
<1>5. CASE Interrupt
  BY <1>5 DEF Interrupt, EndSector, TakeHead, Reject, TakeTail, TakeForeign, ErasePage,
              EraseFails, Program, ProgramFails, Parsing, Served, RunsOnlyComplete
<1>6. CASE UNCHANGED vars
  BY <1>1, <1>6 DEF vars, RunsOnlyComplete
<1> QED BY <1>2, <1>3, <1>4, <1>5, <1>6 DEF Next

\* With BTLDR_ACT_CksNotVld, only a complete application is ever started,
\* wherever power was lost before and whatever the host wrote.
THEOREM StartsComplete == ASSUME CksNotVld PROVE Spec => []RunsOnlyComplete
<1>1. Init => Served /\ RunsOnlyComplete
  BY DEF Init, Served, RunsOnlyComplete
<1>2. Served /\ [Next]_vars => Served'
  BY ServedNext
<1>3. Served /\ RunsOnlyComplete /\ [Next]_vars => RunsOnlyComplete'
  BY CompleteNext
<1> QED BY <1>1, <1>2, <1>3, PTL DEF Spec

-----------------------------------------------------------------------------
\* The device keeps what a bootloader promises (Installer).

\* What is whole: a version in every slot.
LEMMA WholeImage ==
  /\ \A v \in Versions : Complete(v) => app_cks_valid /\ Image = v
  /\ app_cks_valid => Image \in Versions /\ Complete(Image)
  /\ ~app_cks_valid => Image = Junk
<1>1. 1 \in Slots
  BY FileAssumption DEF Slots
<1> QED BY <1>1 DEF app_cks_valid, Complete, Image

LEMMA SameImage == ASSUME app' = app PROVE Image' = Image
BY DEF Image, app_cks_valid, Complete

\* The application's request does not outlive an upgrade.
LEMMA DroppedNext ==
  ASSUME Served, Dropped, [Next]_vars
  PROVE  Dropped'
<1>1. CASE Reset
  BY <1>1 DEF Reset, Boot, Dropped
<1>2. CASE Poll
  BY <1>2 DEF Poll, Dropped
<1>3. CASE StopUsb
  BY <1>3 DEF StopUsb, Dropped
<1>4. CASE SystemReset
  BY <1>4 DEF SystemReset, Restart, Dropped
<1>5. CASE AppReset
  BY <1>5 DEF AppReset, Restart, Dropped
<1>6. CASE PowerCycle
  BY <1>6 DEF PowerCycle, Restart, Dropped
<1>7. CASE Host
  BY <1>7 DEF Host, StartUpload, WriteSector, RetrySector, WriteDirectory, Usb, Dropped
<1>8. CASE Interrupt
  <2>1. mode' = mode /\ key' = key /\ mode \in {"btldr", "delay"}
    BY <1>8 DEF Interrupt, EndSector, TakeHead, Reject, TakeTail, TakeForeign, ErasePage,
                EraseFails, Program, ProgramFails, Parsing, Served
  <2> QED BY <2>1 DEF Dropped
<1>9. CASE UNCHANGED vars
  BY <1>9 DEF vars, Dropped
<1> QED BY <1>1, <1>2, <1>3, <1>4, <1>5, <1>6, <1>7, <1>8, <1>9 DEF Next, Main

\* What is written is of the file the host is sending.
LEMMA OwnValueNext ==
  ASSUME OwnValue, [Next]_vars
  PROVE  OwnValue'
<1>1. CASE Reset \/ Main \/ AppReset \/ PowerCycle
  BY <1>1 DEF Reset, Boot, Main, Poll, StopUsb, SystemReset, AppReset, PowerCycle, Restart,
              OwnValue, sectorVars, writeVars, hostVars
<1>2. CASE Host
  BY <1>2 DEF Host, StartUpload, WriteSector, RetrySector, WriteDirectory, Usb, Quiet,
              OwnValue, sectorVars
<1>3. CASE EndSector \/ TakeHead \/ Reject \/ EraseFails \/ Program \/ ProgramFails
  BY <1>3 DEF EndSector, TakeHead, Reject, EraseFails, Program, ProgramFails, NextHalf,
              DropRest, OwnValue
<1>4. CASE TakeTail
  BY <1>4 DEF TakeTail, NextHalf, WriteFirmware, OwnValue, hostVars
<1>5. CASE TakeForeign
  BY <1>5 DEF TakeForeign, NextHalf, DropRest, WriteFirmware, OwnValue
<1>6. CASE ErasePage
  BY <1>6 DEF ErasePage, OwnValue, hostVars
<1>7. CASE UNCHANGED vars
  BY <1>7 DEF vars, sectorVars, writeVars, hostVars, OwnValue
<1> QED BY <1>1, <1>2, <1>3, <1>4, <1>5, <1>6, <1>7 DEF Next, Interrupt

\* Erasing or damaging a slot leaves the same firmware whole, or none.
LEMMA DamageImage ==
  ASSUME TypeOK, NEW i \in Slots, NEW x \in {app[i], Erased, Junk},
         app' = [app EXCEPT ![i] = x]
  PROVE  Image' \in {Image, Junk}
<1>1. CASE x = app[i]
  <2>1. app' = app
    BY <1>1 DEF TypeOK
  <2> QED BY <2>1, SameImage
<1>2. CASE x \in {Erased, Junk}
  <2>1. app'[i] \notin Versions
    BY <1>2, ValueAssumption DEF TypeOK
  <2>2. ~app_cks_valid'
    BY <2>1 DEF app_cks_valid, Complete
  <2> QED BY <2>2 DEF Image
<1> QED BY <1>1, <1>2

\* Writing to a slot leaves it so, or completes the file it is written for.
LEMMA ProgramImage ==
  ASSUME TypeOK, OwnValue, Program
  PROVE  Image' \in {Image, Junk, ver}
<1>1. /\ slot \in Slots /\ app \in [Slots -> Values] /\ value \in {ver, Junk}
      /\ app' = [app EXCEPT ![slot] = IF @ = Erased THEN value ELSE @]
  BY DEF TypeOK, OwnValue, Program
<1>2. CASE app[slot] # Erased
  <2>1. app' = app
    BY <1>1, <1>2
  <2> QED BY <2>1, SameImage
<1>3. CASE app[slot] = Erased
  <2>1. app'[slot] = value
    BY <1>1, <1>3
  <2>2. 1 \in Slots
    BY FileAssumption DEF Slots
  <2>3. ASSUME NEW v \in Versions, \A i \in Slots : app'[i] = v
        PROVE  app'[1] = ver
    <3>1. value = v /\ app'[1] = v
      BY <1>1, <2>1, <2>2, <2>3
    <3>2. value # Junk
      BY <3>1, ValueAssumption
    <3> QED BY <1>1, <3>1, <3>2
  <2>4. app_cks_valid' => app'[1] = ver
    BY <2>3 DEF app_cks_valid, Complete
  <2> QED BY <2>4 DEF Image
<1> QED BY <1>2, <1>3

\* An installed firmware is started at the next decision, unless the button is held.
LEMMA BootDecides ==
  ASSUME IInv, Dropped, NEW button \in BOOLEAN, NEW exists \in BOOLEAN,
         Boot(button, exists)
  PROVE  Owner!Decide(button)
<1>1. /\ mode = "boot" /\ exists \in is_appcode_exist /\ app' = app /\ ver' = ver
      /\ mode' = IF \/ ~exists \/ button
                    \/ CksNotVld /\ ~app_cks_valid
                    \/ key
                 THEN "btldr" ELSE "app"
  BY DEF Boot, hostVars
<1>2. done' = (done /\ ~button)
  BY DEF Boot
<1>3. Phase = "deciding" /\ Phase' \in {"serving", "running"} /\ Image' = Image
  BY <1>1, SameImage DEF Phase
<1>4. ASSUME done, ~button PROVE mode' = "app"
  <2>1. Complete(ver) /\ ver \in Versions /\ ~key
    BY <1>1, <1>4 DEF IInv, Installed, Dropped, TypeOK
  <2>2. app_cks_valid
    BY <2>1, WholeImage
  <2>3. app[1] = ver
    BY <2>1, FileAssumption DEF Complete, Slots
  <2>4. exists
    <3>1. app[1] # Junk /\ app[1] # Erased
      BY <2>1, <2>3, ValueAssumption
    <3> QED BY <1>1, <3>1 DEF is_appcode_exist
  <2> QED BY <1>1, <1>4, <2>1, <2>2, <2>4
<1>5. done' => Phase' = "running"
  BY <1>2, <1>4 DEF Phase
<1>6. ASSUME Phase' = "running", CksNotVld PROVE Image # Junk
  <2>1. app_cks_valid
    BY <1>1, <1>6 DEF Phase
  <2> QED BY <2>1, WholeImage, ValueAssumption
<1> QED BY <1>1, <1>2, <1>3, <1>5, <1>6 DEF Owner!Decide

\* The interrupt stores the host's file while USB is served.
LEMMA InterruptRefines ==
  ASSUME IInv, IInv', Served, OwnValue, Interrupt
  PROVE  [Owner!Next]_Owner!vars
<1>1. /\ mode' = mode /\ ver' = ver /\ isr # "idle"
      /\ Phase = "serving" /\ Phase' = "serving"
  BY DEF Interrupt, EndSector, TakeHead, Reject, TakeTail, TakeForeign, ErasePage,
         EraseFails, Program, ProgramFails, Parsing, Served, hostVars, Phase
<1>2. ASSUME app' = app, done' = done PROVE UNCHANGED Owner!vars
  BY <1>1, <1>2, SameImage DEF Owner!vars
<1>3. CASE EndSector \/ TakeHead \/ Reject \/ TakeForeign \/ EraseFails
  BY <1>2, <1>3 DEF EndSector, TakeHead, Reject, TakeForeign, EraseFails
<1>4. CASE TakeTail
  <2>1. app' = app /\ (done' = done \/ done' = clean)
    BY <1>4 DEF TakeTail
  <2>2. ~done
    BY <1>4 DEF TakeTail, Parsing, IInv, UnderWay, TypeOK
  <2>3. CASE done'
    <3>1. ver \in Versions /\ Complete(ver)'
      BY <1>1, <2>3 DEF IInv, Installed, TypeOK
    <3>2. Complete(ver)
      BY <1>1, <2>1, <3>1 DEF Complete
    <3>3. Image = ver /\ Image' = Image
      BY <2>1, <3>1, <3>2, WholeImage, SameImage
    <3>4. done' = TRUE
      BY <2>3, Zenon DEF IInv, TypeOK, FlagsOK
    <3> QED BY <1>1, <3>3, <3>4 DEF Owner!Finish, Owner!Next
  <2>4. CASE ~done'
    <3>1. done' = done
      BY <2>2, <2>4, Zenon DEF IInv, TypeOK, FlagsOK
    <3> QED BY <1>2, <2>1, <3>1
  <2> QED BY <2>3, <2>4
<1>5. ASSUME isr \in {"erase", "program"}, Image' \in {Image, Junk, ver}, done' = done
      PROVE  Owner!Store
  <2>1. ~done
    BY <1>5 DEF IInv, UnderWay
  <2> QED BY <1>1, <1>5, <2>1 DEF Owner!Store
<1>6. CASE ErasePage
  <2>1. isr = "erase" /\ app' = [app EXCEPT ![page] = Erased] /\ done' = done
    BY <1>6 DEF ErasePage
  <2>2. TypeOK /\ page \in Slots
    BY DEF IInv, TypeOK
  <2>3. Image' \in {Image, Junk}
    BY <2>1, <2>2, DamageImage
  <2> QED BY <1>5, <2>1, <2>3 DEF Owner!Next
<1>7. CASE Program
  <2>1. isr = "program" /\ done' = done
    BY <1>7 DEF Program
  <2>2. Image' \in {Image, Junk, ver}
    BY <1>7, ProgramImage DEF IInv
  <2> QED BY <1>5, <2>1, <2>2 DEF Owner!Next
<1>8. CASE ProgramFails
  <2>1. PICK x \in Damaged(slot) : app' = [app EXCEPT ![slot] = x]
    BY <1>8 DEF ProgramFails
  <2>2. isr = "program" /\ done' = done /\ x \in {app[slot], Erased, Junk}
    BY <1>8 DEF ProgramFails, Damaged
  <2>3. TypeOK /\ slot \in Slots
    BY DEF IInv, TypeOK
  <2>4. Image' \in {Image, Junk}
    BY <2>1, <2>2, <2>3, DamageImage
  <2> QED BY <1>5, <2>2, <2>4 DEF Owner!Next
<1> QED BY <1>3, <1>4, <1>6, <1>7, <1>8 DEF Interrupt

\* The host's writes: a disturbed upload is not due.
LEMMA HostRefines ==
  ASSUME IInv, IInv', Host
  PROVE  [Owner!Next]_Owner!vars
<1>1. mode' = mode /\ app' = app /\ mode \in {"btldr", "delay"} /\ ver' \in Versions
  <2>1. ver' \in Versions
    BY DEF IInv, TypeOK
  <2> QED BY <2>1 DEF Host, StartUpload, WriteSector, RetrySector, WriteDirectory, Usb
<1>2. Phase = "serving" /\ Phase' = "serving" /\ Image' = Image
  BY <1>1, SameImage DEF Phase
<1>3. CASE WriteSector
  BY <1>2, <1>3 DEF WriteSector, Owner!vars
<1>4. ASSUME done' = FALSE PROVE Owner!Send
  BY <1>1, <1>2, <1>4 DEF Owner!Send
<1>5. CASE RetrySector \/ WriteDirectory \/ \E v \in Versions : StartUpload(v)
  <2>1. done' = FALSE
    BY <1>5 DEF RetrySector, WriteDirectory, StartUpload
  <2> QED BY <2>1, <1>4 DEF Owner!Next
<1> QED BY <1>3, <1>5 DEF Host

\* main(), the application and the power supply.
LEMMA MainRefines ==
  ASSUME IInv, Served, Dropped, Reset \/ Main \/ AppReset \/ PowerCycle
  PROVE  [Owner!Next]_Owner!vars
<1>1. CASE Reset
  <2>1. PICK button \in BOOLEAN, exists \in BOOLEAN : Boot(button, exists)
    BY <1>1 DEF Reset
  <2>2. Owner!Decide(button)
    BY <2>1, BootDecides
  <2> QED BY <2>2 DEF Owner!Next
<1>2. CASE Poll \/ StopUsb
  <2>1. /\ app' = app /\ ver' = ver /\ done' = done
        /\ mode \in {"btldr", "delay"} /\ mode' \in {"delay", "stopped"}
    BY <1>2 DEF Poll, StopUsb, hostVars
  <2> QED BY <2>1, SameImage DEF Owner!vars, Phase
<1>3. CASE SystemReset
  <2>1. app' = app /\ ver' = ver /\ done' = done /\ mode = "stopped" /\ mode' = "boot"
    BY <1>3 DEF SystemReset, Restart
  <2> QED BY <2>1, SameImage DEF Owner!Restart, Owner!Next, Phase
<1>4. CASE AppReset
  <2>1. app' = app /\ ver' = ver /\ done' = FALSE /\ mode = "app" /\ mode' = "boot"
    BY <1>4 DEF AppReset, Restart
  <2> QED BY <2>1, SameImage DEF Owner!Ask, Owner!Next, Phase
<1>5. CASE PowerCycle
  <2>1. ver' = ver /\ done' = FALSE /\ mode' = "boot"
    BY <1>5 DEF PowerCycle, Restart
  <2>2. TypeOK /\ page \in Slots /\ slot \in Slots
    BY DEF IInv, TypeOK
  <2>3. CASE app' = app
    BY <2>1, <2>3, SameImage DEF Owner!PowerCut, Owner!Next, Phase
  <2>4. ASSUME app' # app
        PROVE  isr # "idle" /\ Image' \in {Image, Junk}
    <3>1. CASE isr = "erase" /\ \E x \in HalfErased(page) : app' = [app EXCEPT ![page] = x]
      <4>1. PICK x \in HalfErased(page) : app' = [app EXCEPT ![page] = x]
        BY <3>1
      <4>2. x \in {app[page], Erased, Junk}
        BY DEF HalfErased
      <4> QED BY <2>2, <3>1, <4>1, <4>2, DamageImage
    <3>2. CASE isr = "program" /\ \E x \in Damaged(slot) : app' = [app EXCEPT ![slot] = x]
      <4>1. PICK x \in Damaged(slot) : app' = [app EXCEPT ![slot] = x]
        BY <3>2
      <4>2. x \in {app[slot], Erased, Junk}
        BY DEF Damaged
      <4> QED BY <2>2, <3>2, <4>1, <4>2, DamageImage
    <3> QED BY <1>5, <2>4, <3>1, <3>2 DEF PowerCycle
  <2>5. CASE app' # app
    <3>1. Phase = "serving" /\ Image' \in {Image, Junk}
      BY <2>4, <2>5 DEF Served, Phase
    <3> QED BY <2>1, <3>1 DEF Owner!PowerCut, Owner!Next, Phase
  <2> QED BY <2>3, <2>5
<1> QED BY <1>1, <1>2, <1>3, <1>4, <1>5 DEF Main

\* The device implements what a bootloader promises, for every file, sector size,
\* set of versions and set of troubles, with the checksum option and without it:
\* nothing becomes whole that the host does not send, nothing changes once it is
\* installed, and what is installed is started.
THEOREM ImplementsTheInstaller == Spec => ImplementsInstaller
<1>1. Init => Owner!Init /\ Served /\ Dropped /\ OwnValue
  <2> SUFFICES ASSUME Init PROVE Owner!Init /\ Served /\ Dropped /\ OwnValue
    OBVIOUS
  <2>1. mode = "boot" /\ isr = "idle" /\ done = FALSE /\ ver \in Versions
    BY DEF Init
  <2>2. Image \in Versions \cup {Junk}
    BY WholeImage
  <2> QED BY <2>1, <2>2 DEF Owner!Init, Phase, Served, Dropped, OwnValue
<1>2. Served /\ Dropped /\ OwnValue /\ [Next]_vars => Served' /\ Dropped' /\ OwnValue'
  BY ServedNext, DroppedNext, OwnValueNext
<1>3. IInv /\ IInv' /\ Served /\ Dropped /\ OwnValue /\ [Next]_vars
        => [Owner!Next]_Owner!vars
  <2> SUFFICES ASSUME IInv, IInv', Served, Dropped, OwnValue, [Next]_vars
               PROVE  [Owner!Next]_Owner!vars
    OBVIOUS
  <2>1. CASE UNCHANGED vars
    <3>1. app' = app /\ ver' = ver /\ done' = done /\ mode' = mode
      BY <2>1 DEF vars, hostVars
    <3> QED BY <3>1, SameImage DEF Owner!vars, Phase
  <2> QED BY <2>1, MainRefines, InterruptRefines, HostRefines DEF Next
<1> QED BY <1>1, <1>2, <1>3, Invariance, PTL DEF Spec, ImplementsInstaller, Owner!Spec

=============================================================================
