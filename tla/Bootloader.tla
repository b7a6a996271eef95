----------------------------- MODULE Bootloader -----------------------------
(***************************************************************************)
(* The whole device, record by record: the boot decision and the polling   *)
(* loop of Src/main.c, the USB interrupt that feeds the sectors the host   *)
(* writes to fat32_write, the parser and the flash, the application, the   *)
(* power supply and the host.                                              *)
(*                                                                         *)
(* The HEX file is R records: an address record, one data record for each  *)
(* slot of the application and the end-of-file record.  A record is two    *)
(* halves and a sector holds W halves, so an odd W cuts records in two.    *)
(* IhexParser and FlashWriter have the detail of what a step here does.    *)
(***************************************************************************)
EXTENDS Integers

CONSTANTS
  R,          \* records of the file
  W,          \* half-records of a sector
  Versions,   \* the firmware files a host may write
  Erased,     \* a slot that is all 0xFF
  Junk,       \* a slot half programmed, or programmed with foreign bytes
  CksNotVld,  \* BTLDR_ACT_CksNotVld: is the CRC of the application checked?
  Troubles    \* what may go wrong around the program

ASSUME FileAssumption == R \in Nat /\ R > 2 /\ W \in Nat \ {0}
ASSUME ValueAssumption == Erased \notin Versions /\ Junk \notin Versions
ASSUME OptionAssumption == CksNotVld \in BOOLEAN
ASSUME TroubleAssumption ==
  Troubles \subseteq {"power", "hardware", "retry", "directory"}

Slots   == 1 .. R - 2
Values  == Versions \cup {Erased, Junk}
Halves  == 2 * R
Spoiled == R + 1      \* the parser is in a record no half goes with

VARIABLES
  mode,        \* what main() is doing
  key,         \* btldr_act_req_key = BOOTKEY, in RAM that is not initialized
  app,         \* the application area
  partial,     \* the record the parser is inside of, 0 between two records
  hi,          \* address_hi points into the flash
  eof,         \* ihex_eof_trig
  isr,         \* what the USB interrupt is doing
  cur, end,    \* the half under way and the last one of the sector
  page, slot, value,  \* the erase or the write under way
  ver, sent,   \* host: the file, and how many of its halves it has written
  clean,       \* history: nothing has disturbed this upload yet
  done         \* history: an undisturbed upload is complete, and unmolested

parserVars == <<partial, hi, eof>>
sectorVars == <<isr, cur, end>>
writeVars  == <<page, slot, value>>
hostVars   == <<ver, sent>>
vars == <<mode, key, app, parserVars, sectorVars, writeVars, hostVars,
          clean, done>>

Record(half) == (half + 1) \div 2
IsHead(half) == half % 2 = 1

Complete(v) == \A i \in Slots : app[i] = v

-----------------------------------------------------------------------------
Init ==
  /\ mode = "boot"
  /\ key \in BOOLEAN
  /\ app \in {[i \in Slots |-> x] : x \in Versions \cup {Erased}}
  /\ partial = 0 /\ hi = FALSE /\ eof = FALSE
  /\ isr = "idle" /\ cur = 1 /\ end = 0
  /\ page = 1 /\ slot = 1 /\ value = Junk
  /\ ver \in Versions /\ sent = Halves
  /\ clean = FALSE /\ done = FALSE

\* What is_appcode_exist may say: it looks at the first 16 bytes only, which a
\* damaged slot may have or not.
is_appcode_exist == IF app[1] = Junk THEN BOOLEAN ELSE {app[1] # Erased}

\* app_cks_valid looks at the whole application.
app_cks_valid == \E v \in Versions : Complete(v)

\* Mutant: the checksum option is forgotten in the condition.
BootUnchecked(button, exists) ==
  /\ mode = "boot"
  /\ exists \in is_appcode_exist
  /\ mode' = IF ~exists \/ button \/ key THEN "btldr" ELSE "app"
  /\ done' = (done /\ ~button)
  /\ UNCHANGED <<key, app, parserVars, sectorVars, writeVars, hostVars, clean>>

\* main(): the decision at reset; PA0 is sampled here.
Boot(button, exists) ==
  /\ mode = "boot"
  /\ exists \in is_appcode_exist
  /\ mode' = IF \/ ~exists \/ button
                \/ CksNotVld /\ ~app_cks_valid
                \/ key
             THEN "btldr" ELSE "app"
  /\ done' = (done /\ ~button)
  /\ UNCHANGED <<key, app, parserVars, sectorVars, writeVars, hostVars, clean>>

\* The interrupt has returned, so main() and the next request can go on.
Quiet == isr = "idle"
Usb == mode \in {"btldr", "delay"} /\ Quiet

\* Mutant: the application's request outlives the upgrade.
PollKeepsKey ==
  /\ mode = "btldr" /\ Quiet /\ eof
  /\ mode' = "delay"
  /\ UNCHANGED <<key, app, parserVars, sectorVars, writeVars, hostVars, clean,
                 done>>

\* The loop of main() sees the end of the file.
Poll ==
  /\ mode = "btldr" /\ Quiet /\ eof
  /\ key' = FALSE
  /\ mode' = "delay"
  /\ UNCHANGED <<app, parserVars, sectorVars, writeVars, hostVars, clean, done>>

\* SystemReset(): 500 ms in which the interrupt still serves the host, then
\* HAL_PCD_Stop, ...
StopUsb ==
  /\ mode = "delay" /\ Quiet
  /\ mode' = "stopped"
  /\ UNCHANGED <<key, app, parserVars, sectorVars, writeVars, hostVars, clean,
                 done>>

\* The C startup code clears the parser; the host loses the disk.
Restart ==
  /\ mode' = "boot"
  /\ partial' = 0 /\ hi' = FALSE /\ eof' = FALSE
  /\ isr' = "idle" /\ cur' = 1 /\ end' = 0
  /\ sent' = Halves /\ clean' = FALSE
  /\ UNCHANGED <<writeVars, ver>>

\* ... and NVIC_SystemReset after another second.
SystemReset ==
  /\ mode = "stopped"
  /\ Restart
  /\ UNCHANGED <<key, app, done>>

\* The application asks for the bootloader and resets (README).
AppReset ==
  /\ mode = "app"
  /\ key' = TRUE /\ done' = FALSE
  /\ Restart
  /\ UNCHANGED app

\* What a slot may hold when its programming or erasing is cut short.
Damaged(i) == IF app[i] = Erased THEN {Erased, Junk} ELSE {app[i]}
HalfErased(i) == {app[i], Erased, Junk}

\* Power is lost, or the reset button pressed: RAM may or may not survive.
PowerCycle ==
  /\ "power" \in Troubles
  /\ key' \in BOOLEAN /\ done' = FALSE
  /\ \/ isr \notin {"erase", "program"} /\ UNCHANGED app
     \/ isr = "erase" /\ \E x \in HalfErased(page) : app' = [app EXCEPT ![page] = x]
     \/ isr = "program" /\ \E x \in Damaged(slot) : app' = [app EXCEPT ![slot] = x]
  /\ Restart

-----------------------------------------------------------------------------
\* The host copies a file.  The upload starts undisturbed when the parser is
\* between two records.
StartUpload(v) ==
  /\ Usb
  /\ ver' = v /\ sent' = 0
  /\ clean' = (mode = "btldr" /\ ~eof /\ partial = 0)
  /\ done' = FALSE
  /\ UNCHANGED <<mode, key, app, parserVars, sectorVars, writeVars>>

Smaller(a, b) == IF a < b THEN a ELSE b

\* The next sector, in the order of the file.
WriteSector ==
  /\ Usb /\ sent < Halves
  /\ isr' = "parse" /\ cur' = sent + 1
  /\ end' = Smaller(sent + W, Halves)
  /\ sent' = end'
  /\ UNCHANGED <<mode, key, app, parserVars, writeVars, ver, clean, done>>

\* The last sector again, after a transport error.
RetrySector ==
  /\ "retry" \in Troubles
  /\ Usb /\ sent > 0
  /\ \E first \in 1 .. sent :
       /\ (first - 1) % W = 0 /\ sent - first < W
       /\ cur' = first
  /\ isr' = "parse" /\ end' = sent
  /\ clean' = FALSE /\ done' = FALSE
  /\ UNCHANGED <<mode, key, app, parserVars, writeVars, hostVars>>

\* Mutant: ihex_reset_state without `state = 0`.
WriteDirectoryKeepsState ==
  /\ "directory" \in Troubles
  /\ Usb
  /\ hi' = FALSE /\ eof' = FALSE
  /\ clean' = (mode = "btldr" /\ sent = 0)
  /\ done' = FALSE
  /\ UNCHANGED <<mode, key, app, partial, sectorVars, writeVars, hostVars>>

\* The root directory with a .HEX entry: ihex_reset_state.  Before the first
\* sector it makes the upload a clean one, later it disturbs it.
WriteDirectory ==
  /\ "directory" \in Troubles
  /\ Usb
  /\ partial' = 0 /\ hi' = FALSE /\ eof' = FALSE
  /\ clean' = (mode = "btldr" /\ sent = 0)
  /\ done' = FALSE
  /\ UNCHANGED <<mode, key, app, sectorVars, writeVars, hostVars>>

-----------------------------------------------------------------------------
\* ihex_parser() on the sector, half a record at a time.
Parsing == isr = "parse" /\ cur <= end

\* The parser is through with this half and has no record open.
NextHalf == partial' = 0 /\ isr' = "parse" /\ cur' = cur + 1

\* return false: what is left of the sector is dropped.
DropRest == isr' = "idle" /\ UNCHANGED <<cur, end>>

EndSector ==
  /\ isr = "parse" /\ cur > end
  /\ DropRest
  /\ UNCHANGED <<mode, key, app, parserVars, writeVars, hostVars, clean, done>>

\* Mutant: the half is taken for the record.
TakeHeadMiscounted ==
  /\ Parsing /\ IsHead(cur) /\ partial = 0
  /\ partial' = cur
  /\ isr' = "parse" /\ cur' = cur + 1
  /\ UNCHANGED <<mode, key, app, hi, eof, end, writeVars, hostVars, clean, done>>

TakeHead ==
  /\ Parsing /\ IsHead(cur) /\ partial = 0
  /\ partial' = Record(cur)
  /\ isr' = "parse" /\ cur' = cur + 1
  /\ UNCHANGED <<mode, key, app, hi, eof, end, writeVars, hostVars, clean, done>>

\* A ':' inside a record, or digits between two records.
Reject ==
  /\ Parsing
  /\ IsHead(cur) <=> partial # 0
  /\ DropRest
  /\ UNCHANGED <<mode, key, app, parserVars, writeVars, hostVars, clean, done>>

\* Mutant: the application is never erased.
WriteFirmwareUnerased(i, v) ==
  /\ slot' = i /\ value' = v /\ page' = 1
  /\ isr' = "program" /\ UNCHANGED <<partial, cur>>

\* A data record is complete and its address is in the application: the first
\* one erases it all.
WriteFirmware(i, v) ==
  /\ slot' = i /\ value' = v /\ page' = 1
  /\ isr' = (IF i = 1 THEN "erase" ELSE "program")
  /\ UNCHANGED <<partial, cur>>

\* The second half of the record whose first half was taken.
TakeTail ==
  /\ Parsing /\ ~IsHead(cur) /\ partial = Record(cur)
  /\ \/ /\ partial = 1
        /\ hi' = TRUE
        /\ NextHalf /\ UNCHANGED <<eof, writeVars, done>>
     \/ /\ partial = R
        /\ eof' = TRUE /\ done' = clean
        /\ NextHalf /\ UNCHANGED <<hi, writeVars>>
     \/ /\ partial \in 2 .. R - 1 /\ ~hi       \* out of range: ignored
        /\ NextHalf /\ UNCHANGED <<hi, eof, writeVars, done>>
     \/ /\ partial \in 2 .. R - 1 /\ hi
        /\ WriteFirmware(partial - 1, ver)
        /\ UNCHANGED <<hi, eof, done>>
  /\ UNCHANGED <<mode, key, app, end, hostVars, clean>>

\* Digits of another record go on with the one under way: its checksum fails,
\* or passes by chance over a record nobody sent; digits that are then left
\* over make the parser drop the sector.
TakeForeign ==
  /\ Parsing /\ ~IsHead(cur) /\ partial \notin {0, Record(cur)}
  /\ \/ /\ partial' = Spoiled /\ DropRest
        /\ UNCHANGED <<hi, eof, writeVars>>
     \/ /\ NextHalf /\ end' \in {cur, end}
        /\ \/ UNCHANGED <<hi, eof>>
           \/ hi' = ~hi /\ UNCHANGED eof
           \/ eof' = TRUE /\ UNCHANGED hi
        /\ UNCHANGED writeVars
     \/ /\ \E i \in Slots : WriteFirmware(i, Junk)
        /\ end' \in {cur, end}
        /\ UNCHANGED <<hi, eof>>
  /\ UNCHANGED <<mode, key, app, hostVars, clean, done>>

\* Mutant: the last page is left out.
ErasePageShort ==
  /\ isr = "erase"
  /\ app' = [app EXCEPT ![page] = Erased]
  /\ IF page + 1 < R - 2 THEN page' = page + 1 /\ UNCHANGED isr
     ELSE isr' = "program" /\ UNCHANGED page
  /\ UNCHANGED <<mode, key, parserVars, cur, end, slot, value, hostVars, clean,
                 done>>

ErasePage ==
  /\ isr = "erase"
  /\ app' = [app EXCEPT ![page] = Erased]
  /\ IF page < R - 2 THEN page' = page + 1 /\ UNCHANGED isr
     ELSE isr' = "program" /\ UNCHANGED page
  /\ UNCHANGED <<mode, key, parserVars, cur, end, slot, value, hostVars, clean,
                 done>>

\* The callback returns false: the parser stays inside a record.
EraseFails ==
  /\ "hardware" \in Troubles
  /\ isr = "erase"
  /\ partial' = Spoiled /\ DropRest
  /\ clean' = FALSE
  /\ UNCHANGED <<mode, key, app, hi, eof, writeVars, hostVars, done>>

\* A slot that is not erased refuses the record; the callback returns true.
Program ==
  /\ isr = "program"
  /\ app' = [app EXCEPT ![slot] = IF @ = Erased THEN value ELSE @]
  /\ NextHalf
  /\ UNCHANGED <<mode, key, hi, eof, end, writeVars, hostVars, clean, done>>

\* The flash reports an error: nobody looks at it.
ProgramFails ==
  /\ "hardware" \in Troubles
  /\ isr = "program"
  /\ \E x \in Damaged(slot) : app' = [app EXCEPT ![slot] = x]
  /\ NextHalf
  /\ clean' = FALSE
  /\ UNCHANGED <<mode, key, hi, eof, end, writeVars, hostVars, done>>

Interrupt ==
  \/ EndSector \/ TakeHead \/ Reject \/ TakeTail \/ TakeForeign
  \/ ErasePage \/ EraseFails \/ Program \/ ProgramFails

Reset == \E button, exists \in BOOLEAN : Boot(button, exists)

Main == Poll \/ StopUsb \/ SystemReset

Host ==
  \/ \E v \in Versions : StartUpload(v)
  \/ WriteSector \/ RetrySector \/ WriteDirectory

Next ==
  \/ Reset
  \/ Main \/ Interrupt \/ Host \/ AppReset \/ PowerCycle

Spec == Init /\ [][Next]_vars

\* The processor runs main() and the interrupt; the host and the application
\* need not do anything.
FairSpec ==
  /\ Spec
  /\ WF_vars(Reset) /\ WF_vars(Main) /\ WF_vars(Interrupt)

-----------------------------------------------------------------------------
\* The types of the variables.
FlagsOK ==
  /\ key \in BOOLEAN /\ hi \in BOOLEAN /\ eof \in BOOLEAN
  /\ clean \in BOOLEAN /\ done \in BOOLEAN

TypeOK ==
  /\ FlagsOK
  /\ mode \in {"boot", "btldr", "delay", "stopped", "app"}
  /\ isr \in {"idle", "parse", "erase", "program"}
  /\ app \in [Slots -> Values]
  /\ partial \in 0 .. Spoiled
  /\ sent \in 0 .. Halves /\ end \in 0 .. Halves /\ cur \in 1 .. Halves + 1
  /\ page \in Slots /\ slot \in Slots
  /\ value \in Versions \cup {Junk} /\ ver \in Versions

\* How far the file of the current upload has been taken.
Taken == IF isr = "idle" THEN sent ELSE cur - 1

\* While nothing disturbs an upload the parser is where the host is: inside
\* the record a sector boundary cut, between records elsewhere, and the address
\* record has taken effect once it is passed.
InStep ==
  clean =>
    /\ partial = IF IsHead(Taken) THEN Record(Taken) ELSE 0
    /\ Taken >= 2 => hi
    /\ eof <=> Taken = Halves

\* While nothing disturbs an upload, every slot whose record is taken holds the
\* new version and every other slot is erased, once the first record is taken:
\* whatever an earlier upload, or the loss of power during one, left behind.
StoredSoFar ==
  clean /\ Taken >= 4 => \A i \in Slots :
    app[i] = IF 2 * i + 2 <= Taken THEN ver ELSE Erased

\* What the interrupt is at, for the proofs: an erase or a write under way in an
\* undisturbed upload is that of the record just taken, and nothing is under way
\* once the upload is done.
UnderWay ==
  /\ isr # "idle" => cur <= end + 1
  /\ isr \in {"erase", "program"} => cur <= end
  /\ clean /\ isr # "idle" => end = sent
  /\ clean /\ isr \in {"erase", "program"} =>
       /\ ~IsHead(cur) /\ slot = Record(cur) - 1 /\ slot < R - 1
       /\ value = ver
  /\ clean /\ isr = "erase" =>
       slot = 1 /\ \A i \in Slots : i < page => app[i] = Erased
  /\ clean /\ isr = "program" /\ slot = 1 => Complete(Erased)
  /\ done => /\ sent = Halves
             /\ isr = "idle" \/ (isr = "parse" /\ cur > end)

\* An undisturbed upload has installed its file, all of it, and nothing the
\* device does on the way to the application takes that back.
Installed == done => Complete(ver)

\* The inductive invariant of the proofs.
IInv == TypeOK /\ InStep /\ StoredSoFar /\ UnderWay /\ Installed

\* With the checksum option, no application but a complete one is started,
\* wherever power was lost and whatever was written (README, "CRC32").
RunsOnlyComplete == mode = "app" => \E v \in Versions : Complete(v)

\* For the proofs: the interrupt has its sector only while main() leaves USB on.
Served == isr # "idle" => mode \in {"btldr", "delay"}

\* What the device is to its owner: USB is served up to the reset, and a firmware
\* is whole when the application is.
Phase == IF mode = "boot" THEN "deciding" ELSE IF mode = "app" THEN "running" ELSE "serving"

Image == IF app_cks_valid THEN app[1] ELSE Junk

Owner == INSTANCE Installer
         WITH Firmware <- Versions, Nothing <- Junk, Checked <- CksNotVld,
              phase <- Phase, image <- Image, file <- ver, due <- done

\* The device implements what a bootloader promises: whatever is written, lost or
\* cut off, no firmware becomes whole but the one the host is sending, nothing
\* changes it once it is installed, and the next decision without the button
\* starts it; with the checksum option only a whole one is started.
ImplementsInstaller == Owner!Spec

\* For the proofs: the application's request is gone when the device resets itself,
\* and what is being written is of the host's file or of no file.
Dropped ==
  mode \in {"delay", "stopped"} \/ (mode = "boot" /\ done) => ~key
OwnValue == isr \in {"erase", "program"} => value \in {ver, Junk}

\* An undisturbed upload ends in the application, without another touch of the
\* device: the reset happens and the boot decision goes the right way.
UpgradeRuns == done ~> (mode = "app" \/ ~done)

\* The device resets itself only with a whole application in place.  The code
\* does not keep this: a directory write in mid-file drops the address record's
\* effect, the data after it is ignored and the end-of-file record still counts.
SelfResetComplete == mode = "stopped" => \E v \in Versions : Complete(v)

=============================================================================
