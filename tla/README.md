# Verification of the STM32F103 mass-storage bootloader

The program is a bootloader for the STM32F103.  Plugged into a PC it is a USB
disk; a firmware file in Intel HEX format that is copied to it is parsed while
the sectors arrive, decrypted if the file says so, and programmed into flash.
When the file's end has been seen the device resets itself and starts the new
application.

This directory models that program in TLA+, checks the models with TLC on small
instances and proves the most important invariants with TLAPS for all sizes.
`PROJECT.json` lists components, runs, mutants, hazards, findings, theorems, and
for every definition the lines of source it stands for.

    tlc -config MC_Bootloader_install.cfg MC_Bootloader     one of the runs
    tlapm BootloaderProofs.tla                              one of the proofs

## 1. Inventory

### Firmware path

| Part | Source | State it keeps | Operations |
|---|---|---|---|
| Intel HEX parser | `Src/ihex_parser.c` | parser state, record under way (count, address, type, data, checksum), addressing mode, crypt mode, end-of-file mark; all of it survives from one call to the next | `ihex_parser` (one call per sector), `ihex_reset_state`, the data callback |
| Firmware writer | `Src/fat32.c` (`_fat32_write_firmware`), `stm32f1xx_hal_flash.c`, `..._flash_ex.c` | the flash, its lock; locals of the call | range check, erase of the application by its first record, split into unaligned head, whole words and tail, programming half-word by half-word |
| Disk image | `Src/fat32.c` | none of its own: sectors are made up when read | `fat32_read`; `fat32_write`, which gives a data sector to the parser and, at a root-directory sector with a `.HEX` entry, resets the parser |
| Storage interface | `Src/usbd_storage_if.c` | none | block by block calls of the disk image, which never report a failure |
| Decryption | `Src/crypt.c`, `Src/aes.c` | key schedule | AES-256-CTR in place |

### Device

| Part | Source | State it keeps | Operations |
|---|---|---|---|
| Boot decision and main loop | `Src/main.c`, `Src/crc.c` | `btldr_act_req_key`, in RAM that is not cleared at reset | decision at reset (application there? button? checksum? request?), polling of the end-of-file mark, delayed reset |
| Mass storage class | `usbd_msc.c`, `usbd_msc_bot.c`, `usbd_msc_scsi.c` | BOT state and status, the CBW and CSW, the sense list, the transfer's address and length, the medium's geometry | 12 SCSI commands, data in and out block by block, CLEAR_FEATURE, BOT_RESET, configuration |
| USB core | `usbd_core.c`, `usbd_ctlreq.c`, `usbd_ioreq.c` | device state and the one before suspend, address, endpoint 0 | enumeration, suspend and resume, control transfers |
| USB peripheral driver | `stm32f1xx_hal_pcd.c`, `stm32f1xx_ll_usb.c`, `usbd_conf.c` | per endpoint: buffer, length, stall | one interrupt that serves transfers, reset, suspend, wake-up |

Descriptors, clock and pin setup, vendor drivers this program does not reach, the
host tools, build files and example images are listed in `PROJECT.json` as not
modelled, with the reason.

### How they interact

Everything the host does is served inside one interrupt, so a SCSI write, the
disk, the parser, decryption and programming of flash run to completion before
`main()` or another USB event goes on.  `main()` and the interrupt share the
end-of-file mark: the loop polls it, clears the application's request and waits
half a second, in which the interrupt still serves the host.  The parser calls
the firmware writer; its answer is what the parser looks at, the status of the
programming itself is looked at by nobody.  A reset forgets everything but the
flash and the request word.

### What is hard here

* The stream is cut into sectors at any character, so every parser variable is
  live between two calls, and an error in mid-sector leaves it where it was.
* The host may write a directory, retry a sector, start over, or be cut off in
  the middle of a record, of an erase or of a half-word.
* Records need not be aligned, and address arithmetic wraps at 32 bits.
* The transport machine and the host each keep their own idea of where a command
  is; halted endpoints, short data, resets and refused commands must leave them
  together.
* The boot decision depends on what survives in RAM and on half-written flash.

### What makes each part correct

* Parser: it stays inside its buffer; uses every digit of a record once wherever
  calls cut it; calls back with exactly the bytes announced; changes modes only by
  a checked record.
* Writer: it never touches the bootloader; stores a record byte for byte where
  the flash was erased; ignores a record outside the application; starts a new
  application on erased flash; always returns.
* Device: an upload nothing disturbs installs the whole file whatever was in
  flash, and ends in the application; with the checksum option nothing incomplete
  is started.
* Disk image: a host that follows the table's first copy reads the files as they are,
  finds an end to every chain and takes free clusters only; what it writes reaches the
  parser exactly when it is the text of a file and the disk has the block, or a
  directory that has outgrown its sector.
* Mass storage: every command ends; its status tells the truth and is never taken
  back; its blocks are the ones it named, in order, once, inside the disk; the
  sense data is that of the oldest failure not yet told, which is the last one for a
  host that always asks; the next command finds the machine ready.
* Endpoint: every packet of an answer arrives once and in order; the class is told
  of a transmission when the host has it.
* USB core: whenever the device is quiet it is in the state the host takes it to be
  in; the class is open in the state CONFIGURED only; every request is answered;
  the host can always get back to a usable device.

`PROJECT.json` lists 40 hazards, each at its line with the properties aimed at it.

## 2. Modules

`IhexParser`, `FlashWriter`, `Fat32Disk`, `MscBot`, `BulkPort` and `UsbCore` each
model one component in detail.  `Bootloader` composes parser, writer, main loop,
interrupt, host and power at a coarser grain: half a record is its unit.
`BlockDevice` is the abstract disk that `MscBot` implements, `Installer` the abstract
bootloader that `Bootloader` implements.  Each but these two has an `MC_` module with
the small instance and one with its proofs (`MscBot` has two, `MscBotProofs` and
`MscBotTransfers`).

### IhexParser (`ihex_parser.c`)

One variable per static of the C file, one action per case of the switch and per
way out of it; `left` is what the call has still to read.  Integers have the
width of their C type.  The environment chooses characters (`Alphabet[state]`),
the cut into calls and the callback's answer; a decrypting callback may leave
other bytes in the buffer (`Scratch`).  Two history variables: `consumed`, nibbles
taken since the colon, and `gap`, that input was dropped inside the record.
Kept as the code has it: letters up to `z` count as digits, and a record that an
error interrupts stays open for the next sector.

### FlashWriter (`_fat32_write_firmware`, HAL flash)

`pc` follows the function: erase, check, head, body, exit; `word` is the
`HAL_FLASH_Program` under way.  A step erases a page or programs a half-word, and
power may go between any two.  Programming a half-word that is not erased is
refused and the word is abandoned, as in `HAL_FLASH_Program`; the caller ignores
it.  An address outside any flash is written to nowhere or ends in
`HardFault_Handler`, which loops (`pc = "fault"`).  AES-CTR is an involution that
changes every byte: what matters is that it is applied in place, once, to whole
blocks.

### Bootloader (`main.c`, `fat32_write`, the composition)

`mode` is where `main()` is, `isr` what the interrupt is doing, `partial`, `hi`
and `eof` are the parser at record grain, `app` the application slot by slot, `key`
the request word.  A sector of `W` half-records is parsed half by half; `TakeForeign`
stands for all that the parser may make of digits that continue a record they do
not belong to.  `Troubles` switches on power cuts, flash errors, repeated sectors
and directory writes.  Histories: `clean`, nothing has disturbed this upload;
`done`, such an upload is complete.

### Installer, and what Bootloader makes of it

`Installer` is what a bootloader promises the owner, whatever the file format, the
flash and the host do: no firmware is ever whole in the device but the one that was
and the one the host is sending; it changes only while the host is served, and never
once it is installed; what has been installed is started at the next reset unless the
owner holds the button; with the check nothing but a whole firmware is started.
`Bootloader` implements it (`ImplementsInstaller`): `phase` is `mode` with the loop, the
end of the file and the interrupt as one "serving" (`Phase`); `image` is the version all
of whose records are stored, or none (`Image`); `file` is `ver`, `due` is `done`.  The
parser's place in a sector, the request word and the steps of an erase are stutters or
`Store`.

### MscBot (`usbd_msc*.c`)

A step is a transfer or request of the host together with everything the device
does about it in the interrupt.  `bot_state`, `bot_status`, `cbw`, the CSW's
`residue` and `status`, the sense ring and `blk_*` are the fields of
`USBD_MSC_BOT_HandleTypeDef`; `in` and `out` are what each bulk endpoint is armed
for, or that it is halted.  A command is a record of what decides its handling;
the direction, the length the host expects and the range in the CDB are
independent, so that disagreements occur.  The host follows the Bulk-Only
protocol, with its recovery of halted endpoints and the reset recovery; it is an
environment and marked external in the map.

Modelled although they look odd, because the code does them: VERIFY looks at the
address and length that the last read or write left; `bot_status` stays RECOVERY
after BOT_RESET; a refused read leaves `bot_state` at DATA_IN; CLEAR_FEATURE on
the OUT endpoint re-arms it with whichever buffer it had (`"stray"`); a division by
a block size that is not known yet yields 0 on this processor.

### BlockDevice, and what MscBot makes of it

`BlockDevice` is what a disk promises whatever the transport: one command at a
time, `touched` grows by the next block of it or not at all, a verdict at its end,
nothing accessed after the verdict or in a recovery.  `MscBot` implements it
(`ImplementsDisk`) with this mapping: `stage` is "idle" between commands, "decided"
while a CSW is on offer to a host that waits for it, "recovering" in the host's reset
recovery, otherwise "busy" (`Stage`); the verdict is the status of that CSW
(`Verdict`); command and blocks are `cbw` and `media`.  What the host does to clear a
halted endpoint is a stutter, or the step in which the status comes on offer.

### BulkPort (`PCD_EP_ISR_Handler`, `USB_EPStartXfer`)

The same endpoint one level down, packet by packet.  `in_ep` and `out_ep` are the
endpoint structures of the HAL (buffer position, `xfer_len`), `tx`, `rx` the
endpoint's status bits, `ctr` the completion flags, `seen` the register value the
handler has read and still serves: host and peripheral move between any two of its
steps.  A buffer is a range of a named transfer, a packet such a range.  The class
is reduced to what arms the endpoint (`Decode`, `ProcessRead`, `ProcessWrite`,
`SendCSW`).  `hasty` marks a command that came before the completion of the last
status was served: the handler serves OUT first, decodes it, and then takes the
old completion for one of the new answer's.  Every property excludes this one case
by name; `ResetPort` shows that the device recovers from it.

### UsbCore (`usbd_core.c`, `usbd_ctlreq.c`, `HAL_PCD_IRQHandler`)

`pc` is the flag that the interrupt handler looks at next; `ctr`, `RESET`, `WKUP`,
`SUSP`, `FSUSP` are the peripheral's flags and may change between its steps.  `tx`
and `rx` are what endpoint 0 is armed for, `open` is `pClassData # NULL`.  One
definition per request handler; requests that are handled alike share it.  The host
enumerates, makes any request in the state it is made in, suspends, resumes and
resets, and starts over when a vital request fails.

As the code has it: `USBD_LL_Resume` restores `dev_old_state` whatever the state is
now; the suspend callback is skipped when WKUP is set already; CLEAR_FEATURE of the
device feature closes endpoint 0; a request that the class refuses gets a stall and
a status.  `raced` marks that a resume has restored a state other than the one
suspended: from there a device may be CONFIGURED without a class, and the class's
handlers write through NULL (`pc = "fault"`, the endless `HardFault_Handler`).

About the host: it waits, after a resume, until the device has had its recovery time
(`Heard`); it does not suspend a device before the reset it has just given is
served; and a reset does not fall between the handler's last completion and its
look at the RESET flag, a few instructions.

### Fat32Disk (`fat32_read`, `fat32_write`)

The code's functions by address, with the addresses and the boot sector's numbers of
the source, and a host with a FAT32 driver: it computes the place of a cluster from
the boot sector, follows chains through the table the code makes up, reads the files
and copies new ones, its blocks in any order.  `Fate` is what becomes of a block
written: dropped, scanned for a `.HEX` name, parsed, or refused.

## 3. Runs

All bounds are constants of a `.cfg` or definitions of an `MC_` module.

| Run | What it asks | Bounds |
|---|---|---|
| `records` | buffer, digits, checksum, callback length and delivery of the parser under noise, early ends, cuts and failing callbacks; modes change by checked records only | records of every type, of 0 and 2 bytes and of 3 that the 2-byte buffer must refuse, right and wrong checksums, calls of 3 characters; 2 263 000 states |
| `store` | placement, exact storage, untouched bootloader, the lock, return of every call | flash of 3 words of 4-byte pages, one of them bootloader; records at every alignment, across both ends and the top of the address space (32); 80 000 states |
| `install` | an undisturbed upload installs its file and ends in the application; with the checksum option (`CksNotVld`) only complete applications start; `Bootloader` implements `Installer` | file of 5 records, sectors of 3 half-records, 2 versions, all troubles; 825 000 states |
| `work` | every command ends (three kinds excepted, `Deaf`), with a true status and the right blocks and sense, also after resets and damaged CBWs; `MscBot` implements `BlockDevice` | disk of 3 blocks of 4 bytes, sense list of 2, all commands and their mistakes, data expected that the device has not, reset recovery and new configuration at any time; 283 000 states |
| `bulk` | every answer arrives whole and in order, every write lands where it belongs, every command gets its status | media packet of 3 packets, replies of a short and a full packet, reads and writes of 1 to 3 media packets; 5 000 states |
| `usb` | host and device agree, every request is answered, the class is open when configured, the host always gets back to a usable device | one address, a request of each kind of handling, 3 suspensions, resets or requests that close endpoint 0; 595 000 states |
| `disk` | chains stay inside and end, files read back, the parser gets the text of a file, as far as the disk reaches, and a directory block beyond the sixteenth entry | the real layout; application of 112 KB; clusters at both ends of the free range, names of 2 and 14 entries; 29 000 states |

Why these are enough.  The parser's behaviour depends on a count only through
"none, some, all, too many" and the low half of a byte, all of which 0, 2 and 3
over a 2-byte buffer show; calls of 3 characters, with noise between records, cut a
record at every place.  The writer's cases are the position of both ends of a
record in a word and against the application's bounds; three words have them all.
Three data records have a first, a middle and a last, and an odd sector size cuts
every second record.  Three blocks give a transfer a first, middle and last
packet; a ring of 2 entries is full after two
refusals, and loses both; in what order a longer one, as the real one of 4, gives up
its entries is proved for every length (`SenseIsFresh`) and not run.  Three packets to a media
packet and three of those to a transfer have a first, a middle and a last of both.
Three upsets suffice for a suspension, a reset and another suspension, the
shortest way to a stale state and past it; a second address adds nothing but names.
The root directory of 16 entries is full after one long name.  What does not depend
on the bound is proved for every size (section 5).

The address space of `store` (32) and the word of `work` (64) are small, but larger
than everything placed in them, as 2^32 is; the records and ranges are chosen on
both sides of the wrap.

Five runs end in a counterexample, each against a statement of the repository:

| Run | What the code does | Where |
|---|---|---|
| `intact` | a record that an error interrupts stays open, the next sector goes on with it, and it can pass its checksum | `ihex_parser.c:132` |
| `unalign` | two records share a word: the padding of the first makes the flash refuse the second one's part, and nobody looks at the status | `fat32.c:367` |
| `directory` | a directory write in mid-file resets the parser, the rest is ignored, the end-of-file record still resets the device | `fat32.c:494` |
| `recovery` | after BOT_RESET a command that fails halts the IN endpoint, and when the host has cleared it no status comes; commands without data out only | `usbd_msc_bot.c:138` |
| `verify` | VERIFY checks what the last transfer left, in bytes | `usbd_msc_scsi.c:628` |

Known and not given a run of their own, because no statement of the repository is
about them; the properties exclude each by name, or say what happens:

* an encrypted record refused for its size leaves the flash unlocked until the next
  one (`fat32.c:340`; `LockDiscipline` allows this return only);
* a record whose end wraps 32 bits passes the range check (`fat32.c:365`; it reaches
  no flash, which `store` and the proof cover);
* a WRITE of no blocks waits for data for ever (`usbd_msc_scsi.c:593`; `Deaf`);
* a command with a length for which the device has no data, START STOP UNIT or an
  INQUIRY that asks for 0 bytes, gets its status in the data stage, where the host
  takes it for the data and waits for another (`usbd_msc_bot.c:282`; `NoData`);
* after a reset recovery a refused command with data out leaves the OUT endpoint
  neither halted nor armed (`usbd_msc_bot.c:353`, the same `bot_status` as in
  `recovery`; `Deaf`);
* a reset recovery does not empty the sense list, so a host that asks after the next
  failure may be told an older one (`usbd_msc_bot.c:133`; `owed = "any"`), and a list
  that is full looks empty (`usbd_msc_scsi.c:428`; `Note`);
* a range that wraps passes the address check (`usbd_msc_scsi.c:651`; the
  assumption `Straight` in section 5);
* a CBW whose arrival is served together with the completion of the last CSW
  confuses the transport machine (`stm32f1xx_hal_pcd.c:1292`; `hasty`);
* a resume after a bus reset, or after a suspension that was skipped, restores a
  stale state (`usbd_core.c:480`, `stm32f1xx_hal_pcd.c:613`; `raced`); in the run the
  host recovers from it unless a class request has led to the fault;
* CLEAR_FEATURE of the device feature leaves endpoint 0 closed until a bus reset
  (`usbd_msc.c:446`; `Ordinary`);
* a seventeenth directory entry makes the host put a directory where the parser
  reads text, and the boot sector names 193 sectors more than the disk has
  (`fat32.c:132`; `ParserGets` says what the parser gets then);
* the second copy of the table is computed with the offset of the first
  (`fat32.c:215`) and says something else; no property reads it;
* README.TXT's chain does not end at its one cluster but runs into FIRMWARE.BIN's, as
  a disk check would find; `ChainInside` bounds chains, it does not separate them.

Every property of a passing run has a mutant: a definition changed as a bug would
change it, which breaks the property under the run's own configuration.  The
mutated definitions stand before the originals, marked "Mutant".

## 4. Fairness

* `FlashWriter`: weak fairness of the writer's steps.  The callback runs in the
  interrupt and every wait in the HAL is bounded, so it is never held up for ever.
* `Bootloader`: weak fairness of the boot decision, of `main()`'s steps and of the
  interrupt's.  The processor runs one or the other; the interrupt ends (the
  parser reads a finite sector).  Nothing is assumed of host, application, power.
* `MscBot`: weak fairness of a host that has begun a command.  The device itself
  acts within the host's transfers.  New commands, port resets and the host's
  running out of patience are not fair.
* `BulkPort`: weak fairness of the interrupt and of the host's transfers, as in
  `MscBot`; not of new commands or resets.
* `UsbCore`: weak fairness of the interrupt, of the peripheral's flags, and of a
  host that goes on with a transfer, resumes, and starts over after a failure.
  Strong fairness of the three requests that enumeration consists of: a host makes
  any number of other requests, and each makes these momentarily unavailable, but
  it does not forget to enumerate the device.  Nothing is assumed of the upsets,
  which are bounded.
* `Fat32Disk`: weak fairness of reading, checking and writing once begun.

Safety runs without a temporal property use the plain specification.

## 5. Proofs

| Theorem | Says | Module |
|---|---|---|
| `TypeCorrect`, `BufferIsSafe`, `CallbackLengthIsExact`, `DeliveryIsExact` | the parser stays in its buffer, and what it hands over is what the record announced | `IhexParserProofs` |
| `ChecksumKeepsStep`, `ModesChangeOnlyByRecord` | every digit of a record is summed once, wherever calls cut it; the modes change by a checked record only | `IhexParserProofs` |
| `TypeCorrect`, `WordsArePlaced`, `BootloaderIsUntouched` | no record, alignment, failure or power cut changes the bootloader | `FlashWriterProofs` |
| `RecordIsStored`, `OutsideIsIgnored`, `FirstRecordDoesErase`, `FlashIsLocked` | a record is stored byte for byte where the flash was erased, others leave it alone; the flash is locked again | `FlashWriterProofs` |
| `TypeCorrect`, `StaysInStep`, `StoresWhatIsTaken`, `UploadInstalls`, `StartsComplete` | an undisturbed upload is installed; with the checksum option nothing else starts | `BootloaderProofs` |
| `ImplementsTheInstaller` | every step of `Bootloader` is a step of `Installer` or none | `BootloaderProofs` |
| `TypeCorrect`, `TakesNextCommand` | after any command and any reset the machine takes the next one | `MscBotProofs` |
| `SenseIsFresh` | REQUEST SENSE tells the oldest failure not yet told, through recoveries and full lists | `MscBotProofs` |
| `OrderedMedia`, `StaysWithin`, `TrueStatus` | a command's blocks, and its status, are right | `MscBotTransfers` |
| `ImplementsTheDisk` | every step of `MscBot` is a step of `BlockDevice` or none | `MscBotTransfers` |
| `TypeCorrect`, `DeliveredInOrder`, `CompletionMeansTaken` | the packets of an answer arrive once and in order, and the class is told of a transmission when the host has it, for transfers and packets of any size | `BulkPortProofs` |
| `FreeCountIsExact`, `TypeCorrect`, `ChainsStayInside`, `FilesAreRead`, `ParserGetsTheFile` | the files are read back, chains stay among the clusters in use, and the parser gets what `ParserGets` says, for every size of the application and every choice of clusters | `Fat32DiskProofs` |
| `TypeCorrect`, `ClassIsOpen`, `NoFaultEver` | the class is open when configured, over any number of suspensions and resets, unless a stale state is restored | `UsbCoreProofs` |
| `HostAndDeviceAgree`, `RequestsAreAnswered` | a quiet device is in the state the host takes it to be in, and no request is left without an answer, over any number of suspensions, resets and requests | `UsbCoreProofs` |

The assumptions are those declared with the constants of each module: sizes are
positive, pages are whole words, the flash has room for a record on both sides,
data values differ from the erased one.  `StartsComplete` assumes `CksNotVld`, and
the theorems of `MscBotTransfers` assume `Straight`: no range in a READ or WRITE
ends beyond 2^32 blocks.  Without it `StaysWithin` is false.  `SenseIsFresh` assumes
`Depth > 1`: a ring of one entry always looks empty; `SENSE_LIST_DEEPTH` is 4.
`DirectionAssumption` leaves out hosts that send data out with a command that takes
none (INQUIRY, READ CAPACITY and the like), or after a CBW that arrives damaged:
what becomes of those packets is not modelled.

How they go:

* *Parser.*  `IInv` adds to the types that the parser's state and the fill of the
  buffer agree (`BufferTracksState`) and that the nibbles consumed are those of
  the position in the record, unless input was dropped (`NibblesAccounted`).
  `BufferSafe` alone is not inductive: the index is bounded by the announced count,
  and only in the data state.  `ChecksumInStep` needs no more than that each action
  that takes a digit counts it and adds it to the sum or to the half byte (`Takes`),
  and that dropped input raises `gap`.
* *Writer.*  `WordsPlaced` says that what is left to program, and the word under
  way, is inside the application or in no flash at all, and that after the head
  everything is word-aligned.  The disjunction is needed because the check's sum
  may wrap.  The action property follows from it: a half-word of such a word, if
  it is flash, is application.
* *Device.*  `IInv` ties the parser's record to the host's position (`InStep`), the
  flash to what has been taken (`StoredSoFar`), and an erase or write under way to
  the record just taken (`UnderWay`), all of it only while nothing has disturbed
  the upload.  `Installed` is what remains of it when the upload is done.
  `StartsComplete` needs only `Served`: the interrupt is not inside a sector
  once `main()` has left its loop.
* *Installer.*  From `IInv` and `Served` with one addition (`Image` changes only to
  nothing or to the file being sent): a slot is written with the record of the
  file under way or damaged, so a version becomes whole only if it is that file's
  (`WholeImage`, `ProgramImage`, `DamageImage`).  When the upload is done nothing more
  is stored, since `done` is dropped by whatever the host begins (`Dropped`), and the
  boot decision finds the complete application it asks for (`BootDecides`).
* *Mass storage.*  `Ready` (the endpoints between commands and in a recovery) and
  `Counted` (the residue against what the host has moved and what is under way)
  are inductive with the types.  `SInv` says what the sense list holds as long as the
  host has asked for the sense data of every failure: one code while a failure is
  reported or still to be asked for, nothing otherwise.  `QInv` says what it holds after
  any recoveries: the ring, from `head` on, is the queue of the failures not yet told
  (`untold`), which a full list empties.  On top of them `PInv` says that the transfer has
  `n` blocks left, that the machine's byte address stands for the next of them
  (`Placed`), and that what was accessed is ordered and fits (`MediaInOrder`,
  `Inside`).  The arithmetic is that of whole multiples of the block size.
* *Refinement.*  `PInv` says which block a step accesses, so `Access` holds of it;
  what is left is that the stage and verdict move as the abstract disk allows
  (`Judged`), action by action, and that a status passed is given only when `n` is 0.
* *Storing.*  `SInv` relates the flash to the flash before the call: what has been
  programmed is the record's bytes or padding, what is still to come is as the erase
  left it.
* *Endpoint.*  A command goes through `Stages`: none, decoded, data going out to the
  host, data coming in, refused, status.  For each the invariant says how far the
  buffers have counted, what the host has got, what the medium holds and which flags
  are up.  `hasty` marks the one case in which two commands meet.
* *Disk image.*  The chain's cluster is the first one plus the position (all
  chains are contiguous), and the blocks of a copy lie in disjoint ranges by kind.
* *USB core.*  As long as the device state is SUSPENDED the peripheral is, so no
  suspension saves SUSPENDED; a SETUP packet that waits was sent on a bus not
  suspended since, so no request is answered in that state; after a bus reset the
  device does not hear the host until it has served it.
  What the host takes the device to be differs from what it is during a
  request only, so the invariant for `Agrees` is a description of endpoint 0's talk
  (`Talk`): for each phase of a request, what is armed, what has arrived and which state
  the device is in, with the state the host expects after the request (`Between`,
  `Second`, `Confirming`), plus what a reset not yet served leaves (`AfterReset`).
  `RequestsAreAnswered` is one phase of it: a request taken has an answer armed.

Model-checked only: liveness (`CallReturns`, `UpgradeRuns`, `CommandEnds`, `Answered`,
`Recovers`, `ChainEnds`), which needs fairness and ENABLED, out of the prover's
reach.  Every invariant, action property and refinement of a passing run is a theorem
for all values of the constants.

Proved and not in a run's properties, because what a run checks implies them or they
are steps of a proof: `BufferTracksState` and `NibblesAccounted` (parser), `WordsPlaced`
(writer), `WithinDisk` (`ImplementsDisk` accesses a block of a command that fits only),
`Installed` (`Installer` finishes with the whole file only).

## 6. Not modelled

* Control transfers longer than a packet, SET_ADDRESS 0, attach and detach of the
  device: endpoint 0 carries one packet each way in `UsbCore`.
* The packet memory, double-buffered and isochronous endpoints, initialisation of
  the peripheral: register access, or not used.
* `UsbCore`, `BulkPort` and `MscBot` are not composed: each assumes of the next what
  that one's properties say (a configured device stays so; a transmission is
  complete when it is said to be; a command's answer is what the class armed).
* Names, dates and the text in the sectors of `Fat32Disk`.
* The cipher and the CRC as arithmetic: the first is an involution, the second a
  perfect check of the whole application.
* The storage callbacks' failures: `usbd_storage_if.c` never reports one.
* Option bytes, mass erase and interrupt-driven programming in the HAL: not called.
* Most lines of the repository: of about 91 600, the CMSIS and device headers, the
  HAL and LL drivers for peripherals this program does not use, the DSP library's
  header and the legacy macros are over nine tenths.  They are not linked, or are
  register definitions without behaviour of their own; modelling them would say
  nothing about this program.  Of the program's own code in `Src/`, the mass storage
  class and the USB core almost every function with a state is modelled.

## 7. What could follow

1. `Bootloader`'s record-grain parser from `IhexParser`: the grain of half a record
   stands for what the character-level model proves of a record.
2. `MscBot`'s transmission from `BulkPort`'s packets, as a refinement.
3. Composition of `UsbCore` with `MscBot`: a reset in the middle of a command.
