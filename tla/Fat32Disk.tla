------------------------------ MODULE Fat32Disk ------------------------------
(***************************************************************************)
(* The disk the bootloader pretends to be: fat32_read and fat32_write of   *)
(* Src/fat32.c by address, and a host with a FAT32 driver that follows     *)
(* cluster chains, reads files, checks the disk and copies files onto it.  *)
(*                                                                         *)
(* Nothing the host writes below the root directory is kept, the root      *)
(* directory is looked at for .HEX names, and everything above it is text  *)
(* for the parser: the layout has to make these three what the host means. *)
(***************************************************************************)
EXTENDS Integers, FiniteSets

CONSTANTS
  APP_SIZE,      \* the application's part of the flash
  Clusters,      \* where the host may put what it writes
  Chains,        \* the clusters of a new file
  Names          \* how many entries the name of a new file takes

\* The boot sector.
BytsPerSec == 512
RsvdSecCnt == 4476
NumFATs    == 2
FATSz32    == 1858
TotSec32   == 245953
RootClus   == 2

\* The addresses the code compares with, and the disk's blocks.
FAT_TABLE  == 2291712       \* 0x22F800
FAT_LAST   == 2299904       \* 0x231800
FAT_END    == 2300416       \* 0x231A00
FAT2_TABLE == 3243008       \* 0x317C00
FAT2_END   == 3251712       \* 0x319E00
FAT32_DIR_ENTRY_ADDR    == 4194304   \* 0x400000
FAT32_README_TXT_ADDR   == 4195840   \* 0x400600
FAT32_FIRMWARE_BIN_ADDR == 4196352   \* 0x400800
STORAGE_BLK_NBR == 245760            \* 0x3C000

EndOfChain == 268435455     \* 0x0FFFFFFF
RootEntries == 16           \* 32 bytes each, in one sector

\* The application is read as whole sectors, in the chain of one megabyte.
ASSUME AppAssumption ==
  APP_SIZE \in Nat /\ APP_SIZE % BytsPerSec = 0 /\ APP_SIZE > 0 /\ APP_SIZE <= 1048064

\* As the host computes it from the boot sector.
FirstData    == RsvdSecCnt + NumFATs * FATSz32
LastCluster  == TotSec32 - FirstData + 1
ClusterLba(c) == FirstData + (c - 2)
FatLba(copy, c) == RsvdSecCnt + (copy - 1) * FATSz32 + c \div 128

ASSUME ClusterAssumption == Clusters \subseteq 2053 .. LastCluster
ASSUME ChainsAssumption == Chains \subseteq SUBSET Clusters
ASSUME NamesAssumption == Names \subseteq Nat \ {0}

-----------------------------------------------------------------------------
\* fat32_read.

\* Mutant: the last sector of the table goes on like the others.
FatEntryNoEnd(addr, i) ==
  IF addr = FAT_TABLE /\ i <= 4 THEN EndOfChain
  ELSE (addr - FAT_TABLE) \div 4 + i + 1

\* Mutant: the numbers run from the entry, not from the one after it.
FatEntryStuck(addr, i) ==
  IF addr = FAT_TABLE /\ i <= 4 THEN EndOfChain
  ELSE IF addr = FAT_LAST /\ i = 4 THEN EndOfChain
  ELSE IF addr = FAT_LAST /\ i > 4 THEN 0
  ELSE (addr - FAT_TABLE) \div 4 + i

\* Entry i of the sector of the table at addr.
FatEntry(addr, i) ==
  IF addr = FAT_TABLE /\ i <= 4 THEN EndOfChain
  ELSE IF addr = FAT_LAST /\ i = 4 THEN EndOfChain
  ELSE IF addr = FAT_LAST /\ i > 4 THEN 0
  ELSE (addr - FAT_TABLE) \div 4 + i + 1

IsFat(addr) ==
  \/ addr >= FAT_TABLE /\ addr < FAT_END
  \/ addr >= FAT2_TABLE /\ addr < FAT2_END

\* What the entry of cluster c says in a copy of the table; elsewhere the disk
\* reads as zeros.
Fat(copy, c) ==
  LET addr == FatLba(copy, c) * BytsPerSec
  IN  IF IsFat(addr) THEN FatEntry(addr, c % 128) ELSE 0

\* Mutant: FIRMWARE.BIN begins where README.TXT does.
SectorEarly(addr) ==
  IF addr >= FAT32_README_TXT_ADDR /\ addr < FAT32_README_TXT_ADDR + APP_SIZE
  THEN [what |-> "app", at |-> addr - FAT32_README_TXT_ADDR]
  ELSE [what |-> "zeros", at |-> 0]

\* A sector of the data area: the text, the application's flash from an offset
\* on, the directory, or zeros.
Sector(addr) ==
  IF addr = FAT32_DIR_ENTRY_ADDR THEN [what |-> "root", at |-> 0]
  ELSE IF addr >= FAT32_README_TXT_ADDR /\ addr < FAT32_README_TXT_ADDR + BytsPerSec
  THEN [what |-> "readme", at |-> 0]
  ELSE IF addr >= FAT32_FIRMWARE_BIN_ADDR /\ addr < FAT32_FIRMWARE_BIN_ADDR + APP_SIZE
  THEN [what |-> "app", at |-> addr - FAT32_FIRMWARE_BIN_ADDR]
  ELSE [what |-> "zeros", at |-> 0]

\* The root directory; FIRMWARE.BIN with CONFIG_READ_FLASH.
Files(read_flash) == IF read_flash THEN {"README", "FIRMWARE"} ELSE {"README"}
FstClus(f)  == IF f = "README" THEN 5 ELSE 6
FileSize(f) == IF f = "README" THEN 92 ELSE APP_SIZE
Entries(read_flash) == 1 + Cardinality(Files(read_flash))

\* FSInfo.
Free_Count == 235710
Nxt_Free   == 2053

-----------------------------------------------------------------------------
\* fat32_write.

\* Mutant: the directory's sector is left to the parser.
FateNoDirectory(lba) ==
  IF lba >= STORAGE_BLK_NBR THEN "refused"
  ELSE IF lba * BytsPerSec < FAT32_DIR_ENTRY_ADDR THEN "dropped"
  ELSE "parsed"

\* What becomes of a block that the host writes; the disk refuses the ones it
\* does not have.
Fate(lba) ==
  IF lba >= STORAGE_BLK_NBR THEN "refused"
  ELSE IF lba * BytsPerSec < FAT32_DIR_ENTRY_ADDR THEN "dropped"
  ELSE IF lba * BytsPerSec = FAT32_DIR_ENTRY_ADDR THEN "scanned"
  ELSE "parsed"

Nothing == [what |-> "none", at |-> 0]

VARIABLES
  read_flash,   \* CONFIG_READ_FLASH of the build
  phase,        \* of the host: idle, reading, checking, copying
  file, clus, pos,  \* the chain it is on, and how far
  got,          \* the last sector it has read
  taken,        \* clusters it has allocated since it mounted the disk
  used,         \* entries of the root directory, as it counts them
  todo,         \* blocks still to be written: what, and which one
  blocks,       \* history: all the blocks of this copy
  scanned,      \* history: the new entry was looked at
  fed           \* history: what the parser got of this copy

chainVars == <<file, clus, pos, got>>
copyVars  == <<taken, used, todo, blocks, scanned, fed>>
vars == <<read_flash, phase, chainVars, copyVars>>

Init ==
  /\ read_flash \in BOOLEAN
  /\ phase = "idle"
  /\ file = "README" /\ clus = 5 /\ pos = 0 /\ got = Nothing
  /\ taken = {} /\ used = Entries(read_flash)
  /\ todo = {} /\ blocks = {} /\ scanned = FALSE /\ fed = {}

\* A file is read, or its chain checked.  Once the host has written it answers
\* from its own copy of the table, until it mounts the disk again.
Open(f, use) ==
  /\ phase = "idle" /\ taken = {} /\ f \in Files(read_flash)
  /\ phase' = use
  /\ file' = f /\ clus' = FstClus(f) /\ pos' = 0 /\ got' = Nothing
  /\ UNCHANGED <<read_flash, copyVars>>

\* A sector of the file, up to its size.
ReadSector ==
  /\ phase = "reading"
  /\ got' = Sector(ClusterLba(clus) * BytsPerSec)
  /\ pos' = pos + 1
  /\ IF pos' * BytsPerSec >= FileSize(file)
     THEN phase' = "idle" /\ UNCHANGED clus
     ELSE clus' = Fat(1, clus) /\ UNCHANGED phase
  /\ UNCHANGED <<read_flash, file, copyVars>>

\* The disk is checked: the chain to its end, whatever the size.
CheckEntry ==
  /\ phase = "checking"
  /\ IF Fat(1, clus) = EndOfChain
     THEN phase' = "idle" /\ UNCHANGED clus
     ELSE clus' = Fat(1, clus) /\ UNCHANGED phase
  /\ UNCHANGED <<read_flash, file, pos, got, copyVars>>

\* It is on no chain.
Forget == file' = "README" /\ clus' = 5 /\ pos' = 0 /\ got' = Nothing

Allocatable == {c \in Clusters \ taken : Fat(1, c) = 0}

Meta(cs) ==
  {[what |-> "meta", lba |-> FatLba(copy, c)] : copy \in 1 .. NumFATs, c \in cs}
    \cup {[what |-> "meta", lba |-> 1]}

Data(cs) == {[what |-> "data", lba |-> ClusterLba(c)] : c \in cs}

\* A file of the clusters cs whose name takes n entries.  Entries past the
\* sixteenth need a cluster more, d, for the directory.
Copy(cs, n, d) ==
  /\ phase = "idle" /\ cs \subseteq Allocatable /\ d \in Allocatable \ cs
  /\ phase' = "copying"
  /\ used' = used + n
  /\ IF used' <= RootEntries
     THEN /\ taken' = taken \cup cs
          /\ todo' = Data(cs) \cup Meta(cs)
                       \cup {[what |-> "entry", lba |-> ClusterLba(RootClus)]}
     ELSE /\ taken' = taken \cup cs \cup {d}
          /\ todo' = Data(cs) \cup Meta(cs \cup {d, RootClus})
                       \cup {[what |-> "entry", lba |-> ClusterLba(d)]}
  /\ blocks' = todo' /\ scanned' = FALSE /\ fed' = {}
  /\ Forget /\ UNCHANGED read_flash

\* The host writes its blocks in any order.
WriteSector(w) ==
  /\ phase = "copying" /\ w \in todo
  /\ todo' = todo \ {w}
  /\ fed' = IF Fate(w.lba) = "parsed" THEN fed \cup {w} ELSE fed
  /\ scanned' = (scanned \/ (w.what = "entry" /\ Fate(w.lba) = "scanned"))
  /\ phase' = IF todo' = {} THEN "idle" ELSE "copying"
  /\ UNCHANGED <<read_flash, chainVars, taken, used, blocks>>

\* The disk is mounted again, at any time: nothing of what was written is there.
Mount ==
  /\ phase' = "idle"
  /\ taken' = {} /\ used' = Entries(read_flash)
  /\ todo' = {} /\ blocks' = {} /\ scanned' = FALSE /\ fed' = {}
  /\ Forget /\ UNCHANGED read_flash

Next ==
  \/ \E f \in Files(TRUE), use \in {"reading", "checking"} : Open(f, use)
  \/ ReadSector \/ CheckEntry
  \/ \E cs \in Chains, n \in Names, d \in Clusters : Copy(cs, n, d)
  \/ \E w \in todo : WriteSector(w)
  \/ Mount

Spec == Init /\ [][Next]_vars

\* The host goes on with what it has begun.
FairSpec ==
  Spec /\ WF_vars(ReadSector) /\ WF_vars(CheckEntry) /\ WF_vars(\E w \in todo : WriteSector(w))

-----------------------------------------------------------------------------
\* Where the blocks of a copy are: in the volume, and each kind in its part.
Placed(w) ==
  \/ w.what = "data" /\ \E c \in Clusters : w.lba = ClusterLba(c)
  \/ w.what = "meta" /\ w.lba \in 0 .. FirstData - 1
  \/ w.what = "entry" /\ used <= RootEntries /\ w.lba = ClusterLba(RootClus)
  \/ w.what = "entry" /\ used > RootEntries /\ \E c \in Clusters : w.lba = ClusterLba(c)

Block == [what : {"data", "meta", "entry"}, lba : Nat]

\* The types of the variables, and of the blocks still to be written.
TypeOK ==
  /\ read_flash \in BOOLEAN
  /\ phase \in {"idle", "reading", "checking", "copying"}
  /\ file \in Files(read_flash) /\ clus \in 2 .. LastCluster /\ pos \in Nat
  /\ got \in [what : {"none", "readme", "app", "root", "zeros"}, at : Nat]
  /\ taken \subseteq Clusters /\ used \in Nat
  /\ todo \subseteq blocks /\ blocks \subseteq Block /\ fed \subseteq blocks
  /\ scanned \in BOOLEAN
  /\ \A w \in blocks : Placed(w)

\* A chain runs from the file's first cluster without a gap, is long enough for
\* the file, and never reaches a cluster that is free.
ChainInside ==
  /\ clus \in FstClus(file) .. Nxt_Free - 1
  /\ phase = "reading" =>
       clus = FstClus(file) + pos /\ pos * BytsPerSec < FileSize(file)

\* What the host reads, following the chain, is the file: the text, or the
\* application's flash in order, each sector at its place.
ReadBack ==
  got # Nothing =>
    got = IF file = "README" THEN [what |-> "readme", at |-> 0]
          ELSE [what |-> "app", at |-> (pos - 1) * BytsPerSec]

\* Whatever clusters the host takes and in whatever order it writes, the parser
\* gets the blocks of the file that the disk has, and the directory is looked at
\* when the block with the new entry is written.  With a seventeenth entry the
\* directory is not looked at any more, and its new block goes to the parser.
ParserGets ==
  /\ fed = {w \in blocks \ todo :
              /\ w.lba < STORAGE_BLK_NBR
              /\ w.what = "data" \/ (w.what = "entry" /\ used > RootEntries)}
  /\ scanned <=>
       used <= RootEntries /\ \E w \in blocks \ todo : w.what = "entry"

\* Every chain ends, and so does what the host does with the disk.
ChainEnds == phase # "idle" ~> phase = "idle"

=============================================================================
