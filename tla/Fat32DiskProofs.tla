--------------------------- MODULE Fat32DiskProofs ---------------------------
(***************************************************************************)
(* The layout of the disk, for every size of the application and every     *)
(* choice of clusters the host makes: chains stay within their megabyte,   *)
(* files are read back as they are, and the parser gets the data of a copy *)
(* and nothing else.  FSInfo's count of free clusters is exact.            *)
(***************************************************************************)
EXTENDS Fat32Disk, FiniteSetTheorems, TLAPS

\* The numbers the layout is made of.
LEMMA Numbers ==
  /\ BytsPerSec = 512 /\ RsvdSecCnt = 4476 /\ NumFATs = 2 /\ FATSz32 = 1858
  /\ TotSec32 = 245953 /\ RootClus = 2
  /\ FAT_TABLE = 2291712 /\ FAT_LAST = 2299904 /\ FAT_END = 2300416
  /\ FAT2_TABLE = 3243008 /\ FAT2_END = 3251712
  /\ EndOfChain = 268435455 /\ STORAGE_BLK_NBR = 245760 /\ RootEntries = 16
  /\ Nxt_Free = 2053 /\ Free_Count = 235710
BY SMT DEF BytsPerSec, RsvdSecCnt, NumFATs, FATSz32, TotSec32, RootClus,
  FAT_TABLE, FAT_LAST, FAT_END, FAT2_TABLE, FAT2_END, EndOfChain,
  STORAGE_BLK_NBR, RootEntries, Nxt_Free, Free_Count

\* (The last cluster by its bounds: the provers write out an interval whose ends
\* are numerals.)
LEMMA Volume ==
  /\ FirstData = 8192
  /\ LastCluster \in Nat /\ LastCluster >= 237762 /\ LastCluster <= 237762
BY SMT DEF FirstData, LastCluster, RsvdSecCnt, NumFATs, FATSz32, TotSec32

LEMMA DataArea == FirstData \in Nat /\ FirstData >= 8192 /\ FirstData <= 8192
BY SMT, Volume

LEMMA Addresses ==
  /\ FAT32_DIR_ENTRY_ADDR = 4194304 /\ FAT32_README_TXT_ADDR = 4195840
  /\ FAT32_FIRMWARE_BIN_ADDR = 4196352
BY SMT DEF FAT32_DIR_ENTRY_ADDR, FAT32_README_TXT_ADDR, FAT32_FIRMWARE_BIN_ADDR

\* What the table is to say of a cluster: the chains of one megabyte, and no
\* more.
Says(c) == IF c <= 4 \/ c = 2052 THEN EndOfChain
           ELSE IF c > 2052 THEN 0 ELSE c + 1

Right(addr, i, c) == FatEntry(addr, i) = Says(c)

\* The entry of a cluster of the volume, sector and index taken apart.
LEMMA Entry ==
  ASSUME NEW q \in Nat, NEW r \in Nat, r < 128, q <= 1857
  PROVE  /\ IsFat((RsvdSecCnt + q) * BytsPerSec) <=> q <= 16
         /\ q <= 16 => Right((RsvdSecCnt + q) * BytsPerSec, r, q * 128 + r)
<1> DEFINE addr == (RsvdSecCnt + q) * BytsPerSec
<1>1. addr = 2291712 + 512 * q  BY SMT, Numbers
<1>2. IsFat(addr) <=> q <= 16  BY SMT, <1>1, Numbers DEF IsFat
<1>3. (addr - FAT_TABLE) \div 4 = 128 * q  BY SMT, <1>1, Numbers
<1>4. addr = FAT_TABLE <=> q = 0  BY SMT, <1>1, Numbers
<1>5. addr = FAT_LAST <=> q = 16  BY SMT, <1>1, Numbers
<1>6. q <= 16 => Right(addr, r, q * 128 + r)
  <2> HIDE DEF addr
  <2>1. ASSUME q = 0 PROVE Right(addr, r, q * 128 + r)  BY SMT, <2>1, <1>3, <1>4, <1>5, Numbers DEF FatEntry, Right, Says
  <2>2. ASSUME q = 16 PROVE Right(addr, r, q * 128 + r)  BY SMT, <2>2, <1>3, <1>4, <1>5, Numbers DEF FatEntry, Right, Says
  <2>3. ASSUME q \in 1 .. 15 PROVE Right(addr, r, q * 128 + r)  BY SMT, <2>3, <1>3, <1>4, <1>5, Numbers DEF FatEntry, Right, Says
  <2> QED  BY SMT, <2>1, <2>2, <2>3
<1> QED  BY SMT, <1>2, <1>6

\* What the first copy of the table says of every cluster of the volume.
LEMMA Table ==
  ASSUME NEW c \in 0 .. LastCluster
  PROVE  Fat(1, c) = Says(c)
<1> DEFINE q == c \div 128
           r == c % 128
<1>1. q \in Nat /\ r \in Nat /\ r < 128 /\ c = q * 128 + r /\ q <= 1857  BY SMT, Volume
<1>2. FatLba(1, c) = RsvdSecCnt + q  BY SMT, <1>1, Numbers DEF FatLba
<1>3. Fat(1, c) = IF IsFat((RsvdSecCnt + q) * BytsPerSec)
                  THEN FatEntry((RsvdSecCnt + q) * BytsPerSec, r) ELSE 0
  BY SMT, <1>2 DEF Fat
<1> HIDE DEF q, r
<1>4. IsFat((RsvdSecCnt + q) * BytsPerSec) <=> q <= 16  BY SMT, <1>1, Entry
<1>5. ASSUME q <= 16
      PROVE  Right((RsvdSecCnt + q) * BytsPerSec, r, q * 128 + r)
  BY SMT, <1>1, <1>5, Entry
<1>6. CASE q <= 16
  <2>1. Fat(1, c) = FatEntry((RsvdSecCnt + q) * BytsPerSec, r)  BY SMT, <1>3, <1>4, <1>6
  <2> QED  BY SMT, <2>1, <1>5, <1>6, <1>1 DEF Right
<1>7. CASE q > 16
  <2>1. Fat(1, c) = 0  BY SMT, <1>3, <1>4, <1>7, <1>1
  <2>2. c > 2052  BY SMT, <1>1, <1>7
  <2> QED  BY SMT, <2>1, <2>2 DEF Says
<1> QED  BY SMT, <1>6, <1>7, <1>1

\* FSInfo tells the host exactly how many clusters the table has free.
THEOREM FreeCountIsExact ==
  Cardinality({c \in 2 .. LastCluster : Fat(1, c) = 0}) = Free_Count
<1>1. {c \in 2 .. LastCluster : Fat(1, c) = 0} = 2053 .. LastCluster
  <2>1. ASSUME NEW c \in 2 .. LastCluster PROVE Fat(1, c) = 0 <=> c \in 2053 .. LastCluster
    <3>1. c \in 0 .. LastCluster  BY SMT, Volume
    <3> QED  BY SMT, <3>1, Table, Volume, Numbers DEF Says
  <2> QED  BY SMT, <2>1, Volume
<1>2. Cardinality(2053 .. LastCluster) = LastCluster - 2053 + 1
  <2> DEFINE n == LastCluster
  <2>1. n \in Int /\ 2053 \in Int /\ 2053 <= n  BY SMT, Volume
  <2> HIDE DEF n
  <2>2. Cardinality(2053 .. n) = n - 2053 + 1  BY SMT, <2>1, FS_Interval
  <2> QED  BY <2>2 DEF n
<1>3. LastCluster - 2053 + 1 = Free_Count  BY SMT, Volume, Numbers
<1> DEFINE free == {c \in 2 .. LastCluster : Fat(1, c) = 0}
           from == 2053 .. LastCluster
           n == LastCluster - 2053 + 1
<1>4. free = from /\ Cardinality(from) = n /\ n = Free_Count  BY <1>1, <1>2, <1>3
<1> HIDE DEF free, from, n
<1>5. Cardinality(free) = Free_Count  BY <1>4, Zenon
<1> QED  BY <1>5, Zenon DEF free

-----------------------------------------------------------------------------
\* Where the clusters are.
LEMMA Clusters2053 ==
  ASSUME NEW c \in Clusters
  PROVE  c \in Nat /\ c >= 2053 /\ c <= LastCluster /\ ClusterLba(c) = 8190 + c
<1>1. c \in 2053 .. LastCluster  BY ClusterAssumption
<1> QED  BY SMT, <1>1, Volume DEF ClusterLba

LEMMA Root == ClusterLba(RootClus) = 8192
BY SMT, Volume, Numbers DEF ClusterLba

\* What the disk does with each part of itself.
LEMMA Fates ==
  ASSUME NEW lba \in Nat
  PROVE  /\ lba < 8192 => Fate(lba) = "dropped"
         /\ lba = 8192 => Fate(lba) = "scanned"
         /\ lba > 8192 => Fate(lba) = IF lba < STORAGE_BLK_NBR THEN "parsed" ELSE "refused"
BY SMT, Numbers, Addresses DEF Fate

\* What a cluster of the two files reads as.
LEMMA FileSectors ==
  ASSUME NEW k \in Nat
  PROVE  /\ k = 0 => Sector(ClusterLba(5 + k) * BytsPerSec) = [what |-> "readme", at |-> 0]
         /\ k * BytsPerSec < APP_SIZE =>
              Sector(ClusterLba(6 + k) * BytsPerSec) = [what |-> "app", at |-> k * BytsPerSec]
<1>1. ClusterLba(5) * BytsPerSec = 4195840
  BY SMT, Volume, Numbers DEF ClusterLba
<1>2. ClusterLba(6 + k) * BytsPerSec = 4196352 + k * 512
  BY SMT, Volume, Numbers DEF ClusterLba
<1>3. k = 0 => Sector(ClusterLba(5 + k) * BytsPerSec) = [what |-> "readme", at |-> 0]
  <2> SUFFICES ASSUME k = 0 PROVE Sector(ClusterLba(5) * BytsPerSec) = [what |-> "readme", at |-> 0]
    BY SMT
  <2> QED  BY SMT, <1>1, Numbers, Addresses DEF Sector
<1>4. ASSUME k * BytsPerSec < APP_SIZE
      PROVE  Sector(ClusterLba(6 + k) * BytsPerSec) = [what |-> "app", at |-> k * BytsPerSec]
  <2> DEFINE addr == ClusterLba(6 + k) * BytsPerSec
  <2>1. /\ addr # FAT32_DIR_ENTRY_ADDR
        /\ ~(addr >= FAT32_README_TXT_ADDR /\ addr < FAT32_README_TXT_ADDR + BytsPerSec)
        /\ addr >= FAT32_FIRMWARE_BIN_ADDR /\ addr < FAT32_FIRMWARE_BIN_ADDR + APP_SIZE
        /\ addr - FAT32_FIRMWARE_BIN_ADDR = k * BytsPerSec
    BY SMT, <1>2, <1>4, Numbers, Addresses, AppAssumption
  <2> HIDE DEF addr
  <2>2. Sector(addr) = [what |-> "app", at |-> k * BytsPerSec]
    BY <2>1, Zenon DEF Sector
  <2> QED  BY <2>2, Zenon DEF addr
<1> QED  BY <1>3, <1>4, Zenon

-----------------------------------------------------------------------------
IInv == TypeOK /\ ChainInside /\ ReadBack /\ ParserGets

LEMMA FileFacts ==
  ASSUME NEW f, f \in Files(read_flash)
  PROVE  \/ f = "README" /\ FstClus(f) = 5 /\ FileSize(f) \in Nat \ {0} /\ FileSize(f) <= BytsPerSec
         \/ f = "FIRMWARE" /\ FstClus(f) = 6 /\ FileSize(f) = APP_SIZE
<1>1. f = "README" \/ f = "FIRMWARE"  BY Zenon DEF Files
<1>2. FstClus("README") = 5 /\ FstClus("FIRMWARE") = 6  BY SMT DEF FstClus
<1>3. /\ FileSize("README") \in Nat \ {0} /\ FileSize("README") <= BytsPerSec
      /\ FileSize("FIRMWARE") = APP_SIZE
  BY SMT, Numbers DEF FileSize
<1>4. CASE f = "README"
  <2>1. FstClus(f) = 5 /\ FileSize(f) \in Nat \ {0} /\ FileSize(f) <= BytsPerSec
    BY <1>4, <1>2, <1>3
  <2> QED  BY <1>4, <2>1, Zenon
<1>5. CASE f = "FIRMWARE"
  <2>1. FstClus(f) = 6 /\ FileSize(f) = APP_SIZE  BY <1>5, <1>2, <1>3
  <2> QED  BY <1>5, <2>1, Zenon
<1> QED  BY <1>1, <1>4, <1>5, Zenon

LEMMA EntriesNat == ASSUME read_flash \in BOOLEAN PROVE Entries(read_flash) \in Nat
<1>1. IsFiniteSet({"README"})  BY FS_Singleton
<1>2. IsFiniteSet({"README"} \cup {"FIRMWARE"})  BY <1>1, FS_AddElement
<1>3. {"README"} \cup {"FIRMWARE"} = {"README", "FIRMWARE"}  OBVIOUS
<1>4. IsFiniteSet(Files(read_flash))  BY <1>1, <1>2, <1>3 DEF Files
<1>5. Cardinality(Files(read_flash)) \in Nat  BY <1>4, FS_CardinalityType
<1> QED  BY SMT, <1>5 DEF Entries

LEMMA ClosedFile ==
  ASSUME Forget, read_flash' = read_flash, read_flash \in BOOLEAN, phase' \in {"idle", "copying"}
  PROVE  /\ file' \in Files(read_flash)' /\ clus' \in 2 .. LastCluster /\ pos' \in Nat
         /\ got' \in [what : {"none", "readme", "app", "root", "zeros"}, at : Nat]
         /\ ChainInside' /\ ReadBack'
<1>1. file' \in Files(read_flash)'  BY SMT DEF Forget, Files
<1>2. clus' \in 2 .. LastCluster /\ pos' \in Nat  BY SMT, Volume DEF Forget
<1>3. got' \in [what : {"none", "readme", "app", "root", "zeros"}, at : Nat] /\ ReadBack'
  BY SMT DEF Forget, Nothing, ReadBack
<1>4. ChainInside'  BY SMT, Numbers DEF Forget, ChainInside, FstClus
<1> QED  BY <1>1, <1>2, <1>3, <1>4, Zenon

LEMMA InitIInv == Init => IInv
<1> SUFFICES ASSUME Init PROVE IInv  OBVIOUS
<1>1. file \in Files(read_flash) /\ FstClus(file) = 5  BY SMT DEF Init, Files, FstClus
<1>2. clus \in 2 .. LastCluster  BY SMT, Volume DEF Init
<1>3. ChainInside  BY SMT, <1>1, Numbers DEF Init, ChainInside
<1>4. ReadBack /\ ParserGets  BY SMT DEF Init, ReadBack, ParserGets, Nothing
<1>5. used \in Nat /\ read_flash \in BOOLEAN  BY EntriesNat DEF Init
<1>6. got \in [what : {"none", "readme", "app", "root", "zeros"}, at : Nat]  BY SMT DEF Init, Nothing
<1>7. TypeOK
  <2>1. phase \in {"idle", "reading", "checking", "copying"} /\ scanned \in BOOLEAN
    BY Zenon DEF Init
  <2>3. pos \in Nat  BY SMT DEF Init
  <2>2. taken = {} /\ todo = {} /\ blocks = {} /\ fed = {}  BY Zenon DEF Init
  <2> QED  BY <1>1, <1>2, <1>5, <1>6, <2>1, <2>2, <2>3, Zenon DEF TypeOK
<1> QED  BY <1>3, <1>4, <1>7, Zenon DEF IInv

LEMMA OpenKeeps ==
  ASSUME IInv, NEW f, NEW use \in {"reading", "checking"}, Open(f, use)
  PROVE  IInv'
<1>1. f \in Files(read_flash) /\ UNCHANGED <<read_flash, copyVars>>  BY Zenon DEF Open
<1>2. file' = f /\ clus' = FstClus(f) /\ pos' = 0 /\ got' = Nothing /\ phase' = use  BY Zenon DEF Open
<1>3. FstClus(f) \in 5 .. 6 /\ FileSize(f) > 0  BY <1>1, FileFacts, AppAssumption, SMT
<1>4. clus' \in 2 .. LastCluster /\ pos' \in Nat  BY SMT, <1>2, <1>3, Volume
<1>5. got' \in [what : {"none", "readme", "app", "root", "zeros"}, at : Nat]  BY SMT, <1>2 DEF Nothing
<1>6. file' \in Files(read_flash)'  BY <1>1, <1>2 DEF Files
<1>7. TypeOK'
  <2>1. /\ read_flash \in BOOLEAN /\ scanned \in BOOLEAN /\ used \in Nat
        /\ taken \subseteq Clusters /\ todo \subseteq blocks /\ blocks \subseteq Block /\ fed \subseteq blocks
        /\ \A w \in blocks : Placed(w)
    BY Zenon DEF IInv, TypeOK
  <2>2. UNCHANGED <<read_flash, taken, used, todo, blocks, scanned, fed>>  BY <1>1, Zenon DEF copyVars
  <2>3. phase' \in {"idle", "reading", "checking", "copying"}  BY <1>2, Zenon
  <2>4. \A w \in blocks' : Placed(w)'  BY <2>1, <2>2, Zenon DEF Placed
  <2> QED  BY <1>4, <1>5, <1>6, <2>1, <2>2, <2>3, <2>4, Zenon DEF TypeOK
<1>8. ChainInside'  BY SMT, <1>2, <1>3, Numbers DEF ChainInside
<1>9. ReadBack'  BY <1>2, Zenon DEF ReadBack
<1>10. ParserGets'  BY <1>1, Zenon DEF IInv, ParserGets, copyVars
<1> QED  BY <1>7, <1>8, <1>9, <1>10, Zenon DEF IInv

\* A sector is read: the file's, and the chain goes on for as long as the file.
LEMMA ReadKeeps ==
  ASSUME IInv, ReadSector
  PROVE  IInv'
<1> DEFINE k == pos
           size == FileSize(file)
           first == FstClus(file)
<1>1. /\ phase = "reading" /\ file \in Files(read_flash) /\ k \in Nat
      /\ clus = first + k /\ k * BytsPerSec < size
  BY Zenon DEF IInv, TypeOK, ChainInside, ReadSector
<1>2. /\ got' = Sector(ClusterLba(clus) * BytsPerSec) /\ pos' = k + 1
      /\ UNCHANGED <<read_flash, file, copyVars>>
      /\ \/ pos' * BytsPerSec >= size /\ phase' = "idle" /\ clus' = clus
         \/ ~(pos' * BytsPerSec >= size) /\ phase' = "reading" /\ clus' = Fat(1, clus)
  BY <1>1, Zenon DEF ReadSector
<1>3. \/ file = "README" /\ first = 5 /\ size \in Nat \ {0} /\ size <= BytsPerSec
      \/ file = "FIRMWARE" /\ first = 6 /\ size = APP_SIZE
  BY <1>1, FileFacts
<1>4. ReadBack'
  <2>1. CASE file = "README"
    <3>1. first = 5 /\ k = 0
      <4>1. first = 5 /\ size \in Nat /\ size <= BytsPerSec  BY <1>3, <2>1
      <4> HIDE DEF k, size, first
      <4> QED  BY SMT, <4>1, <1>1, Numbers
    <3>2. got' = [what |-> "readme", at |-> 0]
      <4>1. clus = 5 + k  BY <1>1, <3>1
      <4> QED  BY <4>1, <3>1, <1>1, <1>2, FileSectors
    <3> QED  BY <3>2, <2>1, <1>2, Zenon DEF ReadBack
  <2>2. CASE file = "FIRMWARE"
    <3>1. first = 6 /\ size = APP_SIZE  BY <1>3, <2>2
    <3>2. clus = 6 + k /\ k * BytsPerSec < APP_SIZE  BY <1>1, <3>1
    <3>3. got' = [what |-> "app", at |-> k * BytsPerSec]  BY <3>2, <1>1, <1>2, FileSectors
    <3>4. pos' - 1 = k  BY <1>1, <1>2
    <3> QED  BY <3>3, <3>4, <2>2, <1>2 DEF ReadBack
  <2> QED  BY <1>3, <2>1, <2>2, Zenon
<1>5. clus \in 2 .. LastCluster /\ clus \in first .. Nxt_Free - 1
  BY Zenon DEF IInv, TypeOK, ChainInside
<1>6. ASSUME ~(pos' * BytsPerSec >= size) PROVE Fat(1, clus) = clus + 1 /\ clus + 1 <= 2052
  <2>1. (k + 1) * BytsPerSec < size
    <3> HIDE DEF k, size
    <3>1. ~((k + 1) * BytsPerSec >= size) /\ size \in Nat  BY <1>2, <1>3, <1>6, AppAssumption
    <3> QED  BY SMT, <3>1, <1>1, Numbers
  <2>2. file # "README"
    <3>1. ASSUME size <= BytsPerSec PROVE FALSE
      <4>1. size \in Nat  BY <1>3, AppAssumption
      <4> HIDE DEF k, size
      <4> QED  BY SMT, <2>1, <3>1, <4>1, <1>1, Numbers
    <3> QED  BY <3>1, <1>3, Zenon
  <2>3. first = 6 /\ size = APP_SIZE  BY <2>2, <1>3, Zenon
  <2>4. clus \in Nat /\ clus >= 6 /\ clus <= 2051
    <3>1. clus = 6 + k  BY <1>1, <2>3
    <3> HIDE DEF k, size, first
    <3> QED  BY SMT, <3>1, <2>1, <2>3, <1>1, AppAssumption, Numbers
  <2>5. clus \in 0 .. LastCluster  BY SMT, <1>5, Volume
  <2>6. Fat(1, clus) = Says(clus)  BY <2>5, Table
  <2> QED  BY SMT, <2>6, <2>4 DEF Says
<1>7. ChainInside' /\ clus' \in 2 .. LastCluster
  <2>1. CASE pos' * BytsPerSec >= size
    BY <2>1, <1>2, <1>5 DEF ChainInside
  <2>2. CASE ~(pos' * BytsPerSec >= size)
    <3>1. clus' = clus + 1 /\ clus + 1 <= 2052  BY <1>2, <1>6, <2>2
    <3>2. clus' = first + pos' /\ pos' * BytsPerSec < size
      <4>1. size \in Nat /\ pos' \in Nat /\ first \in Nat  BY <1>1, <1>2, <1>3, AppAssumption
      <4> HIDE DEF k, size, first
      <4> QED  BY SMT, <4>1, <3>1, <1>1, <1>2, <2>2, Numbers
    <3>3. clus' \in first .. Nxt_Free - 1 /\ clus' \in 2 .. LastCluster
      <4>1. first \in Nat  BY <1>3
      <4> HIDE DEF k, size, first
      <4> QED  BY SMT, <3>1, <1>5, <4>1, Numbers, Volume
    <3> QED  BY <3>2, <3>3, <1>2, Zenon DEF ChainInside
  <2> QED  BY <2>1, <2>2
<1>8. TypeOK'
  <2>1. /\ read_flash \in BOOLEAN /\ scanned \in BOOLEAN /\ used \in Nat
        /\ taken \subseteq Clusters /\ todo \subseteq blocks /\ blocks \subseteq Block /\ fed \subseteq blocks
        /\ \A w \in blocks : Placed(w)
    BY Zenon DEF IInv, TypeOK
  <2>2. UNCHANGED <<read_flash, taken, used, todo, blocks, scanned, fed>>  BY <1>2, Zenon DEF copyVars
  <2>3. phase' \in {"idle", "reading", "checking", "copying"}  BY <1>2, Zenon
  <2>4. \A w \in blocks' : Placed(w)'  BY <2>1, <2>2, Zenon DEF Placed
  <2>5. file' \in Files(read_flash)'  BY <1>1, <1>2 DEF Files
  <2>6. pos' \in Nat  BY <1>1, <1>2
  <2>7. got' \in [what : {"none", "readme", "app", "root", "zeros"}, at : Nat]
    <3>1. clus \in Nat  BY SMT, <1>5, Volume
    <3>2. ClusterLba(clus) * BytsPerSec \in Nat  BY SMT, <3>1, <1>5, Volume, Numbers DEF ClusterLba
    <3>3. ASSUME NEW a \in Nat
          PROVE  Sector(a) \in [what : {"none", "readme", "app", "root", "zeros"}, at : Nat]
      BY SMT, Addresses DEF Sector
    <3> QED  BY <3>2, <3>3, <1>2
  <2> QED  BY <1>7, <2>1, <2>2, <2>3, <2>4, <2>5, <2>6, <2>7, Zenon DEF TypeOK
<1>9. ParserGets'  BY <1>2, Zenon DEF IInv, ParserGets, copyVars
<1> QED  BY <1>4, <1>7, <1>8, <1>9, Zenon DEF IInv

LEMMA CheckKeeps ==
  ASSUME IInv, CheckEntry
  PROVE  IInv'
<1>1. /\ phase = "checking" /\ file \in Files(read_flash)
      /\ UNCHANGED <<read_flash, file, pos, got, copyVars>>
      /\ \/ phase' = "idle" /\ clus' = clus
         \/ Fat(1, clus) # EndOfChain /\ phase' = "checking" /\ clus' = Fat(1, clus)
  BY Zenon DEF CheckEntry, IInv, TypeOK
<1>2. clus \in 2 .. LastCluster /\ clus \in FstClus(file) .. Nxt_Free - 1 /\ FstClus(file) \in 5 .. 6
  <2>1. FstClus(file) \in 5 .. 6  BY <1>1, FileFacts
  <2> QED  BY <2>1, Zenon DEF IInv, TypeOK, ChainInside
<1>3. clus' \in 2 .. LastCluster /\ clus' \in FstClus(file) .. Nxt_Free - 1
  <2>1. CASE clus' = clus  BY <2>1, <1>2
  <2>2. CASE Fat(1, clus) # EndOfChain /\ clus' = Fat(1, clus)
    <3>1. clus \in 0 .. LastCluster  BY SMT, <1>2, Volume
    <3>2. Fat(1, clus) = Says(clus)  BY <3>1, Table
    <3>3. clus \in Nat /\ clus >= 5 /\ clus <= 2052  BY SMT, <1>2, Numbers
    <3>4. clus' = clus + 1 /\ clus' <= 2052  BY SMT, <3>2, <3>3, <2>2 DEF Says
    <3> QED  BY SMT, <3>3, <3>4, <1>2, Volume, Numbers
  <2> QED  BY <1>1, <2>1, <2>2
<1>4. ChainInside' /\ ReadBack'
  <2>1. ChainInside'  BY <1>1, <1>3, Zenon DEF ChainInside
  <2>2. ReadBack'  BY <1>1, Zenon DEF IInv, ReadBack
  <2> QED  BY <2>1, <2>2
<1>5. TypeOK'
  <2>1. /\ read_flash \in BOOLEAN /\ scanned \in BOOLEAN /\ used \in Nat /\ pos \in Nat
        /\ taken \subseteq Clusters /\ todo \subseteq blocks /\ blocks \subseteq Block /\ fed \subseteq blocks
        /\ \A w \in blocks : Placed(w)
        /\ got \in [what : {"none", "readme", "app", "root", "zeros"}, at : Nat]
    BY Zenon DEF IInv, TypeOK
  <2>2. UNCHANGED <<read_flash, pos, got, taken, used, todo, blocks, scanned, fed>>  BY <1>1, Zenon DEF copyVars
  <2>3. phase' \in {"idle", "reading", "checking", "copying"}  BY <1>1, Zenon
  <2>4. \A w \in blocks' : Placed(w)'  BY <2>1, <2>2, Zenon DEF Placed
  <2>5. file' \in Files(read_flash)'  BY <1>1 DEF Files
  <2> QED  BY <1>3, <2>1, <2>2, <2>3, <2>4, <2>5, Zenon DEF TypeOK
<1>6. ParserGets'  BY <1>1, Zenon DEF IInv, ParserGets, copyVars
<1> QED  BY <1>4, <1>5, <1>6, Zenon DEF IInv

LEMMA MountKeeps ==
  ASSUME IInv, Mount
  PROVE  IInv'
<1>1. /\ phase' = "idle" /\ taken' = {} /\ todo' = {} /\ blocks' = {} /\ scanned' = FALSE /\ fed' = {}
      /\ used' = Entries(read_flash) /\ Forget /\ read_flash' = read_flash
  BY Zenon DEF Mount
<1>2. read_flash \in BOOLEAN  BY Zenon DEF IInv, TypeOK
<1>3. used' \in Nat  BY <1>1, <1>2, EntriesNat
<1>4. phase' \in {"idle", "copying"} /\ phase' \in {"idle", "reading", "checking", "copying"}  BY <1>1, Zenon
<1>5. /\ file' \in Files(read_flash)' /\ clus' \in 2 .. LastCluster /\ pos' \in Nat
      /\ got' \in [what : {"none", "readme", "app", "root", "zeros"}, at : Nat]
      /\ ChainInside' /\ ReadBack'
  BY <1>1, <1>2, <1>4, ClosedFile, Zenon
<1>6. TypeOK'  BY <1>1, <1>2, <1>3, <1>4, <1>5, Zenon DEF TypeOK
<1>7. ParserGets'  BY <1>1, Zenon DEF ParserGets
<1> QED  BY <1>5, <1>6, <1>7, Zenon DEF IInv

\* The blocks of a copy lie where their kinds do.
LEMMA DataPlaced ==
  ASSUME NEW cs, cs \subseteq Clusters, NEW w \in Data(cs)
  PROVE  w \in Block /\ w.what = "data" /\ \E c \in Clusters : w.lba = ClusterLba(c)
<1>1. PICK c \in cs : w = [what |-> "data", lba |-> ClusterLba(c)]  BY Zenon DEF Data
<1>2. c \in Clusters  BY Zenon
<1>3. ClusterLba(c) \in Nat  BY SMT, <1>2, Clusters2053
<1> QED  BY <1>1, <1>2, <1>3 DEF Block

LEMMA MetaPlaced ==
  ASSUME NEW cs, \A c \in cs : c \in Nat /\ c <= LastCluster, NEW w \in Meta(cs)
  PROVE  w \in Block /\ w.what = "meta" /\ w.lba \in 0 .. FirstData - 1
<1>1. CASE w = [what |-> "meta", lba |-> 1]
  BY SMT, <1>1, Volume DEF Block
<1>2. CASE \E copy \in 1 .. NumFATs, c \in cs : w = [what |-> "meta", lba |-> FatLba(copy, c)]
  <2>1. PICK copy \in 1 .. NumFATs, c \in cs : w = [what |-> "meta", lba |-> FatLba(copy, c)]
    BY <1>2
  <2>2. c \in Nat /\ c <= LastCluster /\ (copy = 1 \/ copy = 2)  BY SMT, <2>1, Numbers
  <2>3. c \div 128 \in Nat /\ c \div 128 <= 1857  BY SMT, <2>2, Volume
  <2>4. FatLba(copy, c) \in Nat /\ FatLba(copy, c) <= 8191  BY SMT, <2>2, <2>3, Numbers DEF FatLba
  <2>5. w \in Block /\ w.what = "meta" /\ w.lba = FatLba(copy, c)  BY SMT, <2>1, <2>4 DEF Block
  <2>6. FatLba(copy, c) \in 0 .. FirstData - 1  BY SMT, <2>4, DataArea
  <2> QED  BY <2>5, <2>6, Zenon
<1>3. \/ w = [what |-> "meta", lba |-> 1]
      \/ \E copy \in 1 .. NumFATs, c \in cs : w = [what |-> "meta", lba |-> FatLba(copy, c)]
  BY SMT DEF Meta
<1> QED  BY <1>1, <1>2, <1>3, Zenon

LEMMA CopyKeeps ==
  ASSUME IInv, NEW cs, NEW n \in Names, NEW d \in Clusters, Copy(cs, n, d)
  PROVE  IInv'
<1>1. /\ cs \subseteq Clusters /\ phase' = "copying" /\ used' = used + n
      /\ blocks' = todo' /\ scanned' = FALSE /\ fed' = {} /\ Forget /\ read_flash' = read_flash
  BY Zenon DEF Copy, Allocatable
<1>2. /\ read_flash \in BOOLEAN /\ used \in Nat /\ taken \subseteq Clusters
  BY Zenon DEF IInv, TypeOK
<1>3. used' \in Nat  BY SMT, <1>1, <1>2, NamesAssumption
<1>4. phase' \in {"idle", "copying"} /\ phase' \in {"idle", "reading", "checking", "copying"}  BY <1>1, Zenon
<1>5. /\ file' \in Files(read_flash)' /\ clus' \in 2 .. LastCluster /\ pos' \in Nat
      /\ got' \in [what : {"none", "readme", "app", "root", "zeros"}, at : Nat]
      /\ ChainInside' /\ ReadBack'
  BY <1>1, <1>2, <1>4, ClosedFile, Zenon
<1>6. ASSUME NEW w \in Data(cs) PROVE w \in Block /\ Placed(w)'
  <2>1. w \in Block /\ w.what = "data" /\ \E c \in Clusters : w.lba = ClusterLba(c)
    BY <1>1, DataPlaced
  <2> QED  BY <2>1, Zenon DEF Placed
<1>7. ASSUME NEW s, \A c \in s : c \in Nat /\ c <= LastCluster, NEW w \in Meta(s)
      PROVE  w \in Block /\ Placed(w)'
  <2>1. w \in Block /\ w.what = "meta" /\ w.lba \in 0 .. FirstData - 1
    BY <1>7, MetaPlaced
  <2> QED  BY <2>1, Zenon DEF Placed
<1>8. \A c \in cs \cup {d} : c \in Nat /\ c <= LastCluster  BY <1>1, Clusters2053
<1>9. taken' \subseteq Clusters /\ \A w \in todo' : w \in Block /\ Placed(w)'
  <2>1. CASE used' <= RootEntries
    <3> DEFINE e == [what |-> "entry", lba |-> ClusterLba(RootClus)]
    <3>1. e \in Block /\ e.what = "entry" /\ e.lba = ClusterLba(RootClus)  BY SMT, Root DEF Block
    <3> HIDE DEF e
    <3>2. Placed(e)'  BY <2>1, <3>1, Zenon DEF Placed
    <3>3. todo' = Data(cs) \cup Meta(cs) \cup {e} /\ taken' = taken \cup cs  BY <2>1, Zenon DEF Copy, e
    <3>4. \A w \in Meta(cs) : w \in Block /\ Placed(w)'  BY <1>7, <1>8, Zenon
    <3> QED  BY <3>1, <3>2, <3>3, <3>4, <1>1, <1>2, <1>6, Zenon
  <2>2. CASE ~(used' <= RootEntries)
    <3> DEFINE e == [what |-> "entry", lba |-> ClusterLba(d)]
               s == cs \cup {d, RootClus}
    <3>1. e \in Block /\ e.what = "entry" /\ e.lba = ClusterLba(d)  BY Clusters2053 DEF Block
    <3>2. used' > RootEntries  BY SMT, <1>3, <2>2, Numbers
    <3>3. \A c \in s : c \in Nat /\ c <= LastCluster
      <4>1. RootClus \in Nat /\ RootClus <= LastCluster  BY SMT, Numbers, Volume
      <4> QED  BY <4>1, <1>8, Zenon
    <3>4. todo' = Data(cs) \cup Meta(s) \cup {e} /\ taken' = taken \cup cs \cup {d}
      BY <2>2, Zenon DEF Copy
    <3> HIDE DEF e, s
    <3>5. Placed(e)'  BY <3>1, <3>2, Zenon DEF Placed
    <3>6. \A w \in Meta(s) : w \in Block /\ Placed(w)'  BY <1>7, <3>3, Zenon
    <3> QED  BY <3>1, <3>4, <3>5, <3>6, <1>1, <1>2, <1>6, Zenon
  <2> QED  BY <2>1, <2>2, Zenon
<1>10. TypeOK'
  <2>1. \A w \in blocks' : Placed(w)'  BY <1>1, <1>9, Zenon
  <2>2. todo' \subseteq blocks' /\ fed' \subseteq blocks' /\ blocks' \subseteq Block  BY <1>1, <1>9, Zenon
  <2> QED  BY <1>1, <1>2, <1>3, <1>4, <1>5, <1>9, <2>1, <2>2, Zenon DEF TypeOK
<1>11. ParserGets'
  <2>1. fed' = {} /\ ~scanned' /\ blocks' \ todo' = {}  BY <1>1, Zenon
  <2> QED  BY <2>1, Zenon DEF ParserGets
<1> QED  BY <1>5, <1>10, <1>11, Zenon DEF IInv

\* A block is written: by its kind, it goes where the host means it to go.
LEMMA WriteKeeps ==
  ASSUME IInv, NEW w \in todo, WriteSector(w)
  PROVE  IInv'
<1>1. /\ todo' = todo \ {w} /\ phase \in {"copying"} /\ phase' \in {"idle", "copying"}
      /\ fed' = IF Fate(w.lba) = "parsed" THEN fed \cup {w} ELSE fed
      /\ scanned' = (scanned \/ (w.what = "entry" /\ Fate(w.lba) = "scanned"))
      /\ UNCHANGED <<read_flash, file, clus, pos, got, taken, used, blocks>>
  BY Zenon DEF WriteSector, chainVars
<1>2. /\ read_flash \in BOOLEAN /\ used \in Nat /\ taken \subseteq Clusters /\ scanned \in BOOLEAN
      /\ file \in Files(read_flash) /\ clus \in 2 .. LastCluster /\ pos \in Nat
      /\ got \in [what : {"none", "readme", "app", "root", "zeros"}, at : Nat]
      /\ todo \subseteq blocks /\ blocks \subseteq Block /\ fed \subseteq blocks
      /\ \A x \in blocks : Placed(x)
  BY Zenon DEF IInv, TypeOK
<1>3. TypeOK'
  <2>1. \A x \in blocks' : Placed(x)'  BY <1>1, <1>2, Zenon DEF Placed
  <2>2. file' \in Files(read_flash)'  BY <1>1, <1>2 DEF Files
  <2>3. todo' \subseteq blocks' /\ fed' \subseteq blocks'  BY <1>1, <1>2, Zenon
  <2>4. phase' \in {"idle", "reading", "checking", "copying"} /\ scanned' \in BOOLEAN
    BY <1>1, <1>2, Zenon
  <2> QED  BY <1>1, <1>2, <2>1, <2>2, <2>3, <2>4, Zenon DEF TypeOK
<1>4. ChainInside' /\ ReadBack'
  <2>1. phase' # "reading"  BY <1>1, Zenon
  <2> QED  BY <1>1, <2>1, Zenon DEF IInv, ChainInside, ReadBack
<1>5. ParserGets'
  <2> DEFINE Ours(x) == /\ x.lba < STORAGE_BLK_NBR
                        /\ x.what = "data" \/ (x.what = "entry" /\ used > RootEntries)
             Seen(x) == used <= RootEntries /\ x.what = "entry"
  <2>1. /\ fed = {x \in blocks \ todo : Ours(x)}
        /\ scanned <=> \E x \in blocks \ todo : Seen(x)
    BY Zenon DEF IInv, ParserGets
  <2>2. w \in blocks /\ w.lba \in Nat /\ Placed(w)
    BY <1>2 DEF Block
  <2>3. ~(used <= RootEntries /\ used > RootEntries)
    BY SMT, <1>2, Numbers
  <2>4. /\ Fate(w.lba) = "parsed" <=> Ours(w)
        /\ w.what = "entry" /\ Fate(w.lba) = "scanned" <=> Seen(w)
    <3> DEFINE high == IF w.lba < STORAGE_BLK_NBR THEN "parsed" ELSE "refused"
    <3>0. ASSUME NEW c \in Clusters, w.lba = ClusterLba(c) PROVE Fate(w.lba) = high
      <4>1. w.lba > 8192  BY SMT, <3>0, Clusters2053
      <4> QED  BY <4>1, <2>2, Fates
    <3>1. CASE w.what = "data" /\ \E c \in Clusters : w.lba = ClusterLba(c)
      <4>1. Fate(w.lba) = high  BY <3>0, <3>1
      <4> QED  BY <4>1, <3>1
    <3>2. CASE w.what = "meta" /\ w.lba \in 0 .. FirstData - 1
      <4>1. w.lba < 8192  BY SMT, <3>2, <2>2, DataArea
      <4>2. Fate(w.lba) = "dropped"  BY <4>1, <2>2, Fates
      <4> QED  BY <4>2, <3>2
    <3>3. CASE w.what = "entry" /\ used <= RootEntries /\ w.lba = ClusterLba(RootClus)
      <4>1. w.lba = 8192  BY <3>3, Root
      <4>2. Fate(w.lba) = "scanned"  BY <4>1, <2>2, Fates
      <4> QED  BY <4>2, <3>3, <2>3
    <3>4. CASE w.what = "entry" /\ used > RootEntries /\ \E c \in Clusters : w.lba = ClusterLba(c)
      <4>1. Fate(w.lba) = high  BY <3>0, <3>4
      <4> QED  BY <4>1, <3>4, <2>3
    <3> QED  BY <2>2, <3>1, <3>2, <3>3, <3>4, Zenon DEF Placed
  <2>5. blocks \ todo' = (blocks \ todo) \cup {w}  BY <1>1, <2>2, Zenon
  <2>6. fed' = {x \in blocks \ todo' : Ours(x)}
    <3> HIDE DEF Ours
    <3>1. CASE Ours(w)  BY <3>1, <1>1, <2>1, <2>4, <2>5
    <3>2. CASE ~Ours(w)  BY <3>2, <1>1, <2>1, <2>4, <2>5
    <3> QED  BY <3>1, <3>2
  <2>7. scanned' <=> \E x \in blocks \ todo' : Seen(x)
    <3> HIDE DEF Seen
    <3> QED  BY <1>1, <2>1, <2>4, <2>5, Zenon
  <2> QED  BY <1>1, <2>6, <2>7, Zenon DEF ParserGets
<1> QED  BY <1>3, <1>4, <1>5, Zenon DEF IInv

\* The whole of it, for every size of the application, every cluster the host may
\* take and every length of a name.
THEOREM Invariance == Spec => []IInv
<1>1. Init => IInv  BY InitIInv
<1>2. IInv /\ [Next]_vars => IInv'
  <2> SUFFICES ASSUME IInv, [Next]_vars PROVE IInv'  OBVIOUS
  <2>1. ASSUME NEW f \in Files(TRUE), NEW use \in {"reading", "checking"}, Open(f, use) PROVE IInv'
    BY <2>1, OpenKeeps
  <2>2. CASE ReadSector  BY <2>2, ReadKeeps
  <2>3. CASE CheckEntry  BY <2>3, CheckKeeps
  <2>4. ASSUME NEW cs \in Chains, NEW n \in Names, NEW d \in Clusters, Copy(cs, n, d) PROVE IInv'
    BY <2>4, CopyKeeps
  <2>5. ASSUME NEW w \in todo, WriteSector(w) PROVE IInv'  BY <2>5, WriteKeeps
  <2>6. CASE Mount  BY <2>6, MountKeeps
  <2>7. CASE UNCHANGED vars
    <3>1. UNCHANGED <<read_flash, phase, file, clus, pos, got, taken, used, todo, blocks, scanned, fed>>
      BY <2>7, Zenon DEF vars, chainVars, copyVars
    <3>2. TypeOK'  BY <3>1, Zenon DEF IInv, TypeOK, Placed, Files
    <3>3. ChainInside' /\ ReadBack' /\ ParserGets'
      BY <3>1, Zenon DEF IInv, ChainInside, ReadBack, ParserGets
    <3> QED  BY <3>2, <3>3, Zenon DEF IInv
  <2> QED  BY <2>1, <2>2, <2>3, <2>4, <2>5, <2>6, <2>7, Zenon DEF Next
<1> QED  BY <1>1, <1>2, PTL DEF Spec

\* Types, and every block of a copy where its kind belongs.
THEOREM TypeCorrect == Spec => []TypeOK
<1>1. IInv => TypeOK  BY DEF IInv
<1> QED  BY <1>1, Invariance, PTL

\* Following a chain the host stays among the clusters that are in use, and has a
\* next one for as long as the file goes on.
THEOREM ChainsStayInside == Spec => []ChainInside
<1>1. IInv => ChainInside  BY DEF IInv
<1> QED  BY <1>1, Invariance, PTL

\* The file the host reads is the application's flash, sector by sector.
THEOREM FilesAreRead == Spec => []ReadBack
<1>1. IInv => ReadBack  BY DEF IInv
<1> QED  BY <1>1, Invariance, PTL

\* What the parser gets of a file that is copied, and when the directory is
\* looked at, for every choice of clusters, beyond the disk's end as well, every
\* number of directory entries and every order of the blocks.
THEOREM ParserGetsTheFile == Spec => []ParserGets
<1>1. IInv => ParserGets  BY DEF IInv
<1> QED  BY <1>1, Invariance, PTL

=============================================================================
