------------------------- MODULE FormatSessionProofs -------------------------
(***************************************************************************)
(* Proofs about FormatSession, for sticks of every size, every choice of   *)
(* the user and any number of sessions and failures: where the partition   *)
(* is put, that every return of startStableFormat gives back what the      *)
(* session holds, that progress never goes back, and that the tables and   *)
(* the FAT structures of a session that succeeds are on the stick.         *)
(***************************************************************************)
EXTENDS FormatSession, TLAPS

-----------------------------------------------------------------------------
(* The arithmetic of startStableFormat.                                     *)

\* A stick that passes the size check of startStableFormat gives a partition
\* that is not empty and ends before the sectors reserved for the GPT backup,
\* whatever cap the file system puts on its size.
LEMMA PartitionPlaced ==
    ASSUME NEW d \in Nat, NEW j \in Job, Fits(d, j)
    PROVE  /\ PartSectors(d, j) \in Nat \ {0}
           /\ Offset(j) + PartSectors(d, j) + ReservedEnd(j) <= d
<1>1. j.pt \in 0 .. 2 /\ j.fs \in 0 .. 10 /\ j.cluster \in Nat
  BY DEF Job
<1>2. FsCap(j) \in Nat
  <2>1. CASE j.fs = 3
    BY <2>1 DEF FsCap
  <2>2. CASE j.fs = 2
    <3>1. (IF j.cluster = 0 THEN 32768 ELSE j.cluster) \div 512 \in Nat
      BY <1>1
    <3> QED
      BY <2>2, <3>1 DEF FsCap
  <2>3. CASE j.fs \notin {2, 3}
    BY <2>3 DEF FsCap
  <2> QED
    BY <2>1, <2>2, <2>3
<1>3. Offset(j) \in {0, 4096} /\ ReservedEnd(j) \in {0, 34}
  BY DEF Offset, ReservedEnd
<1> QED
  BY <1>2, <1>3 DEF Fits, PartSectors

\* The MBR and the GPT entry written for that partition need no clamping: they
\* describe it exactly, and the GPT entry ends before the backup entries.
LEMMA TablesMatch ==
    ASSUME NEW d \in Nat, NEW j \in Job, Fits(d, j)
    PROVE  /\ j.pt = 1 => MbrSectors(d, PartSectors(d, j)) = PartSectors(d, j)
           /\ j.pt = 2 =>
                /\ GptEnd(d, PartSectors(d, j)) = Offset(j) + PartSectors(d, j) - 1
                /\ GptEnd(d, PartSectors(d, j)) < GptBackupEntries(d)
<1>1. /\ PartSectors(d, j) \in Nat \ {0}
      /\ Offset(j) + PartSectors(d, j) + ReservedEnd(j) <= d
  BY PartitionPlaced
<1>2. ASSUME j.pt = 1 PROVE MbrSectors(d, PartSectors(d, j)) = PartSectors(d, j)
  <2>1. PartSectors(d, j) <= d - 4096
    BY <1>1, <1>2 DEF Offset, ReservedEnd
  <2> QED
    BY <1>1, <2>1 DEF MbrSectors, MbrStart, SmallerOf
<1>3. ASSUME j.pt = 2
      PROVE  /\ GptEnd(d, PartSectors(d, j)) = Offset(j) + PartSectors(d, j) - 1
             /\ GptEnd(d, PartSectors(d, j)) < GptBackupEntries(d)
  <2>1. Offset(j) = 4096 /\ 4096 + PartSectors(d, j) + 34 <= d
    BY <1>1, <1>3 DEF Offset, ReservedEnd
  <2>2. GptEnd(d, PartSectors(d, j)) = 4096 + PartSectors(d, j) - 1
    BY <1>1, <2>1 DEF GptEnd, GptStart
  <2> QED
    BY <1>1, <2>1, <2>2 DEF GptBackupEntries
<1> QED
  BY <1>2, <1>3

-----------------------------------------------------------------------------
(* The inductive invariant.                                                 *)

\* Labels by how far the session has got.
EarlyPcs == {"off", "libusb", "wrap", "init", "ready", "capacity", "size"}
TablePcs == {"wipeMbr", "wipeTail", "mbr", "gptMbr", "gptHeader", "gptEntries",
             "gptBackup", "gptBackupHeader", "setPart"}
VolumePcs == {"wipeHead", "wipeRest", "wiped", "engine", "mkfs", "fatMbr", "fatBoot",
              "fatBackup", "fatInfo", "fatHead1", "fatRest1", "fatHead2", "fatRest2",
              "fatRoot", "sync", "close"}

Inputs == stick \in Nat /\ job \in Job /\ pc \in EarlyPcs \cup TablePcs \cup VolumePcs

\* A capacity read in this session is that of its stick.
Capacity == known => gSectorCount = stick

\* Once past the size check, the partition is the one computed from it; once
\* the driver has been told, the driver has it too.
Sized ==
    /\ pc \in TablePcs \cup VolumePcs =>
          Fits(gSectorCount, job) /\ part = PartSectors(gSectorCount, job)
    /\ pc \in VolumePcs => gOffset = Offset(job) /\ gPart = part

\* What a session may hold, by how far it has got.
Holding ==
    /\ pc = "off" => held \subseteq {"path"}
    /\ pc = "libusb" => held \subseteq {"path", "svc"}
    /\ pc = "wrap" => held \subseteq {"path", "svc", "ctx"}

SInv == TypeOK /\ Inputs /\ Capacity /\ Sized /\ Holding

-----------------------------------------------------------------------------
\* No session has run at first.
LEMMA InitSInv == Init => SInv
<1> SUFFICES ASSUME Init PROVE SInv
  OBVIOUS
<1>1. TypeOK
  <2>1. result \in BOOLEAN /\ known \in BOOLEAN /\ spoiled \in BOOLEAN
    BY DEF Init
  <2> QED
    BY <2>1, SessionAssumption DEF Init, TypeOK
<1>2. Inputs
  BY DEF Init, Inputs, EarlyPcs, Job
<1>3. Capacity /\ Sized /\ Holding
  BY DEF Init, Capacity, Sized, Holding, TablePcs, VolumePcs
<1> QED
  BY <1>1, <1>2, <1>3 DEF SInv

\* A session is at a table or in the volume.
LEMMA PcsDiffer == TablePcs \cap VolumePcs = {}
  BY DEF TablePcs, VolumePcs

\* The Boolean part of the type invariant.
LEMMA Booleans == SInv => result \in BOOLEAN /\ known \in BOOLEAN /\ spoiled \in BOOLEAN
  BY DEF SInv, TypeOK

\* The step of the count of failures.
LEMMA FailureType ==
    ASSUME TypeOK, Failure \/ NoFailure
    PROVE  faults' \in 0 .. MaxFaults /\ spoiled' \in BOOLEAN
<1>1. spoiled' \in BOOLEAN
  <2>1. spoiled \in BOOLEAN
    BY DEF TypeOK
  <2>2. spoiled' = TRUE \/ spoiled' = spoiled
    BY DEF Failure, NoFailure
  <2> QED
    BY <2>1, <2>2
<1>2. faults' \in 0 .. MaxFaults
  BY SessionAssumption DEF TypeOK, Failure, NoFailure
<1> QED
  BY <1>1, <1>2

\* A step that leaves driver, partition and resources alone and stays in the
\* part of the session it is in keeps the invariant.
LEMMA QuietInv ==
    ASSUME SInv, Quiet, Failure \/ NoFailure, progress' \in 0 .. 100,
           \/ pc \in TablePcs /\ pc' \in TablePcs
           \/ pc \in VolumePcs /\ pc' \in VolumePcs
    PROVE  SInv'
<1>1. TypeOK'
  BY FailureType DEF SInv, TypeOK, Quiet, Keep, KeepOutcome, drvVars
<1>2. Inputs'
  BY DEF SInv, Inputs, Quiet, Keep
<1>4. Capacity' /\ Sized'
  <2>1. /\ gSectorCount' = gSectorCount /\ gOffset' = gOffset /\ gPart' = gPart
        /\ part' = part /\ stick' = stick /\ job' = job /\ known' = known
    BY DEF Quiet, Keep, KeepOutcome, drvVars
  <2>2. Capacity'
    BY <2>1 DEF SInv, Capacity
  <2>3. /\ Fits(gSectorCount', job') /\ part' = PartSectors(gSectorCount', job')
        /\ pc' \in VolumePcs => gOffset' = Offset(job') /\ gPart' = part'
    BY <2>1, PcsDiffer DEF SInv, Sized
  <2> QED
    BY <2>2, <2>3 DEF Sized
<1>3. Holding'
  BY DEF Holding, TablePcs, VolumePcs
<1> QED
  BY <1>1, <1>2, <1>3, <1>4 DEF SInv

\* The same for the step that ends an engine.
LEMMA EngineDoneInv ==
    ASSUME SInv, NEW r \in {-1, 0, 1}, EngineDone(r), Failure \/ NoFailure,
           pc \in VolumePcs
    PROVE  SInv'
<1>1. TypeOK'
  BY FailureType DEF SInv, TypeOK, EngineDone, Report, Keep, drvVars
<1>2. Inputs' /\ Capacity' /\ Sized'
  BY DEF SInv, Inputs, Capacity, Sized, EngineDone, Goto, Keep, drvVars, VolumePcs
<1>3. Holding'
  BY DEF Holding, EngineDone, Goto
<1> QED
  BY <1>1, <1>2, <1>3 DEF SInv

\* An early return frees enough to leave at most the characters of usbPath.
LEMMA BailInv ==
    ASSUME SInv, NEW freed, Bail(freed), Failure \/ NoFailure,
           held \ freed \subseteq {"path"}
    PROVE  SInv'
<1>1. TypeOK'
  <2>1. result' \in BOOLEAN /\ known' \in BOOLEAN
    <3>1. result' = FALSE /\ known' = known
      BY DEF Bail
    <3> QED
      BY <3>1, Booleans
  <2>2. held' \subseteq {"svc", "path", "ctx", "handle"}
    BY DEF Bail
  <2> QED
    BY FailureType, <2>1, <2>2 DEF SInv, TypeOK, Bail, Keep, drvVars
<1>2. Inputs' /\ Capacity' /\ Sized'
  BY DEF SInv, Inputs, Capacity, Sized, Bail, Goto, Keep, drvVars,
         EarlyPcs, TablePcs, VolumePcs
<1>3. Holding'
  BY DEF Holding, Bail, Goto
<1> QED
  BY <1>1, <1>2, <1>3 DEF SInv

\* The values the callback of the wipe reports are percentages.
LEMMA WipePercents ==
    WipePercent(0, Chunks) \in 0 .. 100 /\ WipePercent(Chunks - 1, Chunks) \in 0 .. 100
<1>1. CASE job.fs = 8
  <2>1. Chunks = 512
    BY <1>1 DEF Chunks, WipeSectors
  <2> QED
    BY <2>1 DEF WipePercent
<1>2. CASE job.fs # 8
  <2>1. Chunks = 128
    BY <1>2 DEF Chunks, WipeSectors
  <2> QED
    BY <2>1 DEF WipePercent
<1> QED
  BY <1>1, <1>2

-----------------------------------------------------------------------------
(* The session up to the size check.                                        *)

\* A session begins.
LEMMA BeginInv == ASSUME SInv, Begin PROVE SInv'
<1>1. stick' \in Nat /\ job' \in Job
  BY SessionAssumption DEF Begin
<1>2. TypeOK'
  <2>1. result' \in BOOLEAN /\ known' \in BOOLEAN /\ spoiled' \in BOOLEAN
    <3>1. result' = result /\ known' = FALSE /\ spoiled' = FALSE
      BY DEF Begin
    <3> QED
      BY <3>1, Booleans
  <2>2. held' \subseteq {"svc", "path", "ctx", "handle"}
    BY DEF SInv, TypeOK, Begin
  <2> QED
    BY <2>1, <2>2, SessionAssumption DEF SInv, TypeOK, Begin, drvVars
<1>3. Inputs' /\ Capacity' /\ Sized'
  BY <1>1 DEF Inputs, Capacity, Sized, Begin, Goto, EarlyPcs, TablePcs, VolumePcs
<1>4. Holding'
  BY DEF SInv, Holding, Begin, Goto
<1> QED
  BY <1>2, <1>3, <1>4 DEF SInv

\* libusb and the interface are set up.
LEMMA SetUpInv ==
    ASSUME SInv, LibusbInit \/ WrapDevice
    PROVE  SInv'
<1>1. TypeOK'
  <2>1. held' \subseteq {"svc", "path", "ctx", "handle"}
    <3>1. held \subseteq {"svc", "path", "ctx", "handle"}
      BY DEF SInv, TypeOK
    <3>2. held' = held \cup {"ctx"} \/ held' = held \cup {"handle"}
      BY DEF LibusbInit, WrapDevice
    <3> QED
      BY <3>1, <3>2
  <2>2. progress' \in 0 .. 100 /\ NoFailure /\ UNCHANGED <<part, sessions, slow, rejected, tries>>
    BY DEF LibusbInit, WrapDevice, Report, Keep
  <2>3. UNCHANGED <<gSectorCount, gOffset, gPart, gType, formatRes, result, known>>
    BY DEF LibusbInit, WrapDevice, KeepDriver, KeepOutcome, drvVars
  <2> QED
    BY <2>1, <2>2, <2>3, FailureType DEF SInv, TypeOK
<1>2. Inputs' /\ Capacity' /\ Sized'
  BY DEF SInv, Inputs, Capacity, Sized, LibusbInit, WrapDevice, Goto, Keep, KeepDriver,
         KeepOutcome, drvVars, EarlyPcs, TablePcs, VolumePcs
<1>3. Holding'
  BY DEF SInv, Holding, LibusbInit, WrapDevice, Goto
<1> QED
  BY <1>1, <1>2, <1>3 DEF SInv

\* A return before the stick is touched.
LEMMA EarlyReturnInv ==
    ASSUME SInv, LibusbInitFails \/ WrapDeviceFails \/ TooSmall
    PROVE  SInv'
<1>1. CASE LibusbInitFails
  BY <1>1, BailInv DEF LibusbInitFails, SInv, Holding
<1>2. CASE WrapDeviceFails
  BY <1>2, BailInv DEF WrapDeviceFails, SInv, Holding
<1>3. CASE TooSmall
  <2>1. held \ {"handle", "ctx", "svc"} \subseteq {"path"}
    BY DEF SInv, TypeOK
  <2> QED
    BY <1>3, <2>1, BailInv DEF TooSmall
<1> QED
  BY <1>1, <1>2, <1>3

\* usb_scsi_init begins.
LEMMA ScsiInitInv == ASSUME SInv, ScsiInit PROVE SInv'
<1>1. /\ stick' = stick /\ job' = job /\ sessions' = sessions /\ known' = known
      /\ gSectorCount' = gSectorCount /\ pc' \in {"ready", "size"}
      /\ slow' \in Nat /\ rejected' = 0 /\ tries' = 0 /\ progress' \in {progress, 12}
  <2>1. UNCHANGED <<stick, job, sessions, known, gSectorCount>>
    BY DEF ScsiInit
  <2>2. /\ pc' \in {"ready", "size"} /\ progress' \in {progress, 12}
        /\ slow' \in Nat /\ rejected' = 0 /\ tries' = 0
    <3>1. CASE slow' \in Wakes /\ rejected' = 0 /\ tries' = 0 /\ pc' = "ready" /\ progress' = progress
      BY <3>1, SessionAssumption
    <3>2. CASE InitReturns
      BY <3>2 DEF InitReturns, Report, Goto
    <3> QED
      BY <3>1, <3>2 DEF ScsiInit, Goto
  <2> QED
    BY <2>1, <2>2
<1>2. Failure \/ NoFailure
  BY DEF ScsiInit
<1>3. known' \in BOOLEAN
  BY <1>1, Booleans
<1>4. TypeOK'
  BY <1>1, <1>2, <1>3, FailureType DEF SInv, TypeOK, ScsiInit
<1>5. Inputs' /\ Capacity' /\ Sized' /\ Holding'
  BY <1>1 DEF SInv, Inputs, Capacity, Sized, Holding, EarlyPcs, TablePcs, VolumePcs
<1> QED
  BY <1>4, <1>5 DEF SInv

\* Its two loops.
LEMMA InitLoopsInv ==
    ASSUME SInv, TestUnitReady \/ ReadCapacityRejected \/ ReadCapacity
    PROVE  SInv'
<1>1. /\ stick' = stick /\ job' = job /\ sessions' = sessions
      /\ pc' \in {"ready", "capacity", "size"}
  BY DEF TestUnitReady, ReadCapacityRejected, ReadCapacity, InitReturns, KeepInit, Goto
<1>2. \/ gSectorCount' = stick /\ known' = TRUE
      \/ gSectorCount' = gSectorCount /\ known' = known
  BY DEF TestUnitReady, ReadCapacityRejected, ReadCapacity
<1>3. Capacity'
  BY <1>1, <1>2 DEF SInv, Capacity
<1>4. slow' \in Nat /\ rejected' \in Nat /\ tries' \in 0 .. 4
  BY DEF SInv, TypeOK, TestUnitReady, ReadCapacityRejected, ReadCapacity, InitReturns, Rejected
<1>5. TypeOK'
  <2>1. gSectorCount' \in Nat
    BY <1>2 DEF SInv, TypeOK, Inputs
  <2>2. known' \in BOOLEAN
    BY <1>2, Booleans
  <2>3. spoiled' \in BOOLEAN
    <3>1. spoiled' = TRUE \/ spoiled' = spoiled
      BY DEF TestUnitReady, ReadCapacityRejected, ReadCapacity, NoFailure
    <3> QED
      BY <3>1, Booleans
  <2>4. progress' \in 0 .. 100 /\ faults' = faults
    BY DEF SInv, TypeOK, TestUnitReady, ReadCapacityRejected, ReadCapacity, InitReturns, Report,
       NoFailure
  <2>5. UNCHANGED <<gOffset, gPart, gType, part, held, formatRes, result>>
    BY DEF TestUnitReady, ReadCapacityRejected, ReadCapacity, KeepInit
  <2> QED
    BY <1>1, <1>4, <2>1, <2>2, <2>3, <2>4, <2>5 DEF SInv, TypeOK
<1>6. Inputs' /\ Sized' /\ Holding'
  BY <1>1 DEF SInv, Inputs, Sized, Holding, EarlyPcs, TablePcs, VolumePcs
<1> QED
  BY <1>3, <1>5, <1>6 DEF SInv

\* The size is accepted.
LEMMA SizeOkInv == ASSUME SInv, SizeOk PROVE SInv'
<1>1. /\ stick' = stick /\ job' = job /\ gSectorCount' = gSectorCount /\ known' = known
      /\ pc' = "wipeMbr" /\ part' = PartSectors(gSectorCount, job)
      /\ Fits(gSectorCount, job) /\ NoFailure
  BY DEF SizeOk, Keep, KeepOutcome, Goto
<1>2. gSectorCount \in Nat /\ job \in Job
  BY DEF SInv, TypeOK, Inputs
<1>3. part' \in Nat
  BY <1>1, <1>2, PartitionPlaced
<1>4. job.pt \in 0 .. 2
  BY <1>2 DEF Job
<1>5. TypeOK'
  BY <1>1, <1>3, <1>4, FailureType DEF SInv, TypeOK, SizeOk, Keep, KeepOutcome
<1>6. Inputs' /\ Capacity' /\ Sized' /\ Holding'
  BY <1>1 DEF SInv, Inputs, Capacity, Sized, Holding, TablePcs, VolumePcs
<1> QED
  BY <1>5, <1>6 DEF SInv

\* The partition is computed.
LEMMA SetPartitionInv == ASSUME SInv, SetPartition PROVE SInv'
<1>1. /\ stick' = stick /\ job' = job /\ gSectorCount' = gSectorCount /\ known' = known
      /\ pc = "setPart" /\ pc' = "wipeHead" /\ part' = part /\ NoFailure
      /\ gOffset' = Offset(job) /\ gPart' = part
  BY DEF SetPartition, Keep, KeepOutcome, Goto
<1>2. TypeOK'
  <2>1. gOffset' \in {0, 4096}
    BY <1>1 DEF Offset
  <2> QED
    BY <1>1, <2>1, FailureType DEF SInv, TypeOK, SetPartition, Keep, KeepOutcome
<1>3. Inputs' /\ Capacity' /\ Holding'
  BY <1>1 DEF SInv, Inputs, Capacity, Holding, VolumePcs
<1>4. Sized'
  BY <1>1 DEF SInv, Sized, TablePcs
<1> QED
  BY <1>2, <1>3, <1>4 DEF SInv

-----------------------------------------------------------------------------
(* Wipes, tables and engines: all of them leave what SInv is about alone.   *)

\* Tables and wipes in front of the partition.
LEMMA TableStepInv ==
    ASSUME SInv,
           \/ WipeMbr \/ WipeTail \/ WriteMbr
           \/ GptMbr \/ GptHeader \/ GptEntries \/ GptBackup \/ GptBackupHead
    PROVE  SInv'
<1>1. progress \in 0 .. 100
  BY DEF SInv, TypeOK
<1>2. CASE WipeMbr
  BY <1>1, <1>2, QuietInv DEF WipeMbr, Goto, TablePcs
<1>3. CASE WipeTail
  BY <1>3, QuietInv DEF WipeTail, Report, Goto, TablePcs
<1>4. CASE WriteMbr
  BY <1>1, <1>4, QuietInv DEF WriteMbr, RawOk, RawFails, Goto, TablePcs
<1>5. ASSUME NEW l, NEW lo, NEW n, NEW tag, NEW next \in TablePcs, NEW bad \in TablePcs,
             l \in TablePcs, GptStep(l, lo, n, tag, next, bad)
      PROVE  SInv'
  BY <1>1, <1>5, QuietInv DEF GptStep, RawOk, RawFails, Goto
<1>6. CASE GptMbr
  BY <1>5, <1>6 DEF GptMbr, TablePcs
<1>7. CASE GptHeader
  BY <1>5, <1>7 DEF GptHeader, TablePcs
<1>8. CASE GptEntries
  BY <1>5, <1>8 DEF GptEntries, TablePcs
<1>9. CASE GptBackup
  BY <1>5, <1>9 DEF GptBackup, TablePcs
<1>10. CASE GptBackupHead
  BY <1>5, <1>10 DEF GptBackupHead, TablePcs
<1> QED
  BY <1>2, <1>3, <1>4, <1>6, <1>7, <1>8, <1>9, <1>10

\* The head of the partition is wiped.
LEMMA WipeInv ==
    ASSUME SInv, WipeHead \/ WipeRest \/ Wiped \/ StartEngine \/ FinalSync
    PROVE  SInv'
<1>1. progress \in 0 .. 100
  BY DEF SInv, TypeOK
<1>2. CASE WipeHead
  BY <1>1, <1>2, QuietInv, WipePercents DEF WipeHead, Report, Goto, VolumePcs
<1>3. CASE WipeRest
  BY <1>3, QuietInv, WipePercents DEF WipeRest, Report, Goto, VolumePcs
<1>4. CASE Wiped
  BY <1>4, QuietInv DEF Wiped, Report, Goto, VolumePcs
<1>5. CASE StartEngine
  BY <1>5, QuietInv DEF StartEngine, Report, Goto, VolumePcs
<1>6. CASE FinalSync
  BY <1>6, QuietInv DEF FinalSync, Report, Goto, VolumePcs
<1> QED
  BY <1>2, <1>3, <1>4, <1>5, <1>6

\* The file system is made.
LEMMA EngineInv ==
    ASSUME SInv,
           \/ Mkfs \/ UpdateMbrType \/ FatBoot \/ FatBootFails \/ FatBackup \/ FatInfo
           \/ FatHead1 \/ FatRest1 \/ FatHead2 \/ FatRest2 \/ FatRoot
    PROVE  SInv'
<1>1. progress \in 0 .. 100
  BY DEF SInv, TypeOK
<1>2. CASE Mkfs
  <2>1. PICK r \in {-1, 0, 1} : EngineDone(r)
    BY <1>2 DEF Mkfs
  <2>2. (Failure \/ NoFailure) /\ pc \in VolumePcs
    BY <1>2 DEF Mkfs, VolumePcs
  <2> QED
    BY <2>1, <2>2, EngineDoneInv
<1>3. CASE UpdateMbrType
  BY <1>1, <1>3, QuietInv DEF UpdateMbrType, Goto, VolumePcs
<1>4. CASE FatBoot
  BY <1>1, <1>4, QuietInv DEF FatBoot, BlockWrite, Goto, VolumePcs
<1>5. CASE FatBootFails
  BY <1>5, EngineDoneInv DEF FatBootFails, VolumePcs
<1>6. CASE FatBackup \/ FatInfo
  BY <1>1, <1>6, QuietInv DEF FatBackup, FatInfo, BlockWrite, Goto, VolumePcs
<1>7. CASE FatHead1 \/ FatHead2
  BY <1>1, <1>7, QuietInv DEF FatHead1, FatHead2, FatHead, Goto, VolumePcs
<1>8. CASE FatRest1 \/ FatRest2
  BY <1>1, <1>8, QuietInv DEF FatRest1, FatRest2, FatRest, BlockWrite, Goto, VolumePcs
<1>9. CASE FatRoot
  BY <1>9, EngineDoneInv DEF FatRoot, BlockWrite, VolumePcs
<1> QED
  BY <1>2, <1>3, <1>4, <1>5, <1>6, <1>7, <1>8, <1>9

\* The session ends.
LEMMA CloseInv == ASSUME SInv, Close PROVE SInv'
<1>1. TypeOK'
  <2>1. result' \in BOOLEAN /\ known' \in BOOLEAN
    BY DEF SInv, TypeOK, Close
  <2>2. held' \subseteq {"svc", "path", "ctx", "handle"}
    BY DEF SInv, TypeOK, Close
  <2> QED
    BY <2>1, <2>2, FailureType DEF SInv, TypeOK, Close, Keep, drvVars
<1>2. Inputs' /\ Capacity' /\ Sized'
  BY DEF SInv, Inputs, Capacity, Sized, Close, Goto, Keep, drvVars,
         EarlyPcs, TablePcs, VolumePcs
<1>3. Holding'
  BY DEF SInv, TypeOK, Holding, Close, Goto
<1> QED
  BY <1>1, <1>2, <1>3 DEF SInv

\* Nothing happens.
LEMMA StutterSInv == ASSUME SInv, UNCHANGED vars PROVE SInv'
  BY DEF SInv, TypeOK, Inputs, Capacity, Sized, Holding, vars, drvVars

-----------------------------------------------------------------------------
(* The theorems.                                                            *)

\* Every reachable state of a chain of format sessions satisfies the invariant,
\* whatever fails in startStableFormat and the driver functions it calls.
THEOREM SessionInvariance == Spec => []SInv
<1>1. SInv /\ [Next]_vars => SInv'
  BY BeginInv, SetUpInv, EarlyReturnInv, ScsiInitInv, InitLoopsInv, SizeOkInv,
     SetPartitionInv,
     TableStepInv, WipeInv, EngineInv, CloseInv, StutterSInv DEF Next, Step
<1> QED
  BY InitSInv, <1>1, PTL DEF Spec

\* Type correctness of the session's state, with progress a percentage.
THEOREM SessionTypeCorrect == Spec => []TypeOK
<1>1. SInv => TypeOK
  BY DEF SInv
<1> QED
  BY SessionInvariance, <1>1, PTL

\* For a stick of any size that passes the check of startStableFormat, for a size
\* left over from an earlier stick too, and any choice of the user, the partition
\* the engines get is not empty, ends before the GPT backup and is the one the MBR
\* or the GPT entry describes.
THEOREM PartitionIsInside == Spec => []PartitionInside
<1>1. SInv => PartitionInside
  <2> DEFINE d == gSectorCount
  <2> SUFFICES ASSUME SInv, pc \in {"wipeHead", "wipeRest", "engine", "mkfs", "fatBoot"}
               PROVE  /\ known => d = stick
                      /\ gPart > 0
                      /\ gOffset + gPart + ReservedEnd(job) <= d
                      /\ job.pt = 1 => MbrSectors(d, part) = gPart
                      /\ job.pt = 2 =>
                            /\ GptEnd(d, part) = gOffset + gPart - 1
                            /\ GptEnd(d, part) < GptBackupEntries(d)
    BY DEF PartitionInside
  <2>1. pc \in VolumePcs
    BY DEF VolumePcs
  <2>2. /\ known => d = stick
        /\ Fits(d, job) /\ part = PartSectors(d, job)
        /\ gOffset = Offset(job) /\ gPart = part /\ d \in Nat /\ job \in Job
    BY <2>1 DEF SInv, TypeOK, Capacity, Sized, Inputs
  <2> HIDE DEF d
  <2>3. /\ PartSectors(d, job) \in Nat \ {0}
        /\ Offset(job) + PartSectors(d, job) + ReservedEnd(job) <= d
    BY <2>2, PartitionPlaced
  <2>4. /\ job.pt = 1 => MbrSectors(d, part) = part
        /\ job.pt = 2 => /\ GptEnd(d, part) = Offset(job) + part - 1
                         /\ GptEnd(d, part) < GptBackupEntries(d)
    BY <2>2, TablesMatch
  <2> QED
    BY <2>2, <2>3, <2>4
<1> QED
  BY SessionInvariance, <1>1, PTL

\* Every return of startStableFormat, early or not, has closed the handle, left
\* libusb and dropped the reference to the service.
THEOREM NothingLeaks == Spec => []ResourcesReleased
<1>1. SInv => ResourcesReleased
  BY DEF SInv, Holding, ResourcesReleased
<1> QED
  BY SessionInvariance, <1>1, PTL

-----------------------------------------------------------------------------
(* The size of the stick.                                                   *)

\* Once usb_scsi_init is over, a session in which nothing failed has read the
\* capacity of its stick.
BeforeSize == {"off", "libusb", "wrap", "init", "ready", "capacity"}
CapacityRead == pc \notin BeforeSize /\ ~spoiled => known

\* A session nothing failed in has read the capacity.
LEMMA NextCapacityRead == SInv /\ CapacityRead /\ [Next]_vars => CapacityRead'
<1> SUFFICES ASSUME SInv, CapacityRead, [Next]_vars PROVE CapacityRead'
  OBVIOUS
<1>1. CASE Begin \/ LibusbInit \/ LibusbInitFails \/ WrapDevice \/ WrapDeviceFails \/ TooSmall \/ Close
  BY <1>1 DEF Begin, LibusbInit, LibusbInitFails, WrapDevice, WrapDeviceFails, TooSmall, Close, Bail,
     Goto, CapacityRead, BeforeSize
<1>2. CASE ScsiInit \/ TestUnitReady \/ ReadCapacityRejected \/ ReadCapacity
  BY <1>2 DEF ScsiInit, TestUnitReady, ReadCapacityRejected, ReadCapacity, InitReturns, Goto,
     Failure, NoFailure, CapacityRead, BeforeSize
<1>3. CASE SizeOk \/ WipeMbr \/ WipeTail \/ WriteMbr \/ GptMbr \/ GptHeader \/ GptEntries \/ GptBackup
           \/ GptBackupHead \/ SetPartition \/ WipeHead \/ WipeRest \/ Wiped \/ StartEngine
  <2>1. pc \notin BeforeSize /\ known' = known
    BY <1>3 DEF BeforeSize, SizeOk, WipeMbr, WipeTail, WriteMbr, GptMbr, GptHeader, GptEntries, GptBackup,
       GptBackupHead, GptStep, SetPartition, WipeHead, WipeRest, Wiped, StartEngine, Quiet, KeepOutcome
  <2>2. spoiled => spoiled'
    BY <1>3, Booleans DEF SizeOk, WipeMbr, WipeTail, WriteMbr, GptMbr, GptHeader, GptEntries, GptBackup,
       GptBackupHead, GptStep, SetPartition, WipeHead, WipeRest, Wiped, StartEngine, Failure,
       NoFailure, RawOk, RawFails, BlockWrite
  <2> QED
    BY <2>1, <2>2 DEF CapacityRead
<1>4. CASE Mkfs \/ UpdateMbrType \/ FatBoot \/ FatBootFails \/ FatBackup \/ FatInfo \/ FatHead1
           \/ FatRest1 \/ FatHead2 \/ FatRest2 \/ FatRoot \/ FinalSync
  <2>1. pc \notin BeforeSize /\ known' = known
    BY <1>4 DEF BeforeSize, Mkfs, UpdateMbrType, FatBoot, FatBootFails, FatBackup, FatInfo, FatHead1, FatRest1,
       FatHead2, FatRest2, FatRoot, FinalSync, FatHead, FatRest, EngineDone, Quiet, KeepOutcome
  <2>2. spoiled => spoiled'
    BY <1>4, Booleans DEF Mkfs, UpdateMbrType, FatBoot, FatBootFails, FatBackup, FatInfo, FatHead1,
       FatRest1, FatHead2, FatRest2, FatRoot, FinalSync, FatHead, FatRest, Failure, NoFailure,
       BlockWrite
  <2> QED
    BY <2>1, <2>2 DEF CapacityRead
<1>5. CASE UNCHANGED vars
  BY <1>5 DEF vars, CapacityRead
<1> QED
  BY <1>1, <1>2, <1>3, <1>4, <1>5 DEF Next, Step

-----------------------------------------------------------------------------
(* Sticks that take time to come ready.                                     *)

\* In the loop of TEST UNIT READY every turn so far was rejected; in that of READ
\* CAPACITY either the stick is ready or three more commands were rejected than
\* the loop has made.
Patience ==
    /\ pc = "ready" => rejected = tries /\ tries < 3
    /\ pc = "capacity" => rejected >= slow \/ rejected = 3 + tries

\* The rejected commands are those the loops have counted.
LEMMA NextPatience == SInv /\ Patience /\ [Next]_vars => Patience'
<1> SUFFICES ASSUME SInv, Patience, [Next]_vars PROVE Patience'
  OBVIOUS
<1>0. slow \in Nat /\ rejected \in Nat /\ tries \in 0 .. 4
  BY DEF SInv, TypeOK
<1>1. CASE ScsiInit
  BY <1>1 DEF ScsiInit, InitReturns, Goto, Patience
<1>2. CASE TestUnitReady
  BY <1>0, <1>2 DEF TestUnitReady, Rejects, Rejected, Goto, Patience
<1>3. CASE ReadCapacityRejected \/ ReadCapacity
  BY <1>0, <1>3 DEF ReadCapacityRejected, ReadCapacity, InitReturns, Rejects, Rejected, Goto, Patience
<1>4. CASE UNCHANGED vars
  BY <1>4 DEF vars, Patience
<1>5. CASE Begin \/ LibusbInit \/ LibusbInitFails \/ WrapDevice \/ WrapDeviceFails \/ TooSmall \/ Close
           \/ SizeOk
  BY <1>5 DEF Begin, LibusbInit, LibusbInitFails, WrapDevice, WrapDeviceFails, TooSmall, Close, Bail,
     SizeOk, Goto, Patience
<1>6. CASE WipeMbr \/ WipeTail \/ WriteMbr \/ GptMbr \/ GptHeader \/ GptEntries \/ GptBackup
           \/ GptBackupHead \/ SetPartition \/ WipeHead \/ WipeRest \/ Wiped \/ StartEngine
  BY <1>6 DEF WipeMbr, WipeTail, WriteMbr, GptMbr, GptHeader, GptEntries, GptBackup,
     GptBackupHead, GptStep, SetPartition, WipeHead, WipeRest, Wiped, StartEngine, Goto, Patience
<1>7. CASE Mkfs \/ UpdateMbrType \/ FatBoot \/ FatBootFails \/ FatBackup \/ FatInfo \/ FatHead1
           \/ FatRest1 \/ FatHead2 \/ FatRest2 \/ FatRoot \/ FinalSync
  BY <1>7 DEF Mkfs, UpdateMbrType, FatBoot, FatBootFails, FatBackup, FatInfo, FatHead1, FatRest1,
     FatHead2, FatRest2, FatRoot, FinalSync, FatHead, FatRest, EngineDone, Goto, Patience
<1> QED
  BY <1>1, <1>2, <1>3, <1>4, <1>5, <1>6, <1>7 DEF Next, Step

\* usb_scsi_init reads the capacity of every stick that rejects at most seven
\* commands, in every session.
THEOREM WakingStickIsMeasured == Spec => WakingStickMeasured
<1>1. Init => Patience
  BY DEF Init, Patience
<1>2. SInv /\ Patience /\ [Next]_vars => [pc = "capacity" /\ pc' = "size" /\ slow < 8 => known']_vars
  <2> SUFFICES ASSUME SInv, Patience, Next, pc = "capacity", slow < 8, pc' = "size"
               PROVE  known'
    BY DEF vars
  <2>1. ReadCapacityRejected \/ ReadCapacity
    BY DEF Next, Step, Begin, LibusbInit, LibusbInitFails, WrapDevice, WrapDeviceFails, ScsiInit,
       TestUnitReady, TooSmall, SizeOk, WipeMbr, WipeTail, WriteMbr, GptMbr, GptHeader, GptEntries,
       GptBackup, GptBackupHead, GptStep, SetPartition, WipeHead, WipeRest, Wiped, StartEngine, Mkfs,
       UpdateMbrType, FatBoot, FatBootFails, FatBackup, FatInfo, FatHead1, FatRest1, FatHead2,
       FatRest2, FatHead, FatRest, FatRoot, FinalSync, Close
  <2>2. ~ReadCapacityRejected
    <3> SUFFICES ASSUME ReadCapacityRejected PROVE FALSE
      OBVIOUS
    <3>1. tries = 4 /\ rejected < slow /\ rejected \in Nat /\ slow \in Nat
      BY DEF SInv, TypeOK, ReadCapacityRejected, Rejects
    <3> QED
      BY <3>1 DEF Patience
  <2> QED
    BY <2>1, <2>2 DEF ReadCapacity
<1> QED
  BY <1>1, <1>2, SessionInvariance, NextPatience, PTL DEF Spec, WakingStickMeasured
-----------------------------------------------------------------------------
(* The progress bar.                                                        *)

\* What has been reported when the session is about to take a step.
TablesDue == {"mbr", "gptMbr", "gptHeader", "gptEntries", "gptBackup", "gptBackupHeader",
              "setPart", "wipeHead"}
EnginePcs == {"mkfs", "fatMbr", "fatBoot", "fatBackup", "fatInfo", "fatHead1", "fatRest1",
              "fatHead2", "fatRest2", "fatRoot"}
Reported ==
    /\ pc = "libusb" => progress = 2
    /\ pc = "wrap" => progress = 5
    /\ pc \in {"init", "ready", "capacity"} => progress = 10
    /\ pc \in {"size", "wipeMbr", "wipeTail"} => progress = 12
    /\ pc \in TablesDue => progress = 15
    /\ pc = "wipeRest" => progress = 20
    /\ pc = "wiped" => progress < 50
    /\ pc = "engine" => progress = 50
    /\ pc \in EnginePcs => progress = 55
    /\ pc = "sync" => progress = 90
    /\ pc = "close" => progress = 100

\* The first and the last value the callback of the wipe reports.
LEMMA WipeReports == WipePercent(0, Chunks) = 20 /\ WipePercent(Chunks - 1, Chunks) = 49
<1>1. CASE job.fs = 8
  <2>1. Chunks = 512
    BY <1>1 DEF Chunks, WipeSectors
  <2> QED
    BY <2>1 DEF WipePercent
<1>2. CASE job.fs # 8
  <2>1. Chunks = 128
    BY <1>2 DEF Chunks, WipeSectors
  <2> QED
    BY <2>1 DEF WipePercent
<1> QED
  BY <1>1, <1>2

\* Every step keeps to the plan and, within a session, never reports less.
LEMMA NextReported ==
    SInv /\ Reported /\ [Next]_vars => Reported' /\ (pc # "off" => progress' >= progress)
<1> SUFFICES ASSUME SInv, Reported, [Next]_vars
             PROVE  Reported' /\ (pc # "off" => progress' >= progress)
  OBVIOUS
<1>0. progress \in 0 .. 100
  BY DEF SInv, TypeOK
<1> USE DEF Reported, TablesDue, EnginePcs, Report, Goto
<1>1. CASE Begin
  BY <1>1 DEF Begin
<1>2. CASE LibusbInit \/ WrapDevice
  BY <1>2 DEF LibusbInit, WrapDevice
<1>3. CASE LibusbInitFails \/ WrapDeviceFails \/ TooSmall \/ Close
  BY <1>0, <1>3 DEF LibusbInitFails, WrapDeviceFails, TooSmall, Bail, Close
<1>4. CASE ScsiInit \/ TestUnitReady \/ ReadCapacityRejected \/ ReadCapacity
  BY <1>0, <1>4 DEF ScsiInit, TestUnitReady, ReadCapacityRejected, ReadCapacity, InitReturns
<1>5. CASE SizeOk \/ WipeMbr \/ WipeTail
  BY <1>0, <1>5 DEF SizeOk, WipeMbr, WipeTail
<1>6. CASE WriteMbr \/ GptMbr \/ GptHeader \/ GptEntries \/ GptBackup \/ GptBackupHead \/ SetPartition
  BY <1>0, <1>6 DEF WriteMbr, GptMbr, GptHeader, GptEntries, GptBackup, GptBackupHead, GptStep,
     SetPartition
<1>7. CASE WipeHead \/ WipeRest \/ Wiped
  BY <1>0, <1>7, WipeReports DEF WipeHead, WipeRest, Wiped
<1>8. CASE StartEngine \/ UpdateMbrType \/ FatBoot \/ FatBackup \/ FatInfo
  BY <1>0, <1>8 DEF StartEngine, UpdateMbrType, FatBoot, FatBackup, FatInfo
<1>9. CASE FatHead1 \/ FatRest1 \/ FatHead2 \/ FatRest2
  BY <1>0, <1>9 DEF FatHead1, FatRest1, FatHead2, FatRest2, FatHead, FatRest
<1>10. CASE Mkfs \/ FatBootFails \/ FatRoot \/ FinalSync
  BY <1>0, <1>10 DEF Mkfs, FatBootFails, FatRoot, FinalSync, EngineDone
<1>11. CASE UNCHANGED vars
  BY <1>0, <1>11 DEF vars
<1> QED
  BY <1>1, <1>2, <1>3, <1>4, <1>5, <1>6, <1>7, <1>8, <1>9, <1>10, <1>11 DEF Next, Step

\* The bar the user sees never goes back within a session: not between the reports
\* of startStableFormat and the percentages the callback of the wipe computes, and
\* on no path past a step that failed.
THEOREM ProgressIsMonotone == Spec => ProgressMonotone
<1>1. Init => Reported
  BY DEF Init, Reported, TablesDue, EnginePcs
<1>2. SInv /\ Reported /\ [Next]_vars => [pc # "off" => progress' >= progress]_vars
  BY NextReported
<1> QED
  BY <1>1, <1>2, SessionInvariance, NextReported, PTL DEF Spec, ProgressMonotone

-----------------------------------------------------------------------------
(* The arithmetic of usb_scsi_format_fat.                                   *)

\* What a quotient rounded up says of the numbers it was computed from.
LEMMA RoundedUp ==
    ASSUME NEW a \in Nat, NEW b \in Nat \ {0}
    PROVE  /\ (a + b - 1) \div b \in Nat
           /\ a <= b * ((a + b - 1) \div b)
           /\ b * ((a + b - 1) \div b) <= a + b - 1
  OBVIOUS

\* A quotient rounded down is no larger than what its number is a multiple of.
LEMMA QuotientBound ==
    ASSUME NEW a \in Nat, NEW s \in Nat \ {0}, NEW k \in Nat, a <= s * k
    PROVE  a \div s <= k
<1> DEFINE q == a \div s
<1>1. q \in Nat /\ s * q <= a
  OBVIOUS
<1> HIDE DEF q
<1>2. ASSUME q >= k + 1 PROVE FALSE
  <2>1. s * q >= s * (k + 1)
    BY <1>1, <1>2
  <2>2. s * (k + 1) = s * k + s
    OBVIOUS
  <2> QED
    BY <1>1, <2>1, <2>2
<1> QED
  BY <1>1, <1>2 DEF q

\* The sectors per cluster of the boot sector.
LEMMA SectorsPerClusterRange ==
    ASSUME NEW j \in Job
    PROVE  SectorsPerCluster(j) \in {8, 16, 32, 64, 128}
<1>1. j.cluster \in {4096, 8192, 16384, 32768, 65536}
  BY DEF Job
<1>2. ClusterOrDefault(j) = j.cluster
  BY <1>1 DEF ClusterOrDefault
<1> QED
  BY <1>1, <1>2 DEF SectorsPerCluster

\* The sectors a volume has for its FATs and its data.
FatRoom(d, j) == FatUsable(d, j) - FatReserved(j) - RootSectors(j)

\* The length of a FAT, without the division: enough for every cluster of what
\* the two FATs leave, and not longer than the rounding makes it.
LEMMA FatLength ==
    ASSUME NEW d \in Nat, NEW j \in Job, FatRoom(d, j) \in Nat \ {0}
    PROVE  LET F == FatSectors(d, j)
               E == EntryBytes(j)
               s == SectorsPerCluster(j)
           IN  /\ F \in Nat \ {0}
               /\ FatRoom(d, j) * E <= 512 * (s * F) + 2 * E * F
               /\ 512 * (s * F) + 2 * E * F <= FatRoom(d, j) * E + 512 * s + 2 * E - 1
<1> DEFINE F == FatSectors(d, j)
           E == EntryBytes(j)
           s == SectorsPerCluster(j)
           t == FatRoom(d, j)
           div == 512 * s + 2 * E
<1>1. s \in 8 .. 128 /\ E \in {2, 4}
  BY SectorsPerClusterRange DEF EntryBytes
<1>2. F = (t * E + div - 1) \div div
  BY DEF FatSectors, FatRoom
<1> HIDE DEF s, E, t, F
<1>3. t * E \in Nat /\ div \in Nat \ {0} /\ t * E >= 1
  BY <1>1 DEF t
<1> HIDE DEF div
<1>4. F \in Nat /\ t * E <= div * F /\ div * F <= t * E + div - 1
  BY <1>2, <1>3, RoundedUp
<1>5. div * F = 512 * (s * F) + 2 * E * F
  BY <1>1, <1>4 DEF div
<1>6. F # 0
  BY <1>3, <1>4
<1>7. /\ F \in Nat \ {0}
      /\ t * E <= 512 * (s * F) + 2 * E * F
      /\ 512 * (s * F) + 2 * E * F <= t * E + 512 * s + 2 * E - 1
  BY <1>1, <1>3, <1>4, <1>5, <1>6 DEF div
<1> QED
  BY <1>7 DEF F, E, s, t

\* The FATs are short: each has little more than a thousandth of the room, so that
\* they leave room for data as soon as there are three sectors.
LEMMA FatShort ==
    ASSUME NEW d \in Nat, NEW j \in Job, FatRoom(d, j) \in Nat, FatRoom(d, j) > 2
    PROVE  /\ FatSectors(d, j) \in Nat \ {0}
           /\ 1026 * (FatSectors(d, j) - 1) < FatRoom(d, j)
           /\ 2 * FatSectors(d, j) < FatRoom(d, j)
<1> DEFINE F == FatSectors(d, j)
           E == EntryBytes(j)
           s == SectorsPerCluster(j)
           t == FatRoom(d, j)
<1>1. s \in 8 .. 128 /\ E \in {2, 4}
  BY SectorsPerClusterRange DEF EntryBytes
<1>2. F \in Nat \ {0} /\ 512 * (s * F) + 2 * E * F <= t * E + 512 * s + 2 * E - 1
  BY FatLength
<1>3. t \in Nat /\ t > 2
  OBVIOUS
<1> HIDE DEF F, E, s, t
<1>4. s * F - s >= 8 * (F - 1)
  <2>1. s * F - s = s * (F - 1)
    BY <1>1, <1>2
  <2>2. s * (F - 1) >= 8 * (F - 1)
    BY <1>1, <1>2
  <2> QED
    BY <1>1, <1>2, <2>1, <2>2
<1>5. s * F \in Nat
  BY <1>1, <1>2
<1>6. 4096 * (F - 1) + 2 * E * (F - 1) < t * E
  BY <1>1, <1>2, <1>3, <1>4, <1>5
<1>7. 1026 * (F - 1) < t
  BY <1>1, <1>2, <1>3, <1>6
<1>8. 2 * F < t
  BY <1>2, <1>3, <1>7
<1> QED
  BY <1>2, <1>7, <1>8 DEF F, t

\* With the clusters the app offers and a stick READ CAPACITY(10) can describe, the
\* byte offsets of usb_scsi_format_fat stay below 2^32: everything is written where
\* the boot record says.
LEMMA NothingWraps ==
    ASSUME NEW d \in Nat, NEW j \in Job, (d - 1) \div 65536 < 65536,
           FatRoom(d, j) \in Nat, FatRoom(d, j) > 2
    PROVE  /\ FatStart(d, j, 0) = FatReserved(j)
           /\ FatStart(d, j, 1) = FatReserved(j) + FatSectors(d, j)
           /\ RootStart(d, j) = FatReserved(j) + 2 * FatSectors(d, j)
           /\ FatLoopSectors(d, j) = FatSectors(d, j)
<1> DEFINE F == FatSectors(d, j)
           R == FatReserved(j)
           t == FatRoom(d, j)
<1>1. F \in Nat \ {0} /\ 1026 * (F - 1) < t /\ t \in Nat
  BY FatShort
<1>2. R \in {8, 32}
  BY DEF FatReserved
<1>3. t <= d
  BY DEF FatRoom, FatUsable, Offset, FatReserved, RootSectors
<1>4. /\ FatAt(d, j, 0) = R + 0 * F /\ FatAt(d, j, 1) = R + 1 * F /\ RootAt(d, j) = R + 2 * F
  BY DEF FatAt, RootAt
<1> HIDE DEF F, R, t
<1>5. d <= 4294967296
  OBVIOUS
<1>6. R + 2 * F < 8388608
  BY <1>1, <1>2, <1>3, <1>5
<1>7. \A n \in Nat : n < 8388608 => n % OffsetSectors = n
  BY DEF OffsetSectors
<1>8. FatStart(d, j, 0) = R /\ FatStart(d, j, 1) = R + F
  BY <1>1, <1>2, <1>4, <1>6, <1>7 DEF FatStart
<1>9. RootStart(d, j) = R + 2 * F /\ F % OffsetSectors = F
  BY <1>1, <1>2, <1>4, <1>6, <1>7 DEF RootStart
<1> QED
  BY <1>8, <1>9 DEF FatLoopSectors, F, R

\* Both FATs have as many entries as there are clusters in the room they leave, so
\* that at most the last two clusters, which are numbered from 2 on, have none.
LEMMA FatCovers ==
    ASSUME NEW d \in Nat, NEW j \in Job, FatRoom(d, j) \in Nat, FatRoom(d, j) > 2
    PROVE  DataStart(d, j) < FatUsable(d, j) /\ LastCluster(d, j) - LastEntry(d, j) <= 2
<1> DEFINE F == FatSectors(d, j)
           E == EntryBytes(j)
           s == SectorsPerCluster(j)
           t == FatRoom(d, j)
<1>1. s \in 8 .. 128 /\ E \in {2, 4}
  BY SectorsPerClusterRange DEF EntryBytes
<1>2. F \in Nat \ {0} /\ 2 * F < t /\ t \in Nat
  BY FatShort
<1>3. t * E <= 512 * (s * F) + 2 * E * F
  BY FatLength
<1>4. FatUsable(d, j) \in Int /\ FatReserved(j) \in Nat /\ RootSectors(j) \in Nat
  BY DEF FatUsable, FatReserved, RootSectors, Offset
<1>5. FatUsable(d, j) - DataStart(d, j) = t - 2 * F
  BY <1>2, <1>4 DEF DataStart, RootAt, FatAt, FatRoom
<1>6. DataStart(d, j) \in Int
  BY <1>2, <1>4 DEF DataStart, RootAt, FatAt
<1>7. Clusters(d, j) = (t - 2 * F) \div s
  BY <1>5 DEF Clusters
<1>8. FatEntries(d, j) = IF E = 4 THEN 128 * F ELSE 256 * F
  <2>1. FatEntries(d, j) = (F * 512) \div E
    BY DEF FatEntries
  <2> HIDE DEF F, E
  <2> QED
    BY <2>1, <1>1, <1>2
<1> HIDE DEF F, E, s, t
<1>9. s * F \in Nat
  BY <1>1, <1>2
<1>10. CASE E = 4
  <2>1. t - 2 * F <= 128 * (s * F)
    BY <1>2, <1>3, <1>9, <1>10
  <2>2. 128 * (s * F) = s * (128 * F)
    BY <1>1, <1>2
  <2>3. (t - 2 * F) \div s <= 128 * F
    BY <1>1, <1>2, <2>1, <2>2, QuotientBound
  <2>4. Clusters(d, j) \in Nat /\ FatEntries(d, j) \in Nat
    BY <1>1, <1>2, <1>7, <1>8, <1>10
  <2>5. LastCluster(d, j) - LastEntry(d, j) <= 2
    BY <1>7, <1>8, <1>10, <2>3, <2>4 DEF LastCluster, LastEntry
  <2> QED
    BY <1>2, <1>4, <1>5, <1>6, <2>5
<1>11. CASE E = 2
  <2>1. t - 2 * F <= 256 * (s * F)
    BY <1>2, <1>3, <1>9, <1>11
  <2>2. 256 * (s * F) = s * (256 * F)
    BY <1>1, <1>2
  <2>3. (t - 2 * F) \div s <= 256 * F
    BY <1>1, <1>2, <2>1, <2>2, QuotientBound
  <2>4. Clusters(d, j) \in Nat /\ FatEntries(d, j) \in Nat
    BY <1>1, <1>2, <1>7, <1>8, <1>11
  <2>5. LastCluster(d, j) - LastEntry(d, j) <= 2
    BY <1>7, <1>8, <1>11, <2>3, <2>4 DEF LastCluster, LastEntry
  <2> QED
    BY <1>2, <1>4, <1>5, <1>6, <2>5
<1> QED
  BY <1>1, <1>10, <1>11

-----------------------------------------------------------------------------
(* What is on the stick.                                                    *)

\* Labels behind a step that is done in a session that went well.
AfterTables == {"setPart"} \cup VolumePcs
AfterHead == {"fatRest1", "fatHead2", "fatRest2", "fatRoot", "sync", "close"}
AfterBoot == {"fatHead1"} \cup AfterHead
FatPcs == {"fatMbr", "fatBoot", "fatBackup", "fatInfo"} \cup (AfterBoot \ {"sync", "close"})
GptPcs == {"gptMbr", "gptHeader", "gptEntries", "gptBackup", "gptBackupHeader"}

\* The session has come to one of the given labels, or has ended with success.
Reached(labels) == pc \in labels \/ (pc = "off" /\ result)

\* The landmarks are those of the stick and the job the user has chosen.
Sampled ==
    /\ pc # "off" => sessions > 0
    /\ sessions > 0 => stick \in Sticks /\ job \in Jobs
    /\ DOMAIN disk = {l \in Landmarks(stick, job) : 0 <= l /\ l < stick}

\* Each job goes its own way.
OwnWay ==
    /\ pc = "mbr" => job.pt = 1
    /\ pc \in GptPcs => job.pt = 2
    /\ pc = "mkfs" => ~IsFat(job)
    /\ pc \in FatPcs => IsFat(job)
    /\ pc \in {"fatBackup", "fatInfo"} => job.fs = 1
    /\ pc = "off" /\ result => gOffset = Offset(job)

\* Neither write of fixed length comes as far as the GPT backup.
Clear ==
    /\ Offset(job) + WipeReach(stick, job) <= stick - 33
    /\ IsFat(job) => FatAt(stick, job, 1) + FatHeadSectors <= FatUsable(stick, job)

\* The tables, as far as they are written.
TablesOnStick ==
    ~spoiled =>
        /\ job.pt = 1 /\ Reached(AfterTables) => disk[0] = "mbr"
        /\ job.pt = 2 =>
             /\ Reached((GptPcs \ {"gptMbr"}) \cup AfterTables) => disk[0] = "pmbr"
             /\ Reached((GptPcs \ {"gptMbr", "gptHeader"}) \cup AfterTables) =>
                   disk[1] = "gptHeader"
             /\ Reached({"gptBackup", "gptBackupHeader"} \cup AfterTables) =>
                   disk[2] = "gptEntries" /\ disk[33] = "gptEntries"
        /\ job.pt = 2 /\ Clear =>
             /\ Reached({"gptBackupHeader"} \cup AfterTables) =>
                   disk[stick - 33] = "gptEntries"
             /\ Reached(AfterTables) => disk[stick - 1] = "gptHeader"

\* The structures of a FAT volume, as far as they are written.
FatOnStick ==
    ~spoiled /\ IsFat(job) =>
        LET off == Offset(job) IN
        /\ Reached({"fatBackup", "fatInfo"} \cup AfterBoot) => disk[off] = "boot"
        /\ job.fs = 1 =>
             /\ Reached({"fatInfo"} \cup AfterBoot) => disk[off + 6] = "boot"
             /\ Reached(AfterBoot) => disk[off + 1] = "fsinfo"
        /\ Reached(AfterHead) => disk[off + FatStart(stick, job, 0)] = "fatHead"
        /\ Reached({"fatRest2", "fatRoot", "sync", "close"}) =>
             disk[off + FatStart(stick, job, 1)] = "fatHead"
        /\ job.fs # 1 /\ Reached({"sync", "close"}) => disk[off + RootStart(stick, job)] = "root"
        /\ Reached({"sync", "close"}) => Fits(stick, job)

\* A step within a session leaves stick and job alone.
LEMMA StepFrame == ASSUME Step PROVE stick' = stick /\ job' = job /\ sessions' = sessions
<1> USE DEF Keep
<1>1. CASE LibusbInit \/ LibusbInitFails \/ WrapDevice \/ WrapDeviceFails \/ TooSmall \/ Close
  BY <1>1 DEF LibusbInit, LibusbInitFails, WrapDevice, WrapDeviceFails, TooSmall, Close, Bail
<1>2. CASE ScsiInit \/ TestUnitReady \/ ReadCapacityRejected \/ ReadCapacity
  BY <1>2 DEF ScsiInit, TestUnitReady, ReadCapacityRejected, ReadCapacity, KeepInit
<1>3. CASE SizeOk \/ WipeMbr \/ WipeTail \/ WriteMbr \/ GptMbr \/ GptHeader \/ GptEntries \/ GptBackup
           \/ GptBackupHead \/ SetPartition \/ WipeHead \/ WipeRest \/ Wiped \/ StartEngine
  BY <1>3 DEF SizeOk, WipeMbr, WipeTail, WriteMbr, GptMbr, GptHeader, GptEntries, GptBackup,
     GptBackupHead, GptStep, SetPartition, WipeHead, WipeRest, Wiped, StartEngine, Quiet
<1>4. CASE Mkfs \/ UpdateMbrType \/ FatBoot \/ FatBootFails \/ FatBackup \/ FatInfo \/ FatHead1
           \/ FatRest1 \/ FatHead2 \/ FatRest2 \/ FatRoot \/ FinalSync
  BY <1>4 DEF Mkfs, UpdateMbrType, FatBoot, FatBootFails, FatBackup, FatInfo, FatHead1, FatRest1,
     FatHead2, FatRest2, FatRoot, FinalSync, FatHead, FatRest, EngineDone, Quiet
<1> QED
  BY <1>1, <1>2, <1>3, <1>4 DEF Step

\* What failed stays in the history of the session.
LEMMA SpoiledStays == ASSUME SInv, Step, spoiled PROVE spoiled'
<1> USE DEF Failure, NoFailure
<1>0. spoiled = TRUE
  BY Booleans
<1>1. CASE LibusbInit \/ LibusbInitFails \/ WrapDevice \/ WrapDeviceFails \/ TooSmall \/ Close
  BY <1>0, <1>1 DEF LibusbInit, LibusbInitFails, WrapDevice, WrapDeviceFails, TooSmall, Close
<1>2. CASE ScsiInit \/ TestUnitReady \/ ReadCapacityRejected \/ ReadCapacity
  BY <1>0, <1>2 DEF ScsiInit, TestUnitReady, ReadCapacityRejected, ReadCapacity
<1>3. CASE SizeOk \/ WipeMbr \/ WipeTail \/ WriteMbr \/ GptMbr \/ GptHeader \/ GptEntries \/ GptBackup
           \/ GptBackupHead \/ SetPartition \/ WipeHead \/ WipeRest \/ Wiped \/ StartEngine
  BY <1>0, <1>3 DEF SizeOk, WipeMbr, WipeTail, WriteMbr, GptMbr, GptHeader, GptEntries, GptBackup,
     GptBackupHead, GptStep, SetPartition, WipeHead, WipeRest, Wiped, StartEngine, RawOk, RawFails
<1>4. CASE Mkfs \/ UpdateMbrType \/ FatBoot \/ FatBootFails \/ FatBackup \/ FatInfo \/ FatHead1
           \/ FatRest1 \/ FatHead2 \/ FatRest2 \/ FatRoot \/ FinalSync
  BY <1>0, <1>4 DEF Mkfs, UpdateMbrType, FatBoot, FatBootFails, FatBackup, FatInfo, FatHead1, FatRest1,
     FatHead2, FatRest2, FatRoot, FinalSync, FatHead, FatRest, BlockWrite
<1> QED
  BY <1>1, <1>2, <1>3, <1>4 DEF Step

\* A write changes the sectors it is about and no other.
LEMMA PutAt ==
    ASSUME NEW lo, NEW n, NEW tag
    PROVE  /\ DOMAIN Put(lo, n, tag) = DOMAIN disk
           /\ \A a \in DOMAIN disk :
                 Put(lo, n, tag)[a] = IF lo <= a /\ a < lo + n THEN tag ELSE disk[a]
  BY DEF Put

\* The landmarks stay the same for a whole session.
LEMMA StepDomain == ASSUME Step PROVE DOMAIN disk' = DOMAIN disk
<1>1. CASE LibusbInit \/ LibusbInitFails \/ WrapDevice \/ WrapDeviceFails \/ TooSmall \/ Close
  BY <1>1 DEF LibusbInit, LibusbInitFails, WrapDevice, WrapDeviceFails, TooSmall, Close, Bail
<1>2. CASE ScsiInit \/ TestUnitReady \/ ReadCapacityRejected \/ ReadCapacity \/ SizeOk \/ SetPartition
           \/ WipeHead \/ Wiped \/ StartEngine \/ FinalSync \/ FatBootFails
  BY <1>2 DEF ScsiInit, TestUnitReady, ReadCapacityRejected, ReadCapacity, KeepInit, SizeOk,
     SetPartition, WipeHead, Wiped, StartEngine, FinalSync, FatBootFails
<1>3. CASE WipeMbr \/ WipeTail
  BY <1>3, PutAt DEF WipeMbr, WipeTail
<1>4. CASE WriteMbr \/ GptMbr \/ GptHeader \/ GptEntries \/ GptBackup \/ GptBackupHead
  BY <1>4, PutAt DEF WriteMbr, GptMbr, GptHeader, GptEntries, GptBackup, GptBackupHead, GptStep,
     RawOk, RawFails
<1>5. CASE WipeRest
  BY <1>5, PutAt DEF WipeRest
<1>6. CASE Mkfs \/ UpdateMbrType
  BY <1>6, PutAt DEF Mkfs, UpdateMbrType
<1>7. CASE FatBoot \/ FatBackup \/ FatInfo \/ FatRest1 \/ FatRest2 \/ FatRoot
  BY <1>7, PutAt DEF FatBoot, FatBackup, FatInfo, FatRest1, FatRest2, FatRoot, FatRest, BlockWrite
<1>8. CASE FatHead1 \/ FatHead2
  BY <1>8 DEF FatHead1, FatHead2, FatHead
<1> QED
  BY <1>1, <1>2, <1>3, <1>4, <1>5, <1>6, <1>7, <1>8 DEF Step

\* Before the first session nothing is plugged in.
LEMMA InitOnStick == Init => Sampled /\ OwnWay
<1> SUFFICES ASSUME Init PROVE Sampled /\ OwnWay
  OBVIOUS
<1>1. stick = 0 /\ sessions = 0 /\ job.pt = 0 /\ job.fs = 0 /\ disk = [a \in {} |-> "old"]
  BY DEF Init
<1>2. Offset(job) = 0 /\ ReservedEnd(job) = 0 /\ ~IsFat(job) /\ FsCap(job) = 0
  BY <1>1 DEF Offset, ReservedEnd, IsFat, FsCap
<1>3. PartSectors(stick, job) = 0
  BY <1>1, <1>2 DEF PartSectors
<1>4. Landmarks(stick, job) \subseteq Int
  BY <1>1, <1>2, <1>3 DEF Landmarks
<1>5. DOMAIN disk = {l \in Landmarks(stick, job) : 0 <= l /\ l < stick}
  BY <1>1, <1>4
<1>6. OwnWay
  BY DEF Init, OwnWay, GptPcs, FatPcs, AfterBoot, AfterHead
<1> QED
  BY <1>1, <1>5, <1>6 DEF Init, Sampled

\* The landmarks stay those of the stick and the job at hand.
LEMMA NextSampled == SInv /\ Sampled /\ [Next]_vars => Sampled'
<1> SUFFICES ASSUME SInv, Sampled, [Next]_vars PROVE Sampled'
  OBVIOUS
<1>1. CASE Begin
  <2>1. stick' \in Sticks /\ job' \in Jobs /\ sessions' = sessions + 1 /\ sessions \in Nat
    BY <1>1, SessionAssumption DEF Begin, SInv, TypeOK
  <2>2. DOMAIN disk' = {l \in Landmarks(stick', job') : 0 <= l /\ l < stick'}
    BY <1>1 DEF Begin, Fresh
  <2> QED
    BY <2>1, <2>2 DEF Sampled
<1>2. CASE Step
  <2>1. pc # "off"
    BY <1>2 DEF Step, LibusbInit, LibusbInitFails, WrapDevice, WrapDeviceFails, ScsiInit,
       TestUnitReady, ReadCapacityRejected, ReadCapacity, TooSmall, SizeOk, WipeMbr, WipeTail,
       WriteMbr, GptMbr, GptHeader, GptEntries, GptBackup, GptBackupHead, GptStep, SetPartition,
       WipeHead, WipeRest, Wiped, StartEngine, Mkfs, UpdateMbrType, FatBoot, FatBootFails,
       FatBackup, FatInfo, FatHead1, FatRest1, FatHead2, FatRest2, FatHead, FatRest, FatRoot,
       FinalSync, Close
  <2> QED
    BY <1>2, <2>1, StepFrame, StepDomain DEF Sampled
<1>3. CASE UNCHANGED vars
  BY <1>3 DEF vars, Sampled
<1> QED
  BY <1>1, <1>2, <1>3 DEF Next

\* Every session takes the steps of its own file system.
LEMMA NextOwnWay == SInv /\ OwnWay /\ [Next]_vars => OwnWay'
<1> SUFFICES ASSUME SInv, OwnWay, [Next]_vars PROVE OwnWay'
  OBVIOUS
<1> USE DEF OwnWay, GptPcs, FatPcs, AfterBoot, AfterHead, Goto
<1>1. CASE Begin
  BY <1>1 DEF Begin
<1>2. CASE LibusbInit \/ LibusbInitFails \/ WrapDevice \/ WrapDeviceFails \/ TooSmall
  BY <1>2 DEF LibusbInit, LibusbInitFails, WrapDevice, WrapDeviceFails, TooSmall, Bail
<1>3. CASE ScsiInit \/ TestUnitReady \/ ReadCapacityRejected \/ ReadCapacity
  BY <1>3 DEF ScsiInit, TestUnitReady, ReadCapacityRejected, ReadCapacity, InitReturns
<1>4. CASE SizeOk \/ WipeMbr \/ SetPartition \/ WipeHead \/ WipeRest \/ Wiped
  BY <1>4 DEF SizeOk, WipeMbr, SetPartition, WipeHead, WipeRest, Wiped
<1>5. CASE WipeTail
  BY <1>5, StepFrame DEF WipeTail, Step
<1>6. CASE WriteMbr \/ GptMbr \/ GptHeader \/ GptEntries \/ GptBackup \/ GptBackupHead
  BY <1>6, StepFrame DEF WriteMbr, GptMbr, GptHeader, GptEntries, GptBackup, GptBackupHead, GptStep,
     Step
<1>7. CASE StartEngine
  BY <1>7, StepFrame DEF StartEngine, Step
<1>8. CASE Mkfs \/ FatBootFails \/ FatRoot
  BY <1>8 DEF Mkfs, FatBootFails, FatRoot, EngineDone
<1>9. CASE UpdateMbrType \/ FatBoot \/ FatBackup \/ FatInfo
  BY <1>9, StepFrame DEF UpdateMbrType, FatBoot, FatBackup, FatInfo, Step
<1>10. CASE FatHead1 \/ FatRest1 \/ FatHead2 \/ FatRest2
  BY <1>10, StepFrame DEF FatHead1, FatRest1, FatHead2, FatRest2, FatHead, FatRest, Step
<1>11. CASE FinalSync
  BY <1>11 DEF FinalSync
<1>12. CASE Close
  <2>1. gOffset = Offset(job)
    BY <1>12 DEF Close, SInv, Sized, VolumePcs
  <2> QED
    BY <1>12, <2>1 DEF Close, Keep, drvVars
<1>13. CASE UNCHANGED vars
  BY <1>13 DEF vars, drvVars
<1> QED
  BY <1>1, <1>2, <1>3, <1>4, <1>5, <1>6, <1>7, <1>8, <1>9, <1>10, <1>11, <1>12, <1>13
     DEF Next, Step

\* g_sector_count is the size of some stick, once it is known at all.
Measured == gSectorCount = 0 \/ gSectorCount \in Sticks

\* Only READ CAPACITY changes g_sector_count.
LEMMA SizeStays == ASSUME [Next]_vars, ~ReadCapacity PROVE gSectorCount' = gSectorCount
<1>1. CASE UNCHANGED vars \/ Begin \/ LibusbInit \/ LibusbInitFails \/ WrapDevice \/ WrapDeviceFails
           \/ TooSmall \/ Close \/ ScsiInit \/ TestUnitReady \/ ReadCapacityRejected \/ SizeOk
           \/ SetPartition
  BY <1>1 DEF vars, Begin, LibusbInit, LibusbInitFails, WrapDevice, WrapDeviceFails, TooSmall, Close,
     Bail, ScsiInit, TestUnitReady, ReadCapacityRejected, SizeOk, SetPartition, KeepDriver, drvVars
<1>2. CASE WipeMbr \/ WipeTail \/ WriteMbr \/ GptMbr \/ GptHeader \/ GptEntries \/ GptBackup
           \/ GptBackupHead \/ WipeHead \/ WipeRest \/ Wiped \/ StartEngine
  BY <1>2 DEF WipeMbr, WipeTail, WriteMbr, GptMbr, GptHeader, GptEntries, GptBackup,
     GptBackupHead, GptStep, WipeHead, WipeRest, Wiped, StartEngine, Quiet, drvVars
<1>3. CASE Mkfs \/ UpdateMbrType \/ FatBoot \/ FatBootFails \/ FatBackup \/ FatInfo \/ FatHead1
           \/ FatRest1 \/ FatHead2 \/ FatRest2 \/ FatRoot \/ FinalSync
  BY <1>3 DEF Mkfs, UpdateMbrType, FatBoot, FatBootFails, FatBackup, FatInfo, FatHead1, FatRest1,
     FatHead2, FatRest2, FatRoot, FinalSync, FatHead, FatRest, EngineDone, Quiet, drvVars
<1> QED
  BY <1>1, <1>2, <1>3 DEF Next, Step

\* So it stays the size of a stick.
LEMMA NextMeasured == Sampled /\ Measured /\ [Next]_vars => Measured'
<1> SUFFICES ASSUME Sampled, Measured, [Next]_vars PROVE Measured'
  OBVIOUS
<1>1. CASE ReadCapacity
  BY <1>1 DEF ReadCapacity, Sampled, Measured
<1>2. CASE ~ReadCapacity
  BY <1>2, SizeStays DEF Measured
<1> QED
  BY <1>1, <1>2

\* While no size is known, the size check lets no session through, and only a
\* session past it writes to its stick or can report success.
LEMMA NextUntouched ==
    SInv /\ Sampled /\ UnmeasuredStickUntouched /\ [Next]_vars => UnmeasuredStickUntouched'
<1> SUFFICES ASSUME SInv, Sampled, UnmeasuredStickUntouched, [Next]_vars, gSectorCount' = 0
             PROVE  (\A a \in DOMAIN disk' : disk'[a] = "old") /\ ~result'
  BY DEF UnmeasuredStickUntouched
<1>1. CASE Begin
  <2>1. gSectorCount = 0 /\ result' = result
    BY <1>1 DEF Begin, drvVars
  <2>2. disk' = [a \in {l \in Landmarks(stick', job') : 0 <= l /\ l < stick'} |-> "old"]
    BY <1>1 DEF Begin, Fresh
  <2> QED
    BY <2>1, <2>2 DEF UnmeasuredStickUntouched
<1>2. CASE UNCHANGED vars \/ LibusbInit \/ LibusbInitFails \/ WrapDevice \/ WrapDeviceFails \/ TooSmall
           \/ ScsiInit \/ TestUnitReady \/ ReadCapacityRejected
  <2>1. disk' = disk /\ gSectorCount = 0 /\ (result' = result \/ result' = FALSE)
    BY <1>2 DEF vars, LibusbInit, LibusbInitFails, WrapDevice, WrapDeviceFails, TooSmall, ScsiInit,
       TestUnitReady, ReadCapacityRejected, Bail, KeepInit, KeepDriver, KeepOutcome, drvVars
  <2> QED
    BY <2>1 DEF UnmeasuredStickUntouched
<1>3. ~ReadCapacity
  <2> SUFFICES ASSUME ReadCapacity PROVE FALSE
    OBVIOUS
  <2>1. pc = "capacity" /\ stick = 0
    BY DEF ReadCapacity
  <2> QED
    BY <2>1, SessionAssumption DEF Sampled
<1>4. CASE pc \in TablePcs \cup VolumePcs \/ SizeOk
  <2>1. Fits(gSectorCount, job) /\ job \in Job /\ gSectorCount \in Nat
    BY <1>4 DEF SInv, TypeOK, Inputs, Sized, SizeOk
  <2>2. gSectorCount > 0
    BY <2>1 DEF Fits, Offset, ReservedEnd
  <2>3. gSectorCount' = gSectorCount
    BY <1>3, SizeStays
  <2> QED
    BY <2>2, <2>3
<1>5. CASE pc \notin TablePcs \cup VolumePcs /\ ~SizeOk
  BY <1>1, <1>2, <1>3, <1>5 DEF Next, Step, WipeMbr, WipeTail, WriteMbr, GptMbr, GptHeader, GptEntries,
     GptBackup, GptBackupHead, GptStep, SetPartition, WipeHead, WipeRest, Wiped, StartEngine, Mkfs,
     UpdateMbrType, FatBoot, FatBootFails, FatBackup, FatInfo, FatHead1, FatRest1, FatHead2, FatRest2,
     FatHead, FatRest, FatRoot, FinalSync, Close, TablePcs, VolumePcs
<1> QED
  BY <1>4, <1>5

\* Until READ CAPACITY has worked once in the process, no session writes anything
\* or reports success, for any choice of the user and any number of sessions,
\* although usb_scsi_init tells nobody that it failed.
THEOREM UnmeasuredSticksUntouched == Spec => []UnmeasuredStickUntouched
<1>1. Init => UnmeasuredStickUntouched
  BY DEF Init, UnmeasuredStickUntouched
<1> QED
  BY <1>1, SessionInvariance, InitOnStick, NextSampled, NextUntouched, PTL DEF Spec

\* A FAT volume of a stick that fits has room for both FATs and data.
LEMMA VolumeRoom ==
    ASSUME NEW d \in Sticks, NEW j \in Jobs, IsFat(j), Fits(d, j)
    PROVE  /\ d \in Nat /\ j \in Job /\ (d - 1) \div 65536 < 65536
           /\ FatRoom(d, j) \in Nat /\ FatRoom(d, j) > 2
<1>1. d \in Nat /\ j \in Job /\ (d - 1) \div 65536 < 65536
  BY SessionAssumption
<1>2. FatUsable(d, j) > FatReserved(j) + RootSectors(j) + 2
  BY FatVolumeAssumption
<1>3. FatUsable(d, j) \in Int /\ FatReserved(j) \in Nat /\ RootSectors(j) \in Nat
  BY <1>1 DEF FatUsable, FatReserved, RootSectors, Offset
<1> QED
  BY <1>1, <1>2, <1>3 DEF FatRoom

\* The same for the stick and the job at hand.
LEMMA SessionRoom ==
    ASSUME SInv, Sampled, sessions > 0, IsFat(job), Fits(stick, job)
    PROVE  /\ stick \in Nat /\ job \in Job /\ (stick - 1) \div 65536 < 65536
           /\ FatRoom(stick, job) \in Nat /\ FatRoom(stick, job) > 2
  BY VolumeRoom DEF Sampled

\* The FATs usb_scsi_format_fat lays out leave room for data, and of the clusters,
\* numbered from 2 on, at most the last two lie beyond the last entry: for every
\* stick, cluster size and partition table, and for a size left over from an
\* earlier stick.
THEOREM FatsLackTwoAtMost == Spec => []FatLacksTwoAtMost
<1>1. Init => Measured
  BY DEF Init, Measured
<1>2. SInv /\ Sampled /\ OwnWay /\ Measured => FatLacksTwoAtMost
  <2> SUFFICES ASSUME SInv, Sampled, OwnWay, Measured, pc = "fatBoot"
               PROVE  /\ DataStart(gSectorCount, job) < FatUsable(gSectorCount, job)
                      /\ LastCluster(gSectorCount, job) - LastEntry(gSectorCount, job) <= 2
    BY DEF FatLacksTwoAtMost
  <2>1. IsFat(job) /\ job \in Jobs
    BY DEF OwnWay, FatPcs, Sampled
  <2>2. Fits(gSectorCount, job) /\ ~Fits(0, job)
    BY DEF SInv, Sized, VolumePcs, Fits, Offset, ReservedEnd
  <2>3. gSectorCount \in Sticks
    BY <2>2 DEF Measured
  <2> QED
    BY <2>1, <2>2, <2>3, VolumeRoom, FatCovers
<1> QED
  BY <1>1, <1>2, SessionInvariance, InitOnStick, NextSampled, NextOwnWay, NextMeasured, PTL DEF Spec

-----------------------------------------------------------------------------
(* The tables.                                                              *)

\* The sectors of the tables are among the landmarks.
LEMMA TableSectors ==
    ASSUME SInv, Sampled, stick > 33
    PROVE  /\ stick \in Nat
           /\ {0, 1, 2, 33, stick - 33, stick - 1} \subseteq DOMAIN disk
<1>1. stick \in Nat
  BY DEF SInv, Inputs
<1>2. {0, 1, 2, 33, stick - 33, stick - 1} \subseteq Landmarks(stick, job)
  BY <1>1 DEF Landmarks
<1> QED
  BY <1>1, <1>2 DEF Sampled

\* The sectors of the tables hold what they held before.
TablesKept ==
    /\ job.pt = 1 => disk'[0] = disk[0]
    /\ job.pt = 2 => \A a \in {0, 1, 2, 33} : disk'[a] = disk[a]
    /\ job.pt = 2 /\ Clear => \A a \in {stick - 33, stick - 1} : disk'[a] = disk[a]

\* Between the tables and the end of the session the tables stay as long as every
\* step keeps their sectors.
LEMMA KeptTables ==
    ASSUME TablesOnStick, TablesKept, stick' = stick, job' = job, ~spoiled,
           pc \in AfterTables, pc' \in AfterTables
    PROVE  TablesOnStick'
<1>1. Clear' = Clear
  BY DEF Clear
<1>2. /\ pc \in AfterTables \/ (pc = "off" /\ result)
      /\ pc' \in AfterTables \/ (pc' = "off" /\ result')
  OBVIOUS
<1> QED
  BY <1>1, <1>2 DEF TablesOnStick, TablesKept, Reached

\* A write behind the first table keeps it, and one before the second keeps both.
LEMMA WriteInVolume ==
    ASSUME SInv, Sampled, stick > 4096, job.pt > 0, NEW lo \in Nat, NEW n \in Nat, NEW tag,
           disk' = Put(lo, n, tag),
           Offset(job) <= lo, job.pt = 2 /\ Clear => lo + n <= stick - 33
    PROVE  TablesKept
<1>1. stick \in Nat /\ job.pt \in 0 .. 2
  BY DEF SInv, Inputs, Job
<1>2. lo >= 4096
  BY <1>1 DEF Offset
<1>3. {0, 1, 2, 33, stick - 33, stick - 1} \subseteq DOMAIN disk
  BY <1>1, TableSectors
<1>4. \A a \in DOMAIN disk : disk'[a] = IF lo <= a /\ a < lo + n THEN tag ELSE disk[a]
  BY PutAt
<1>5. \A a \in {0, 1, 2, 33} : disk'[a] = disk[a]
  BY <1>2, <1>3, <1>4
<1>6. ASSUME job.pt = 2, Clear, NEW a \in {stick - 33, stick - 1} PROVE disk'[a] = disk[a]
  <2>1. ~(a < lo + n)
    BY <1>1, <1>6
  <2> QED
    BY <1>3, <1>4, <1>6, <2>1
<1> QED
  BY <1>5, <1>6 DEF TablesKept

\* Where usb_scsi_format_fat writes on a stick with a GPT, seen from the first
\* sector of the volume.
LEMMA FatWritesEnd ==
    ASSUME SInv, job.pt = 2, Clear, IsFat(job),
           FatRoom(stick, job) \in Nat, FatRoom(stick, job) > 2
    PROVE  LET F == FatSectors(stick, job)
               limit == stick - Offset(job) - 33
           IN  /\ FatReserved(job) + F + 64 <= limit
               /\ FatReserved(job) + 2 * F + RootSectors(job) <= limit
<1> DEFINE F == FatSectors(stick, job)
           R == FatReserved(job)
           Q == RootSectors(job)
           t == FatRoom(stick, job)
           off == Offset(job)
<1>1. stick \in Nat /\ job \in Job
  BY DEF SInv, Inputs
<1>2. F \in Nat \ {0} /\ 2 * F < t /\ t \in Nat
  BY <1>1, FatShort
<1>3. R \in {8, 32} /\ Q \in {0, 32} /\ off \in {0, 4096}
  BY DEF FatReserved, RootSectors, Offset
<1>4. t + R + Q = stick - off - 33 /\ FatUsable(stick, job) = stick - off - 33
  BY <1>1, <1>3 DEF FatRoom, FatUsable
<1>5. R + 1 * F + 64 <= FatUsable(stick, job)
  BY DEF Clear, FatAt, FatHeadSectors
<1> HIDE DEF F, R, Q, t, off
<1>6. R + F + 64 <= stick - off - 33 /\ R + 2 * F + Q <= stick - off - 33
  BY <1>1, <1>2, <1>3, <1>4, <1>5
<1> QED
  BY <1>6 DEF F, R, Q, off

\* Every step keeps the tables written so far.
LEMMA NextTables ==
    SInv /\ CapacityRead /\ Sampled /\ OwnWay /\ TablesOnStick /\ [Next]_vars => TablesOnStick'
<1> SUFFICES ASSUME SInv, CapacityRead, Sampled, OwnWay, TablesOnStick, [Next]_vars
             PROVE  TablesOnStick'
  OBVIOUS
<1>1. CASE Begin
  BY <1>1 DEF Begin, Goto, TablesOnStick, Reached, AfterTables, VolumePcs, GptPcs
<1>2. CASE UNCHANGED vars
  BY <1>2 DEF vars, TablesOnStick, Clear, Reached
<1>3. CASE Step
  <2> SUFFICES ASSUME ~spoiled', job'.pt > 0 PROVE TablesOnStick'
    <3>1. job' \in Job
      BY <1>3, StepFrame DEF SInv, Inputs
    <3> QED
      BY <3>1 DEF TablesOnStick, Job
  <2>1. stick' = stick /\ job' = job /\ job.pt > 0 /\ Clear' = Clear
    BY <1>3, StepFrame DEF Clear
  <2>2. ~spoiled
    BY <1>3, SpoiledStays
  <2>3. stick \in Nat /\ job.pt \in 1 .. 2 /\ gSectorCount \in Nat /\ gOffset \in Nat /\ part \in Nat
    BY <2>1 DEF SInv, TypeOK, Inputs, Job
  <2>4. Offset(job) = 4096 /\ ReservedEnd(job) = IF job.pt = 2 THEN 34 ELSE 0
    BY <2>3 DEF Offset, ReservedEnd
  <2>5. pc \in TablePcs \cup VolumePcs =>
           gSectorCount = stick /\ stick > 4096 /\ (job.pt = 2 => stick > 4130)
    <3>1. pc \in TablePcs \cup VolumePcs => Fits(gSectorCount, job) /\ pc \notin BeforeSize
      BY DEF SInv, Sized, TablePcs, VolumePcs, BeforeSize
    <3>2. pc \in TablePcs \cup VolumePcs => gSectorCount = stick
      BY <2>2, <3>1 DEF CapacityRead, SInv, Capacity
    <3> QED
      BY <2>3, <2>4, <3>1, <3>2 DEF Fits
  <2>6. pc \in TablePcs \cup VolumePcs => {0, 1, 2, 33, stick - 33, stick - 1} \subseteq DOMAIN disk
    BY <2>3, <2>5, TableSectors
  <2>8. pc \in VolumePcs => gOffset = Offset(job) /\ part = PartSectors(gSectorCount, job)
                            /\ Fits(gSectorCount, job)
    BY DEF SInv, Sized
  <2>11. CASE LibusbInit \/ LibusbInitFails \/ WrapDevice \/ WrapDeviceFails \/ TooSmall
              \/ ScsiInit \/ TestUnitReady \/ ReadCapacityRejected \/ ReadCapacity \/ SizeOk \/ WipeMbr
    <3>1. pc' \in EarlyPcs \cup {"wipeMbr", "wipeTail"} /\ ~(pc' = "off" /\ result')
      BY <2>11 DEF LibusbInit, LibusbInitFails, WrapDevice, WrapDeviceFails, TooSmall, Bail,
         ScsiInit, TestUnitReady, ReadCapacityRejected, ReadCapacity, InitReturns, SizeOk, WipeMbr,
         Goto, EarlyPcs
    <3> QED
      BY <3>1 DEF TablesOnStick, Reached, AfterTables, VolumePcs, GptPcs, EarlyPcs
  <2>12. CASE WipeTail
    BY <2>1, <2>12 DEF WipeTail, Goto, TablesOnStick, Reached, AfterTables, VolumePcs, GptPcs
  <2>13. CASE WriteMbr
    <3>1. pc = "mbr" /\ pc' = "setPart" /\ job.pt = 1
      BY <2>13 DEF WriteMbr, Goto, OwnWay
    <3>0. stick > 4096 /\ 0 \in DOMAIN disk
      BY <2>5, <2>6, <3>1 DEF TablePcs
    <3>2. disk' = Put(0, 1, "mbr")
      BY <2>2, <2>3, <2>13, <3>0 DEF WriteMbr, RawOk, RawFails, Failure
    <3>3. disk'[0] = "mbr"
      BY <3>0, <3>2, PutAt
    <3> QED
      BY <2>1, <3>1, <3>3 DEF TablesOnStick
  <2>20. ASSUME NEW lo \in Nat, NEW n \in Nat, NEW l, NEW tag, NEW next, NEW bad, lo + n <= stick,
                l \in GptPcs, GptStep(l, lo, n, tag, next, bad)
         PROVE  /\ pc = l /\ pc' = next
                /\ \A a \in {0, 1, 2, 33, stick - 33, stick - 1} :
                      disk'[a] = IF lo <= a /\ a < lo + n THEN tag ELSE disk[a]
    <3>1. disk' = Put(lo, n, tag) /\ pc = l /\ pc' = next
      BY <2>3, <2>20 DEF GptStep, RawOk, RawFails, Failure, Goto
    <3>2. {0, 1, 2, 33, stick - 33, stick - 1} \subseteq DOMAIN disk
      BY <2>6, <2>20, <3>1 DEF GptPcs, TablePcs
    <3> QED
      BY <3>1, <3>2, PutAt
  <2>27. pc \in GptPcs => stick > 4130
    BY <2>5 DEF OwnWay, GptPcs, TablePcs
  <2>14. CASE GptMbr
    <3>0. pc = "gptMbr" /\ stick > 4130
      BY <2>14, <2>27 DEF GptMbr, GptStep, GptPcs
    <3>1. /\ pc' = "gptHeader" /\ pc = "gptMbr"
          /\ disk'[0] = "pmbr"
      BY <2>3, <2>14, <2>20, <3>0 DEF GptMbr, GptPcs
    <3>2. job.pt = 2
      BY <3>1 DEF OwnWay, GptPcs
    <3> QED
      BY <2>1, <3>1, <3>2 DEF TablesOnStick, Reached, AfterTables, VolumePcs, GptPcs
  <2>15. CASE GptHeader
    <3>0. pc = "gptHeader" /\ stick > 4130
      BY <2>15, <2>27 DEF GptHeader, GptStep, GptPcs
    <3>1. /\ pc' = "gptEntries" /\ pc = "gptHeader"
          /\ disk'[0] = disk[0] /\ disk'[1] = "gptHeader"
      BY <2>3, <2>15, <2>20, <3>0 DEF GptHeader, GptPcs
    <3>2. job.pt = 2
      BY <3>1 DEF OwnWay, GptPcs
    <3>3. disk[0] = "pmbr"
      BY <2>1, <2>2, <3>1, <3>2 DEF TablesOnStick, Reached, GptPcs
    <3> QED
      BY <2>1, <3>1, <3>2, <3>3 DEF TablesOnStick, Reached, AfterTables, VolumePcs, GptPcs
  <2>16. CASE GptEntries
    <3>0. pc = "gptEntries" /\ stick > 4130
      BY <2>16, <2>27 DEF GptEntries, GptStep, GptPcs
    <3>1. /\ pc' = "gptBackup" /\ pc = "gptEntries"
          /\ disk'[0] = disk[0] /\ disk'[1] = disk[1]
          /\ disk'[2] = "gptEntries" /\ disk'[33] = "gptEntries"
      BY <2>3, <2>16, <2>20, <3>0 DEF GptEntries, GptPcs
    <3>2. job.pt = 2
      BY <3>1 DEF OwnWay, GptPcs
    <3>3. disk[0] = "pmbr" /\ disk[1] = "gptHeader"
      BY <2>1, <2>2, <3>1, <3>2 DEF TablesOnStick, Reached, GptPcs
    <3> QED
      BY <2>1, <3>1, <3>2, <3>3 DEF TablesOnStick, Reached, AfterTables, VolumePcs, GptPcs
  <2>17. CASE GptBackup
    <3>0. pc = "gptBackup" /\ gSectorCount = stick
      BY <2>5, <2>17 DEF GptBackup, GptStep, TablePcs
    <3>1. /\ pc' = "gptBackupHeader"
          /\ disk'[0] = disk[0] /\ disk'[1] = disk[1] /\ disk'[2] = disk[2] /\ disk'[33] = disk[33]
          /\ disk'[stick - 33] = "gptEntries"
      BY <2>3, <2>17, <2>20, <2>27, <3>0 DEF GptBackup, GptBackupEntries, GptPcs
    <3>2. job.pt = 2
      BY <3>0 DEF OwnWay, GptPcs
    <3>3. disk[0] = "pmbr" /\ disk[1] = "gptHeader" /\ disk[2] = "gptEntries" /\ disk[33] = "gptEntries"
      BY <2>1, <2>2, <3>0, <3>2 DEF TablesOnStick, Reached, GptPcs
    <3> QED
      BY <2>1, <3>1, <3>2, <3>3 DEF TablesOnStick, Reached, AfterTables, VolumePcs, GptPcs
  <2>18. CASE GptBackupHead
    <3>0. pc = "gptBackupHeader" /\ gSectorCount = stick
      BY <2>5, <2>18 DEF GptBackupHead, GptStep, TablePcs
    <3>1. /\ pc' = "setPart"
          /\ disk'[0] = disk[0] /\ disk'[1] = disk[1] /\ disk'[2] = disk[2] /\ disk'[33] = disk[33]
          /\ disk'[stick - 33] = disk[stick - 33] /\ disk'[stick - 1] = "gptHeader"
      BY <2>3, <2>18, <2>20, <2>27, <3>0 DEF GptBackupHead, GptBackupHeader, GptPcs
    <3>2. job.pt = 2
      BY <3>0 DEF OwnWay, GptPcs
    <3>3. /\ disk[0] = "pmbr" /\ disk[1] = "gptHeader" /\ disk[2] = "gptEntries"
          /\ disk[33] = "gptEntries" /\ (Clear => disk[stick - 33] = "gptEntries")
      BY <2>1, <2>2, <3>0, <3>2 DEF TablesOnStick, Reached, GptPcs
    <3> QED
      BY <2>1, <3>1, <3>2, <3>3 DEF TablesOnStick, Reached, AfterTables, VolumePcs, GptPcs
  <2>19. CASE SetPartition \/ WipeHead \/ Wiped \/ StartEngine \/ FinalSync \/ FatBootFails
    <3>1. disk' = disk /\ pc \in AfterTables /\ pc' \in AfterTables
      BY <2>19 DEF SetPartition, WipeHead, Wiped, StartEngine, FinalSync, FatBootFails, EngineDone,
         Goto, AfterTables, VolumePcs
    <3> QED
      BY <2>1, <2>2, <3>1, KeptTables DEF TablesKept
  <2>21. CASE WipeRest
    <3>1. /\ pc \in AfterTables /\ pc' \in AfterTables /\ pc \in VolumePcs
          /\ disk' = Put(gOffset, WipeReach(stick, job), "zero")
      BY <2>21 DEF WipeRest, Failure, Goto, AfterTables, VolumePcs
    <3>2. /\ gOffset = Offset(job) /\ stick > 4096 /\ WipeReach(stick, job) \in Nat
          /\ Clear => gOffset + WipeReach(stick, job) <= stick - 33
      <4>1. gOffset = Offset(job) /\ stick > 4096
        BY <2>5, <2>8, <3>1
      <4>2. WipeReach(stick, job) \in Nat
        BY <2>3, <2>4, <4>1 DEF WipeReach, WipeSectors, CacheBlock
      <4> QED
        BY <4>1, <4>2 DEF Clear
    <3>3. TablesKept
      BY <2>1, <2>3, <2>4, <3>1, <3>2, WriteInVolume
    <3> QED
      BY <2>1, <2>2, <3>1, <3>3, KeptTables
  <2>22. CASE Mkfs
    <3>1. /\ pc \in AfterTables /\ pc' \in AfterTables /\ pc \in VolumePcs
          /\ disk' = Put(gOffset, part, "fs")
      BY <2>22 DEF Mkfs, Failure, EngineDone, Goto, AfterTables, VolumePcs
    <3>2. Offset(job) + part + ReservedEnd(job) <= stick /\ gOffset = Offset(job) /\ stick > 4096
      BY <2>3, <2>5, <2>8, <3>1, PartitionPlaced DEF SInv, Inputs
    <3>3. TablesKept
      BY <2>1, <2>3, <2>4, <3>1, <3>2, WriteInVolume
    <3> QED
      BY <2>1, <2>2, <3>1, <3>3, KeptTables
  <2>23. CASE UpdateMbrType
    <3>1. /\ pc \in AfterTables /\ pc' \in AfterTables
          /\ disk' = disk \/ (disk[0] = "mbr" /\ disk' = Put(0, 1, "mbr"))
      BY <2>23 DEF UpdateMbrType, Failure, Goto, AfterTables, VolumePcs
    <3>2. \A a \in DOMAIN disk : a \in Nat => disk'[a] = disk[a]
      BY <3>1, PutAt
    <3>3. TablesKept
      <4>1. pc \in VolumePcs
        BY <2>23 DEF UpdateMbrType, VolumePcs
      <4> QED
        BY <2>3, <2>5, <2>6, <3>2, <4>1 DEF TablesKept
    <3> QED
      BY <2>1, <2>2, <3>1, <3>3, KeptTables
  <2>24. CASE pc \in FatPcs \ {"fatMbr"} /\ ~FatBootFails
    <3> DEFINE F == FatSectors(stick, job)
               R == FatReserved(job)
               limit == stick - Offset(job) - 33
    <3>1. /\ pc \in VolumePcs /\ pc \in AfterTables /\ gSectorCount = stick /\ gOffset = Offset(job)
          /\ IsFat(job) /\ sessions > 0 /\ Fits(stick, job) /\ stick > 4096
      BY <2>5, <2>8, <2>24 DEF FatPcs, AfterBoot, AfterHead, AfterTables, VolumePcs, OwnWay, Sampled
    <3>2. /\ job \in Job /\ (stick - 1) \div 65536 < 65536
          /\ FatRoom(stick, job) \in Nat /\ FatRoom(stick, job) > 2
      BY <3>1, SessionRoom
    <3>3. /\ F \in Nat \ {0} /\ R \in {8, 32}
          /\ job.pt = 2 /\ Clear => R + F + 64 <= limit /\ R + 2 * F + RootSectors(job) <= limit
      <4>1. F \in Nat \ {0}
        BY <2>3, <3>2, FatShort
      <4>2. R \in {8, 32}
        BY DEF FatReserved
      <4> QED
        BY <3>1, <3>2, <4>1, <4>2, FatWritesEnd
    <3>4. RootSectors(job) \in {0, 32}
      BY DEF RootSectors
    <3>5. /\ \A f \in {0, 1} : FatStart(stick, job, f) = IF f = 0 THEN R ELSE R + F
          /\ FatLoopSectors(stick, job) = F
      BY <2>3, <3>2, NothingWraps
    <3>6. RootStart(stick, job) = R + 2 * F
      BY <2>3, <3>2, NothingWraps
    <3> HIDE DEF F, R
    <3>7. ASSUME NEW lo \in Nat, NEW n \in Nat, NEW tag, disk' = Put(gOffset + lo, n, tag),
                 job.pt = 2 /\ Clear => lo + n <= limit
          PROVE  TablesKept
      BY <2>1, <2>3, <2>4, <3>1, <3>7, WriteInVolume
    <3>11. CASE FatBoot \/ FatBackup \/ FatInfo
      <4>1. /\ pc' \in AfterTables
            /\ \/ disk' = Put(gOffset + 0, 1, "boot") \/ disk' = Put(gOffset + 6, 1, "boot")
               \/ disk' = Put(gOffset + 1, 1, "fsinfo")
        BY <2>3, <3>11 DEF FatBoot, FatBackup, FatInfo, BlockWrite, Failure, Goto, AfterTables, VolumePcs
      <4> QED
        BY <2>1, <2>2, <2>3, <2>4, <3>1, <3>3, <3>7, <4>1, KeptTables
    <3>12. ASSUME NEW l, NEW f \in {0, 1}, NEW next \in AfterTables, FatHead(l, f, next)
           PROVE  TablesOnStick'
      <4> DEFINE lo == FatStart(stick, job, f)
      <4>1. /\ pc' \in AfterTables
            /\ disk' = [a \in DOMAIN disk |-> IF a = gOffset + lo THEN "fatHead"
                                              ELSE Put(gOffset + lo, FatHeadSectors, "zero")[a]]
        BY <3>1, <3>12 DEF FatHead, Failure, Goto
      <4>2. lo \in Nat /\ (job.pt = 2 /\ Clear => lo + 64 <= limit)
        BY <2>3, <2>4, <3>3, <3>5
      <4> HIDE DEF lo
      <4>3. \A a \in {0, 1, 2, 33, stick - 33, stick - 1} :
               disk'[a] = IF gOffset + lo <= a /\ a < gOffset + lo + 64
                          THEN disk'[a] ELSE disk[a]
        BY <2>3, <2>5, <2>6, <3>1, <4>1, <4>2, PutAt DEF FatHeadSectors
      <4>4. TablesKept
        <5>1. \A a \in {0, 1, 2, 33} : disk'[a] = disk[a]
          BY <2>4, <3>1, <4>2, <4>3
        <5>2. ASSUME job.pt = 2, Clear, NEW a \in {stick - 33, stick - 1}
              PROVE  disk'[a] = disk[a]
          BY <2>3, <2>4, <3>1, <4>2, <4>3, <5>2
        <5> QED
          BY <5>1, <5>2 DEF TablesKept
      <4> QED
        BY <2>1, <2>2, <3>1, <4>1, <4>4, KeptTables
    <3>13. ASSUME NEW l, NEW f \in {0, 1}, NEW next \in AfterTables, FatRest(l, f, next)
           PROVE  TablesOnStick'
      <4> DEFINE lo == FatStart(stick, job, f)
                 n == IF F > 64 THEN F - 64 ELSE 0
      <4>1. pc' \in AfterTables /\ disk' = Put(gOffset + lo + 64, n, "zero")
        BY <3>1, <3>5, <3>13 DEF FatRest, BlockWrite, Failure, Goto, FatHeadSectors
      <4>2. lo \in Nat /\ n \in Nat /\ (job.pt = 2 /\ Clear => lo + 64 + n <= limit)
        BY <2>3, <2>4, <3>3, <3>4, <3>5
      <4> HIDE DEF lo, n
      <4>3. gOffset + lo + 64 = gOffset + (lo + 64)
        BY <2>3, <4>2
      <4>4. TablesKept
        BY <3>7, <4>1, <4>2, <4>3
      <4> QED
        BY <2>1, <2>2, <3>1, <4>1, <4>4, KeptTables
    <3>14. CASE FatHead1 \/ FatHead2
      BY <3>12, <3>14 DEF FatHead1, FatHead2, AfterTables, VolumePcs
    <3>15. CASE FatRest1 \/ FatRest2
      BY <3>13, <3>15 DEF FatRest1, FatRest2, AfterTables, VolumePcs
    <3>16. CASE FatRoot
      <4>1. pc' \in AfterTables /\ disk' = Put(gOffset + RootStart(stick, job), RootSectors(job), "root")
        BY <3>1, <3>16 DEF FatRoot, BlockWrite, Failure, EngineDone, Goto, AfterTables, VolumePcs
      <4>2. TablesKept
        BY <3>3, <3>4, <3>6, <3>7, <4>1
      <4> QED
        BY <2>1, <2>2, <3>1, <4>1, <4>2, KeptTables
    <3> QED
      BY <1>3, <2>24, <3>11, <3>14, <3>15, <3>16 DEF Step, LibusbInit, LibusbInitFails, WrapDevice,
         WrapDeviceFails, ScsiInit, TestUnitReady, ReadCapacityRejected, ReadCapacity, TooSmall,
         SizeOk, WipeMbr, WipeTail, WriteMbr, GptMbr, GptHeader, GptEntries, GptBackup,
         GptBackupHead, GptStep, SetPartition, WipeHead, WipeRest, Wiped, StartEngine, Mkfs,
         UpdateMbrType, FinalSync, Close, FatPcs, AfterBoot, AfterHead
  <2>25. CASE Close
    <3>1. pc = "close" /\ pc' = "off" /\ disk' = disk
      BY <2>25 DEF Close, Goto
    <3>2. pc \in AfterTables
      BY <3>1 DEF AfterTables, VolumePcs
    <3> QED
      BY <2>1, <2>2, <3>1, <3>2 DEF TablesOnStick, Reached, AfterTables, VolumePcs, GptPcs
  <2>26. FatBoot \/ FatBackup \/ FatInfo \/ FatHead1 \/ FatRest1 \/ FatHead2 \/ FatRest2 \/ FatRoot
            => pc \in FatPcs \ {"fatMbr"}
    BY DEF FatBoot, FatBackup, FatInfo, FatHead1, FatRest1, FatHead2, FatRest2, FatHead, FatRest,
       FatRoot, FatPcs, AfterBoot, AfterHead
  <2> QED
    BY <1>3, <2>11, <2>12, <2>13, <2>14, <2>15, <2>16, <2>17, <2>18, <2>19, <2>21, <2>22, <2>23,
       <2>24, <2>25, <2>26 DEF Step
<1> QED
  BY <1>1, <1>2, <1>3 DEF Next

\* At the end of every session that reports success and in which nothing failed,
\* the MBR and the GPT at the front of the stick are complete, whatever the wipe of
\* the partition head and the engine write after them; so is the GPT backup of
\* every stick on which the two writes of fixed length do not come that far.
THEOREM TablesAlwaysSurvive == Spec => []TablesSurvive
<1>1. Init => CapacityRead /\ TablesOnStick
  <2> SUFFICES ASSUME Init PROVE CapacityRead /\ TablesOnStick
    OBVIOUS
  <2>1. pc = "off" /\ ~result
    BY DEF Init
  <2> QED
    BY <2>1 DEF CapacityRead, BeforeSize, TablesOnStick, Reached, AfterTables, VolumePcs, GptPcs
<1>2. SInv /\ OwnWay /\ TablesOnStick => TablesSurvive
  <2> SUFFICES ASSUME SInv, OwnWay, TablesOnStick, Succeeded
               PROVE  /\ job.pt = 1 => disk[0] = "mbr"
                      /\ job.pt = 2 => /\ disk[0] = "pmbr" /\ disk[1] = "gptHeader"
                                       /\ disk[2] = "gptEntries" /\ disk[33] = "gptEntries"
                      /\ job.pt = 2 /\ BackupOutOfReach =>
                            /\ disk[GptBackupEntries(stick)] = "gptEntries"
                            /\ disk[GptBackupHeader(stick)] = "gptHeader"
    BY DEF TablesSurvive
  <2>1. pc = "off" /\ result /\ ~spoiled /\ gOffset = Offset(job)
    BY DEF Succeeded, OwnWay
  <2>2. BackupOutOfReach => Clear
    BY <2>1 DEF BackupOutOfReach, Clear, GptBackupEntries
  <2> QED
    BY <2>1, <2>2 DEF TablesOnStick, Reached, GptBackupEntries, GptBackupHeader
<1> QED
  BY <1>1, <1>2, SessionInvariance, InitOnStick, NextCapacityRead, NextSampled, NextOwnWay,
     NextTables, PTL DEF Spec

-----------------------------------------------------------------------------
(* The FAT volume.                                                          *)

\* The structures of a FAT volume lie one behind the other, and are landmarks.
LEMMA FatSectorsOnStick ==
    ASSUME SInv, Sampled, sessions > 0, IsFat(job), Fits(stick, job)
    PROVE  LET off == Offset(job)
               F == FatSectors(stick, job)
               R == FatReserved(job)
           IN  /\ off \in Nat /\ F \in Nat \ {0} /\ R \in {8, 32}
               /\ FatStart(stick, job, 0) = R /\ FatStart(stick, job, 1) = R + F
               /\ RootStart(stick, job) = R + 2 * F /\ FatLoopSectors(stick, job) = F
               /\ {off, off + 1, off + 6, off + R, off + (R + F), off + (R + 2 * F)}
                     \subseteq DOMAIN disk
<1> DEFINE off == Offset(job)
           F == FatSectors(stick, job)
           R == FatReserved(job)
           t == FatRoom(stick, job)
<1>1. stick \in Nat /\ job \in Job /\ t \in Nat /\ t > 2 /\ (stick - 1) \div 65536 < 65536
  BY SessionRoom
<1>2. F \in Nat \ {0} /\ 2 * F < t
  BY <1>1, FatShort
<1>3. R \in {8, 32} /\ off \in Nat /\ RootSectors(job) \in Nat
  BY DEF FatReserved, Offset, RootSectors
<1>4. t + R + RootSectors(job) <= stick - off
  BY <1>1, <1>3 DEF FatRoom, FatUsable
<1>5. /\ FatStart(stick, job, 0) = R /\ FatStart(stick, job, 1) = R + F
      /\ RootStart(stick, job) = R + 2 * F /\ FatLoopSectors(stick, job) = F
  BY <1>1, NothingWraps
<1>9. FatAt(stick, job, 0) = R /\ FatAt(stick, job, 1) = R + F /\ RootAt(stick, job) = R + 2 * F
  BY <1>2, <1>3 DEF FatAt, RootAt
<1>6. {off, off + 1, off + 6, off + R, off + (R + F), off + (R + 2 * F)} \subseteq Landmarks(stick, job)
  <2>1. {off, off + 1, off + 6} \subseteq Landmarks(stick, job)
    BY DEF Landmarks
  <2>2. {off + FatAt(stick, job, 0), off + FatAt(stick, job, 1), off + RootAt(stick, job)}
           \subseteq Landmarks(stick, job)
    BY DEF Landmarks
  <2> QED
    BY <1>9, <2>1, <2>2
<1> HIDE DEF off, F, R, t
<1>7. \A a \in {off, off + 1, off + 6, off + R, off + (R + F), off + (R + 2 * F)} : 0 <= a /\ a < stick
  BY <1>1, <1>2, <1>3, <1>4
<1>8. {off, off + 1, off + 6, off + R, off + (R + F), off + (R + 2 * F)} \subseteq DOMAIN disk
  BY <1>6, <1>7 DEF Sampled
<1> QED
  BY <1>2, <1>3, <1>5, <1>8 DEF off, F, R

\* Every step keeps the FAT structures written so far.
LEMMA NextFat ==
    SInv /\ CapacityRead /\ Sampled /\ OwnWay /\ FatOnStick /\ [Next]_vars => FatOnStick'
<1> SUFFICES ASSUME SInv, CapacityRead, Sampled, OwnWay, FatOnStick, [Next]_vars
             PROVE  FatOnStick'
  OBVIOUS
<1>1. CASE Begin
  BY <1>1 DEF Begin, Goto, FatOnStick, Reached, AfterBoot, AfterHead
<1>2. CASE UNCHANGED vars
  BY <1>2 DEF vars, FatOnStick, Reached
<1>3. CASE Step
  <2> SUFFICES ASSUME ~spoiled', IsFat(job') PROVE FatOnStick'
    BY DEF FatOnStick
  <2>1. stick' = stick /\ job' = job /\ IsFat(job)
    BY <1>3, StepFrame
  <2>2. ~spoiled
    BY <1>3, SpoiledStays
  <2>3. CASE pc' \notin FatPcs \cup {"sync", "close"} /\ ~(pc' = "off" /\ result')
    BY <2>3 DEF FatOnStick, Reached, FatPcs, AfterBoot, AfterHead
  <2>4. CASE StartEngine \/ UpdateMbrType
    <3>1. pc' \in {"mkfs", "fatMbr", "fatBoot"}
      BY <2>4 DEF StartEngine, UpdateMbrType, Goto
    <3> QED
      BY <3>1 DEF FatOnStick, Reached, AfterBoot, AfterHead
  <2>5. CASE FinalSync \/ Close
    <3>1. disk' = disk /\ pc \in {"sync", "close"}
      BY <2>5 DEF FinalSync, Close
    <3> QED
      BY <2>1, <2>2, <3>1 DEF FatOnStick, Reached, AfterBoot, AfterHead
  <2>6. CASE pc \in FatPcs \ {"fatMbr"} /\ ~FatBootFails
    <3> DEFINE off == Offset(job)
               F == FatSectors(stick, job)
               R == FatReserved(job)
               Marks == {off, off + 1, off + 6, off + R, off + (R + F), off + (R + 2 * F)}
    <3>1. /\ gSectorCount = stick /\ gOffset = off /\ sessions > 0 /\ Fits(stick, job)
      <4>1. pc \notin BeforeSize /\ pc \in VolumePcs /\ pc # "off"
        BY <2>6 DEF FatPcs, AfterBoot, AfterHead, BeforeSize, VolumePcs
      <4> QED
        BY <2>2, <4>1 DEF CapacityRead, SInv, Capacity, Sized, Sampled
    <3>2. /\ off \in Nat /\ F \in Nat \ {0} /\ R \in {8, 32}
          /\ FatStart(stick, job, 0) = R /\ FatStart(stick, job, 1) = R + F
          /\ RootStart(stick, job) = R + 2 * F /\ FatLoopSectors(stick, job) = F
          /\ Marks \subseteq DOMAIN disk
      BY <2>1, <3>1, FatSectorsOnStick
    <3>3. job.fs = 1 => R = 32
      BY DEF FatReserved
    <3> DEFINE Boot == disk[off] = "boot"
               Backup == job.fs = 1 => disk[off + 6] = "boot"
               Info == job.fs = 1 => disk[off + 1] = "fsinfo"
               Fat1 == disk[off + R] = "fatHead"
               Fat2 == disk[off + (R + F)] = "fatHead"
               Root == job.fs # 1 => disk[off + (R + 2 * F)] = "root"
    <3>4. /\ pc \in {"fatBackup", "fatInfo"} \cup AfterBoot => Boot
          /\ pc \in {"fatInfo"} \cup AfterBoot => Backup
          /\ pc \in AfterBoot => Info
          /\ pc \in AfterHead => Fat1
          /\ pc \in {"fatRest2", "fatRoot", "sync", "close"} => Fat2
      BY <2>1, <2>2, <3>2 DEF FatOnStick, Reached
    <3>5. ASSUME pc' # "off",
                 pc' \in {"fatBackup", "fatInfo"} \cup AfterBoot => Boot',
                 pc' \in {"fatInfo"} \cup AfterBoot => Backup',
                 pc' \in AfterBoot => Info',
                 pc' \in AfterHead => Fat1',
                 pc' \in {"fatRest2", "fatRoot", "sync", "close"} => Fat2',
                 pc' \in {"sync", "close"} => Root'
          PROVE  FatOnStick'
      BY <2>1, <3>1, <3>2, <3>5 DEF FatOnStick, Reached
    <3> HIDE DEF off, F, R
    <3>6. ASSUME NEW lo \in Nat, NEW n \in Nat, NEW tag, disk' = Put(lo, n, tag)
          PROVE  \A a \in Marks : disk'[a] = IF lo <= a /\ a < lo + n THEN tag ELSE disk[a]
      BY <3>2, <3>6, PutAt
    <3>7. \A a \in Marks : a \in Nat
      BY <3>2
    <3>8. off' = off /\ R' = R /\ F' = F
      BY <2>1 DEF off, R, F
    <3>11. CASE FatBoot
      <4>1. /\ pc' = IF job.fs = 1 THEN "fatBackup" ELSE "fatHead1"
            /\ disk' = Put(off, 1, "boot")
        BY <3>1, <3>11 DEF FatBoot, BlockWrite, Failure, Goto
      <4>2. disk'[off] = "boot"
        BY <3>2, <3>6, <4>1
      <4> QED
        BY <2>1, <3>5, <3>8, <4>1, <4>2 DEF AfterBoot, AfterHead
    <3>12. CASE FatBackup
      <4>1. pc = "fatBackup" /\ pc' = "fatInfo" /\ disk' = Put(off + 6, 1, "boot")
        BY <3>1, <3>12 DEF FatBackup, BlockWrite, Failure, Goto
      <4>2. disk'[off + 6] = "boot" /\ disk'[off] = disk[off]
        BY <3>2, <3>6, <4>1
      <4> QED
        BY <2>1, <3>4, <3>5, <3>8, <4>1, <4>2 DEF AfterBoot, AfterHead
    <3>13. CASE FatInfo
      <4>1. pc = "fatInfo" /\ pc' = "fatHead1" /\ disk' = Put(off + 1, 1, "fsinfo")
        BY <3>1, <3>13 DEF FatInfo, BlockWrite, Failure, Goto
      <4>2. disk'[off + 1] = "fsinfo" /\ disk'[off] = disk[off] /\ disk'[off + 6] = disk[off + 6]
        BY <3>2, <3>6, <4>1
      <4> QED
        BY <2>1, <3>4, <3>5, <3>8, <4>1, <4>2 DEF AfterBoot, AfterHead
    <3>14. ASSUME NEW l, NEW f \in {0, 1}, NEW next, FatHead(l, f, next)
           PROVE  LET at == off + FatStart(stick, job, f) IN
                  /\ pc = l /\ pc' = next
                  /\ \A a \in Marks :
                        disk'[a] = IF a = at THEN "fatHead"
                                   ELSE IF at <= a /\ a < at + 64 THEN "zero" ELSE disk[a]
      BY <3>1, <3>2, <3>14, PutAt DEF FatHead, Failure, Goto, FatHeadSectors
    <3>15. CASE FatHead1
      <4>1. /\ pc = "fatHead1" /\ pc' = "fatRest1"
            /\ \A a \in Marks :
                  disk'[a] = IF a = off + R THEN "fatHead"
                             ELSE IF off + R <= a /\ a < off + R + 64 THEN "zero" ELSE disk[a]
        BY <3>2, <3>14, <3>15 DEF FatHead1
      <4>2. disk'[off] = disk[off] /\ disk'[off + R] = "fatHead"
        BY <3>2, <4>1
      <4>3. disk'[off + 6] = disk[off + 6] /\ disk'[off + 1] = disk[off + 1]
        BY <3>2, <4>1
      <4> QED
        BY <2>1, <3>4, <3>5, <3>8, <4>1, <4>2, <4>3 DEF AfterBoot, AfterHead
    <3>16. CASE FatHead2
      <4>1. /\ pc = "fatHead2" /\ pc' = "fatRest2"
            /\ \A a \in Marks :
                  disk'[a] = IF a = off + (R + F) THEN "fatHead"
                             ELSE IF off + (R + F) <= a /\ a < off + (R + F) + 64
                             THEN "zero" ELSE disk[a]
        BY <3>2, <3>14, <3>16, ZenonT(40) DEF FatHead2
      <4>2. disk'[off] = disk[off] /\ disk'[off + R] = disk[off + R]
        BY <3>2, <4>1
      <4>3. /\ disk'[off + 6] = disk[off + 6] /\ disk'[off + 1] = disk[off + 1]
            /\ disk'[off + (R + F)] = "fatHead"
        BY <3>2, <4>1
      <4> QED
        BY <2>1, <3>4, <3>5, <3>8, <4>1, <4>2, <4>3 DEF AfterBoot, AfterHead
    <3>17. ASSUME NEW l, NEW f \in {0, 1}, NEW next, FatRest(l, f, next)
           PROVE  LET at == off + FatStart(stick, job, f)
                      n == IF F > 64 THEN F - 64 ELSE 0
                  IN  /\ pc = l /\ pc' = next
                      /\ \A a \in Marks :
                            disk'[a] = IF at + 64 <= a /\ a < at + 64 + n THEN "zero" ELSE disk[a]
      BY <3>1, <3>2, <3>17, PutAt DEF FatRest, BlockWrite, Failure, Goto, FatHeadSectors
    <3>18. CASE FatRest1
      <4>1. /\ pc = "fatRest1" /\ pc' = "fatHead2"
            /\ \A a \in Marks :
                  disk'[a] = IF off + R + 64 <= a
                                /\ a < off + R + 64 + (IF F > 64 THEN F - 64 ELSE 0)
                             THEN "zero" ELSE disk[a]
        <5> HIDE DEF Marks
        <5>1. FatRest("fatRest1", 0, "fatHead2") /\ 0 \in {0, 1}
          BY <3>18 DEF FatRest1
        <5>2. /\ pc = "fatRest1" /\ pc' = "fatHead2"
              /\ \A a \in Marks :
                    disk'[a] = IF off + FatStart(stick, job, 0) + 64 <= a
                                  /\ a < off + FatStart(stick, job, 0) + 64
                                             + (IF F > 64 THEN F - 64 ELSE 0)
                               THEN "zero" ELSE disk[a]
          BY <3>17, <5>1
        <5>3. FatStart(stick, job, 0) = R
          BY <3>2
        <5> QED
          BY <5>2, <5>3
      <4>2. disk'[off] = disk[off] /\ disk'[off + R] = disk[off + R]
        BY <3>2, <4>1
      <4>3. disk'[off + 6] = disk[off + 6] /\ disk'[off + 1] = disk[off + 1]
        BY <3>2, <4>1
      <4> QED
        BY <2>1, <3>4, <3>5, <3>8, <4>1, <4>2, <4>3 DEF AfterBoot, AfterHead
    <3>19. CASE FatRest2
      <4>1. /\ pc = "fatRest2" /\ pc' = "fatRoot"
            /\ \A a \in Marks :
                  disk'[a] = IF off + (R + F) + 64 <= a
                                /\ a < off + (R + F) + 64 + (IF F > 64 THEN F - 64 ELSE 0)
                             THEN "zero" ELSE disk[a]
        <5> HIDE DEF Marks
        <5>1. FatRest("fatRest2", 1, "fatRoot") /\ 1 \in {0, 1}
          BY <3>19 DEF FatRest2
        <5>2. /\ pc = "fatRest2" /\ pc' = "fatRoot"
              /\ \A a \in Marks :
                    disk'[a] = IF off + FatStart(stick, job, 1) + 64 <= a
                                  /\ a < off + FatStart(stick, job, 1) + 64
                                             + (IF F > 64 THEN F - 64 ELSE 0)
                               THEN "zero" ELSE disk[a]
          BY <3>17, <5>1
        <5>3. FatStart(stick, job, 1) = R + F
          BY <3>2
        <5> QED
          BY <5>2, <5>3
      <4>2. disk'[off] = disk[off] /\ disk'[off + R] = disk[off + R]
        BY <3>2, <4>1
      <4>3. /\ disk'[off + 6] = disk[off + 6] /\ disk'[off + 1] = disk[off + 1]
            /\ disk'[off + (R + F)] = disk[off + (R + F)]
        BY <3>2, <4>1
      <4> QED
        BY <2>1, <3>4, <3>5, <3>8, <4>1, <4>2, <4>3 DEF AfterBoot, AfterHead
    <3>20. CASE FatRoot
      <4> DEFINE n == RootSectors(job)
      <4>1. /\ pc = "fatRoot" /\ pc' = "sync"
            /\ disk' = Put(off + (R + 2 * F), n, "root")
        BY <3>1, <3>2, <3>20 DEF FatRoot, BlockWrite, Failure, EngineDone, Goto
      <4>2. n \in Nat /\ (job.fs # 1 => n = 32)
        BY DEF RootSectors
      <4>3. /\ disk'[off] = disk[off] /\ disk'[off + R] = disk[off + R]
            /\ disk'[off + (R + F)] = disk[off + (R + F)]
        BY <3>2, <3>6, <4>1, <4>2
      <4>4. disk'[off + 6] = disk[off + 6] /\ disk'[off + 1] = disk[off + 1]
        BY <3>2, <3>6, <4>1, <4>2
      <4>5. job.fs # 1 => disk'[off + (R + 2 * F)] = "root"
        BY <3>2, <3>6, <4>1, <4>2
      <4> QED
        BY <2>1, <3>4, <3>5, <3>8, <4>1, <4>3, <4>4, <4>5 DEF AfterBoot, AfterHead
    <3> QED
      BY <1>3, <2>6, <3>11, <3>12, <3>13, <3>15, <3>16, <3>18, <3>19, <3>20
         DEF Step, LibusbInit, LibusbInitFails, WrapDevice,
         WrapDeviceFails, ScsiInit, TestUnitReady, ReadCapacityRejected, ReadCapacity, TooSmall,
         SizeOk, WipeMbr, WipeTail, WriteMbr, GptMbr, GptHeader, GptEntries, GptBackup,
         GptBackupHead, GptStep, SetPartition, WipeHead, WipeRest, Wiped, StartEngine, Mkfs,
         UpdateMbrType, FinalSync, Close, FatPcs, AfterBoot, AfterHead
  <2>7. ~FatBootFails
    BY DEF FatBootFails, Failure
  <2>8. ~Mkfs
    BY <2>1 DEF Mkfs, OwnWay
  <2>9. CASE pc \notin FatPcs \ {"fatMbr"} /\ ~StartEngine /\ ~UpdateMbrType /\ ~FinalSync /\ ~Close
    <3>1. pc' \notin FatPcs \cup {"sync", "close"}
      BY <1>3, <2>7, <2>8, <2>9 DEF Step, LibusbInit, LibusbInitFails, WrapDevice, WrapDeviceFails,
         ScsiInit, TestUnitReady, ReadCapacityRejected, ReadCapacity, InitReturns, TooSmall, Bail,
         SizeOk, WipeMbr, WipeTail, WriteMbr, GptMbr, GptHeader, GptEntries, GptBackup,
         GptBackupHead, GptStep, SetPartition, WipeHead, WipeRest, Wiped, FatBoot, FatBackup,
         FatInfo, FatHead1, FatRest1, FatHead2, FatRest2, FatHead, FatRest, FatRoot, Goto,
         FatPcs, AfterBoot, AfterHead
    <3>2. ~(pc' = "off" /\ result')
      BY <1>3, <2>7, <2>8, <2>9 DEF Step, LibusbInit, LibusbInitFails, WrapDevice, WrapDeviceFails,
         ScsiInit, TestUnitReady, ReadCapacityRejected, ReadCapacity, InitReturns, TooSmall, Bail,
         SizeOk, WipeMbr, WipeTail, WriteMbr, GptMbr, GptHeader, GptEntries, GptBackup,
         GptBackupHead, GptStep, SetPartition, WipeHead, WipeRest, Wiped, FatBoot, FatBackup,
         FatInfo, FatHead1, FatRest1, FatHead2, FatRest2, FatHead, FatRest, FatRoot, Goto,
         FatPcs, AfterBoot, AfterHead
    <3> QED
      BY <2>3, <3>1, <3>2
  <2> QED
    BY <2>4, <2>5, <2>6, <2>7, <2>9
<1> QED
  BY <1>1, <1>2, <1>3 DEF Next

\* A length that fits in the field of the boot record is the one it gives.
LEMMA FatLengthSaid ==
    ASSUME NEW d, NEW j, FatSectors(d, j) \in Nat, j.fs = 1 \/ FatSectors(d, j) < 65536
    PROVE  BpbFatSectors(d, j) = FatSectors(d, j)
<1> DEFINE n == FatSectors(d, j)
<1>1. BpbFatSectors(d, j) = IF j.fs = 1 THEN n ELSE n % 65536
  BY DEF BpbFatSectors
<1> HIDE DEF n
<1>2. n \in Nat /\ n < 65536 => n % 65536 = n
  OBVIOUS
<1> QED
  BY <1>1, <1>2 DEF n

\* A FAT format that reports success, nothing having failed, leaves boot sector,
\* FSInfo, both FAT headers and the root directory where the boot sector says, for
\* every stick and cluster size and however short the FATs are.
THEOREM FatStaysIntact == Spec => []FatStructuresIntact
<1>1. Init => CapacityRead /\ FatOnStick
  <2> SUFFICES ASSUME Init PROVE CapacityRead /\ FatOnStick
    OBVIOUS
  <2>1. pc = "off" /\ ~result
    BY DEF Init
  <2> QED
    BY <2>1 DEF CapacityRead, BeforeSize, FatOnStick, Reached, AfterBoot, AfterHead
<1>2. SInv /\ Sampled /\ OwnWay /\ FatOnStick => FatStructuresIntact
  <2> SUFFICES ASSUME SInv, Sampled, OwnWay, FatOnStick, Succeeded, IsFat(job)
               PROVE  /\ disk[gOffset] = "boot"
                      /\ job.fs = 1 => disk[gOffset + 1] = "fsinfo" /\ disk[gOffset + 6] = "boot"
                      /\ \A f \in 0 .. 1 : disk[gOffset + FatAt(stick, job, f)] = "fatHead"
                      /\ job.fs = 1 \/ FatSectors(stick, job) < 65536 =>
                            disk[gOffset + FatReserved(job) + BpbFatSectors(stick, job)] = "fatHead"
                      /\ job.fs # 1 => disk[gOffset + RootAt(stick, job)] = "root"
    BY DEF FatStructuresIntact
  <2>1. pc = "off" /\ result /\ ~spoiled /\ sessions > 0 /\ gOffset = Offset(job)
    BY DEF Succeeded, OwnWay
  <2>2. /\ disk[gOffset] = "boot" /\ Fits(stick, job)
        /\ job.fs = 1 => disk[gOffset + 1] = "fsinfo" /\ disk[gOffset + 6] = "boot"
        /\ disk[gOffset + FatStart(stick, job, 0)] = "fatHead"
        /\ disk[gOffset + FatStart(stick, job, 1)] = "fatHead"
        /\ job.fs # 1 => disk[gOffset + RootStart(stick, job)] = "root"
    BY <2>1 DEF FatOnStick, Reached
  <2>3. /\ Offset(job) \in Nat /\ FatSectors(stick, job) \in Nat /\ FatReserved(job) \in Nat
        /\ FatStart(stick, job, 0) = FatReserved(job)
        /\ FatStart(stick, job, 1) = FatReserved(job) + FatSectors(stick, job)
        /\ RootStart(stick, job) = FatReserved(job) + 2 * FatSectors(stick, job)
    BY <2>1, <2>2, FatSectorsOnStick
  <2>4. job.fs = 1 \/ FatSectors(stick, job) < 65536 =>
           gOffset + FatReserved(job) + BpbFatSectors(stick, job)
               = gOffset + FatStart(stick, job, 1)
    <3>1. job.fs = 1 \/ FatSectors(stick, job) < 65536 => BpbFatSectors(stick, job) = FatSectors(stick, job)
      BY <2>3, FatLengthSaid
    <3>2. gOffset \in Nat
      BY <2>1, <2>3
    <3> QED
      BY <2>3, <3>1, <3>2
  <2>5. /\ FatAt(stick, job, 0) = FatStart(stick, job, 0)
        /\ FatAt(stick, job, 1) = FatStart(stick, job, 1)
        /\ RootAt(stick, job) = RootStart(stick, job)
    <3> DEFINE F == FatSectors(stick, job)
               R == FatReserved(job)
    <3>1. FatAt(stick, job, 0) = R + 0 * F /\ FatAt(stick, job, 1) = R + 1 * F /\ RootAt(stick, job) = R + 2 * F
      BY DEF FatAt, RootAt
    <3>2. F \in Nat /\ R \in Nat
      BY <2>3
    <3> HIDE DEF F, R
    <3>3. R + 0 * F = R /\ R + 1 * F = R + F
      BY <3>2
    <3> QED
      BY <2>3, <3>1, <3>3 DEF F, R
  <2>6. \A f \in 0 .. 1 : f = 0 \/ f = 1
    OBVIOUS
  <2> QED
    BY <2>2, <2>4, <2>5, <2>6
<1> QED
  BY <1>1, <1>2, SessionInvariance, InitOnStick, NextCapacityRead, NextSampled, NextOwnWay,
     NextFat, PTL DEF Spec

=============================================================================
