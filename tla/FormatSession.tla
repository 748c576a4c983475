---------------------------- MODULE FormatSession ----------------------------
(***************************************************************************)
(* startStableFormat (native-lib.cpp): one format job after another, each  *)
(* on the stick that is plugged in, over the driver's global variables.    *)
(*                                                                         *)
(* The medium is sampled: of its sectors only the landmarks of the job     *)
(* (first and last sectors of every structure) are kept, each with what    *)
(* was last written there.  A raw write is one SCSI command; a block write *)
(* goes through the write cache, so its failure is silent (UsbScsiIo).     *)
(***************************************************************************)
EXTENDS DiskLayout, FiniteSets

CONSTANTS
    Sticks,       \* sector counts of the sticks
    Jobs,         \* what the user may choose
    Wakes,        \* how many commands a stick rejects before it is ready
    MaxSessions,  \* bound: calls of startStableFormat
    MaxFaults     \* bound: failing commands and allocations, in all sessions

ASSUME SessionAssumption ==
    /\ Sticks \subseteq Nat \ {0} /\ Jobs \subseteq Job /\ Wakes \subseteq Nat
    \* READ CAPACITY(10) answers with the last sector in 32 bits: 2^32 at most.
    /\ \A d \in Sticks : (d - 1) \div 65536 < 65536
    /\ MaxSessions \in Nat /\ MaxFaults \in Nat

\* Large enough for the reserved sectors of a FAT volume, its root directory, one
\* sector of each FAT and one of data: below that the unsigned subtractions of
\* usb_scsi_format_fat wrap around, or the volume has no cluster.
ASSUME FatVolumeAssumption ==
    \A d \in Sticks, j \in Jobs :
        IsFat(j) /\ Fits(d, j) => FatUsable(d, j) > FatReserved(j) + RootSectors(j) + 2

VARIABLES
    stick, job,      \* the stick plugged in and the job of this session
    disk,            \* landmark -> what it holds
    gSectorCount,    \* g_sector_count (0 before the first session)
    gOffset,         \* g_drive_offset_sectors
    gPart,           \* g_partition_sectors
    gType,           \* g_partition_type
    part,            \* part_sectors
    pc,              \* next step; "off" before and between sessions
    slow, rejected,  \* stick: commands it rejects at first, and has rejected so far
    tries,           \* loop counter of usb_scsi_init
    progress,        \* last value given to report_progress_to_java
    formatRes,
    held,            \* of ctx, dev_handle, g_service_obj and path: the ones not given back
    result,          \* JNI_TRUE or JNI_FALSE
    known,           \* history: READ CAPACITY has succeeded in this session
    spoiled,         \* history: something failed in this session
    sessions, faults

drvVars == <<gSectorCount, gOffset, gPart, gType>>
vars == <<stick, job, disk, drvVars, part, pc, slow, rejected, tries, progress, formatRes,
          held, result, known, spoiled, sessions, faults>>

-----------------------------------------------------------------------------
(* The medium.                                                              *)

\* First and last sectors of everything a session writes.
Landmarks(d, j) ==
    LET off == Offset(j)
        p == PartSectors(d, j)
        fat == IF IsFat(j) THEN {FatAt(d, j, 0), FatAt(d, j, 1), RootAt(d, j),
                                 FatReserved(j) + BpbFatSectors(d, j)} ELSE {}
    IN  {0, 1, 2, 33, off, off + 1, off + 6, off + p - 1, off + p, d - 34, d - 33, d - 1}
            \cup {off + o : o \in fat}

Fresh(d, j) == [a \in {l \in Landmarks(d, j) : 0 <= l /\ l < d} |-> "old"]

\* n sectors from lo, written with tag.
Put(lo, n, tag) == [a \in DOMAIN disk |-> IF lo <= a /\ a < lo + n THEN tag ELSE disk[a]]

Failure == faults < MaxFaults /\ faults' = faults + 1 /\ spoiled' = TRUE
NoFailure == UNCHANGED <<faults, spoiled>>

\* n commands of one sector each.  The stick rejects what is not on it; a
\* command that fails may still have written its sector.
OnStick(lo, n) == IF lo >= stick THEN 0 ELSE SmallerOf(n, stick - lo)
RawOk(lo, n, tag) == lo + n <= stick /\ disk' = Put(lo, n, tag) /\ NoFailure
RawFails(lo, n, tag) ==
    \/ lo + n > stick /\ disk' = Put(lo, OnStick(lo, n), tag) /\ NoFailure
    \/ Failure /\ \E k \in 0 .. OnStick(lo, n) : disk' = Put(lo, k, tag)

\* A write through the cache: lands, or is lost without anyone being told.
BlockWrite(lo, n, tag) ==
    \/ disk' = Put(lo, n, tag) /\ NoFailure
    \/ Failure /\ UNCHANGED disk

-----------------------------------------------------------------------------
Report(p) == progress' = p
Goto(l) == pc' = l

Keep == UNCHANGED <<stick, job, sessions, slow, rejected, tries>>
KeepDriver == UNCHANGED drvVars
KeepOutcome == UNCHANGED <<formatRes, result, known>>

\* The user starts a job on whatever stick is plugged in.
Begin ==
    /\ pc = "off" /\ sessions < MaxSessions
    /\ stick' \in Sticks /\ job' \in Jobs
    /\ disk' = Fresh(stick', job')
    /\ held' = held \cup {"svc", "path"} /\ progress' = 2
    /\ part' = 0 /\ formatRes' = -1 /\ known' = FALSE /\ spoiled' = FALSE
    /\ sessions' = sessions + 1
    /\ Goto("libusb")
    /\ UNCHANGED <<drvVars, result, faults, slow, rejected, tries>>

\* An early return: JNI_FALSE, after giving back only what it names.
Bail(freed) ==
    /\ result' = FALSE /\ Goto("off") /\ held' = held \ freed
    /\ UNCHANGED <<disk, drvVars, part, progress, formatRes, known>> /\ Keep

LibusbInit ==
    /\ pc = "libusb" /\ held' = held \cup {"ctx"} /\ Report(5) /\ Goto("wrap")
    /\ NoFailure
    /\ UNCHANGED <<disk, part>> /\ Keep /\ KeepDriver /\ KeepOutcome

LibusbInitFails == pc = "libusb" /\ Failure /\ Bail({"svc"})

WrapDevice ==
    /\ pc = "wrap" /\ held' = held \cup {"handle"} /\ Report(10) /\ Goto("init")
    /\ NoFailure
    /\ UNCHANGED <<disk, part>> /\ Keep /\ KeepDriver /\ KeepOutcome

\* Mutated form: the context is not given back.
WrapDeviceFailsLeaks == pc = "wrap" /\ Failure /\ Bail({"svc"})

WrapDeviceFails == pc = "wrap" /\ Failure /\ Bail({"ctx", "svc"})

(* usb_scsi_init.  It has no result: each of its ends leads on, and those   *)
(* before READ CAPACITY worked leave the g_sector_count of the last stick.  *)

InitReturns == Report(12) /\ Goto("size") /\ slow' = 0 /\ rejected' = 0 /\ tries' = 0

\* The globals it resets, the descriptors and the endpoints, and INQUIRY, which
\* only goes to the log.  A stick just plugged in may reject the next commands.
ScsiInit ==
    /\ pc = "init"
    /\ gOffset' = 0 /\ gPart' = 0 /\ gType' = 0
    /\ \/ /\ slow' \in Wakes /\ rejected' = 0 /\ tries' = 0
          /\ Goto("ready") /\ NoFailure /\ UNCHANGED progress
       \/ InitReturns /\ Failure
    /\ UNCHANGED <<stick, job, sessions, disk, gSectorCount, part, held, formatRes, result, known>>

Rejects == rejected < slow
Rejected == rejected' = rejected + 1 /\ UNCHANGED slow

\* What the two loops of commands leave alone.
KeepInit == UNCHANGED <<stick, job, sessions, disk, gOffset, gPart, gType, part, held, formatRes, result>>

\* TEST UNIT READY, three times at most; what comes of it is not looked at.
TestUnitReady ==
    /\ pc = "ready"
    /\ \/ Rejects /\ Rejected /\ tries < 2 /\ tries' = tries + 1 /\ UNCHANGED pc
       \/ Rejects /\ Rejected /\ tries >= 2 /\ tries' = 0 /\ Goto("capacity")
       \/ ~Rejects /\ tries' = 0 /\ Goto("capacity") /\ UNCHANGED <<slow, rejected>>
    /\ NoFailure /\ UNCHANGED <<gSectorCount, known, progress>> /\ KeepInit

\* Mutated form: the last of the five attempts is not made.
ReadCapacityRejectedEarly ==
    /\ pc = "capacity" /\ Rejects
    /\ \/ tries < 3 /\ Rejected /\ tries' = tries + 1
          /\ NoFailure /\ UNCHANGED <<pc, progress>>
       \/ tries >= 3 /\ InitReturns /\ spoiled' = TRUE /\ UNCHANGED faults
    /\ UNCHANGED <<gSectorCount, known>> /\ KeepInit

\* READ CAPACITY is tried five times.
ReadCapacityRejected ==
    /\ pc = "capacity" /\ Rejects
    /\ \/ tries < 4 /\ Rejected /\ tries' = tries + 1
          /\ NoFailure /\ UNCHANGED <<pc, progress>>
       \/ tries >= 4 /\ InitReturns /\ spoiled' = TRUE /\ UNCHANGED faults
    /\ UNCHANGED <<gSectorCount, known>> /\ KeepInit

ReadCapacity ==
    /\ pc = "capacity" /\ ~Rejects
    /\ gSectorCount' = stick /\ known' = TRUE
    /\ InitReturns /\ NoFailure /\ KeepInit

TooSmall ==
    /\ pc = "size" /\ ~Fits(gSectorCount, job)
    /\ NoFailure /\ Bail({"handle", "ctx", "svc"})

SizeOk ==
    /\ pc = "size" /\ Fits(gSectorCount, job)
    /\ part' = PartSectors(gSectorCount, job)
    /\ gType' = job.pt
    /\ Goto("wipeMbr") /\ NoFailure
    /\ UNCHANGED <<disk, gSectorCount, gOffset, gPart, progress, held>> /\ Keep /\ KeepOutcome
-----------------------------------------------------------------------------
(* Wipes and tables.  Their results are ignored: each step goes on to the   *)
(* next one whether its commands worked or not.                             *)

\* What every step from here to the engines leaves alone.
Quiet == UNCHANGED <<drvVars, part, held>> /\ Keep /\ KeepOutcome

\* usb_scsi_wipe_mbr: sixteen commands of 128 sectors; the first that fails ends it.
WipeMbr ==
    /\ pc = "wipeMbr"
    /\ LET n == SmallerOf(16, stick \div 128) IN
       \/ disk' = Put(0, 128 * n, "zero") /\ NoFailure
       \/ Failure /\ \E k \in 0 .. n : disk' = Put(0, 128 * k, "zero")
    /\ Goto("wipeTail") /\ UNCHANGED progress /\ Quiet

\* usb_scsi_wipe_tail: sector by sector from the last one down.
WipeTail ==
    /\ pc = "wipeTail"
    /\ LET n == IF gSectorCount <= stick THEN gSectorCount - TailStart(gSectorCount) ELSE 0 IN
       \/ disk' = Put(gSectorCount - n, n, "zero") /\ NoFailure
       \/ Failure /\ \E k \in 0 .. n : disk' = Put(gSectorCount - k, k, "zero")
    /\ Report(15) /\ Quiet
    /\ Goto(CASE job.pt = 1 -> "mbr" [] job.pt = 2 -> "gptMbr" [] OTHER -> "setPart")

WriteMbr ==
    /\ pc = "mbr" /\ Goto("setPart")
    /\ RawOk(0, 1, "mbr") \/ RawFails(0, 1, "mbr")
    /\ UNCHANGED progress /\ Quiet

\* usb_scsi_write_gpt: a failure of the primary table ends it, a failure of the
\* backup does not.
GptStep(l, lo, n, tag, next, onFailure) ==
    /\ pc = l
    /\ \/ RawOk(lo, n, tag) /\ Goto(next)
       \/ RawFails(lo, n, tag) /\ Goto(onFailure)
    /\ UNCHANGED progress /\ Quiet

GptMbr == GptStep("gptMbr", 0, 1, "pmbr", "gptHeader", "setPart")
GptHeader == GptStep("gptHeader", 1, 1, "gptHeader", "gptEntries", "setPart")

GptEntries == GptStep("gptEntries", 2, 32, "gptEntries", "gptBackup", "setPart")

GptBackup ==
    GptStep("gptBackup", GptBackupEntries(gSectorCount), 32, "gptEntries",
            "gptBackupHeader", "gptBackupHeader")
GptBackupHead ==
    GptStep("gptBackupHeader", GptBackupHeader(gSectorCount), 1, "gptHeader",
            "setPart", "setPart")

\* Mutated form: the offset is left at 0.
SetPartitionNoOffset ==
    /\ pc = "setPart" /\ gPart' = part
    /\ Goto("wipeHead")
    /\ NoFailure
    /\ UNCHANGED <<disk, gSectorCount, gOffset, gType, part, progress, held>>
    /\ Keep /\ KeepOutcome

SetPartition ==
    /\ pc = "setPart" /\ gOffset' = Offset(job) /\ gPart' = part
    /\ Goto("wipeHead")
    /\ NoFailure
    /\ UNCHANGED <<disk, gSectorCount, gType, part, progress, held>>
    /\ Keep /\ KeepOutcome

\* Mutated form: the callback counts from 0 to 100.
WipePercentFull(i, n) == (i * 100) \div n

\* The callback of usb_scsi_wipe_partition_head for chunk i of n (256 KB each).
WipePercent(i, n) == 20 + (i * 30) \div n

Chunks == WipeSectors(job) \div 512

\* usb_scsi_wipe_partition_head.  Without memory it writes and reports nothing.
WipeHead ==
    /\ pc = "wipeHead"
    /\ \/ NoFailure /\ Report(WipePercent(0, Chunks)) /\ Goto("wipeRest")
       \/ Failure /\ UNCHANGED progress /\ Goto("wiped")
    /\ UNCHANGED disk /\ Quiet

\* All chunks and the sync after them; at most one flush of the cache is lost.
WipeRest ==
    /\ pc = "wipeRest"
    /\ LET reach == WipeReach(stick, job) IN
       \/ disk' = Put(gOffset, reach, "zero") /\ NoFailure
       \/ /\ Failure
          /\ \E b \in 0 .. (reach \div CacheBlock) - 1 :
                disk' = [a \in DOMAIN disk |->
                    IF (a - gOffset) \div CacheBlock # b
                    THEN Put(gOffset, reach, "zero")[a] ELSE disk[a]]
    /\ Report(WipePercent(Chunks - 1, Chunks))
    /\ Goto("wiped") /\ Quiet

Wiped ==
    /\ pc = "wiped" /\ Goto("engine") /\ Report(50)
    /\ NoFailure /\ UNCHANGED disk /\ Quiet

-----------------------------------------------------------------------------
(* The engines.                                                             *)

StartEngine ==
    /\ pc = "engine" /\ Goto(CASE ~IsFat(job) -> "mkfs"
                                     [] IsFat(job) /\ gType = 1 -> "fatMbr"
                                     [] OTHER -> "fatBoot")
    /\ Report(55) /\ NoFailure /\ UNCHANGED disk /\ Quiet

EngineDone(r) ==
    /\ formatRes' = r /\ Goto("sync") /\ Report(90)
    /\ UNCHANGED <<drvVars, part, held, result, known>> /\ Keep

\* The vendored tools: they write inside the volume they were given.
Mkfs ==
    /\ pc = "mkfs"
    /\ \/ disk' = Put(gOffset, part, "fs") /\ NoFailure /\ EngineDone(0)
       \/ Failure /\ disk' = Put(gOffset, 1, "fs") /\ EngineDone(0)   \* a flush was lost
       \/ Failure /\ UNCHANGED disk /\ EngineDone(1)

\* usb_scsi_format_fat.  update_mbr_type changes the type byte of the table, if
\* it finds one; its result is ignored.
UpdateMbrType ==
    /\ pc = "fatMbr" /\ Goto("fatBoot")
    /\ \/ disk[0] = "mbr" /\ disk' = Put(0, 1, "mbr") /\ NoFailure
       \/ disk[0] # "mbr" /\ UNCHANGED disk /\ NoFailure
       \/ Failure /\ UNCHANGED disk
    /\ UNCHANGED progress /\ Quiet

FatBoot ==
    /\ pc = "fatBoot" /\ BlockWrite(gOffset, 1, "boot")
    /\ Goto(IF job.fs = 1 THEN "fatBackup" ELSE "fatHead1")
    /\ UNCHANGED progress /\ Quiet

FatBootFails == pc = "fatBoot" /\ Failure /\ UNCHANGED disk /\ EngineDone(-1)

FatBackup ==
    /\ pc = "fatBackup" /\ BlockWrite(gOffset + 6, 1, "boot")
    /\ Goto("fatInfo") /\ UNCHANGED progress /\ Quiet

FatInfo ==
    /\ pc = "fatInfo" /\ BlockWrite(gOffset + 1, 1, "fsinfo")
    /\ Goto("fatHead1") /\ UNCHANGED progress /\ Quiet

\* The first 32 KB of a FAT: the header, then zeros.
FatHead(l, f, next) ==
    /\ pc = l
    /\ LET lo == gOffset + FatStart(gSectorCount, job, f) IN
       \/ /\ disk' = [a \in DOMAIN disk |-> IF a = lo THEN "fatHead"
                                            ELSE Put(lo, FatHeadSectors, "zero")[a]]
          /\ NoFailure
       \/ Failure /\ UNCHANGED disk
    /\ Goto(next) /\ UNCHANGED progress /\ Quiet

\* The rest of a FAT, if it is longer than that.  (fat_offset + i has 32 bits
\* too; it does not wrap where fat_offset and the length do not.)
FatRest(l, f, next) ==
    /\ pc = l
    /\ LET lo == gOffset + FatStart(gSectorCount, job, f)
           n == FatLoopSectors(gSectorCount, job)
       IN  BlockWrite(lo + FatHeadSectors, IF n > FatHeadSectors THEN n - FatHeadSectors ELSE 0,
                      "zero")
    /\ Goto(next) /\ UNCHANGED progress /\ Quiet

FatHead1 == FatHead("fatHead1", 0, "fatRest1")
FatRest1 == FatRest("fatRest1", 0, "fatHead2")
FatHead2 == FatHead("fatHead2", 1, "fatRest2")

\* Mutated form: the offset of the first FAT, and the 32 KB already written are
\* not taken off the length.
FatRest2Overrun ==
    /\ pc = "fatRest2"
    /\ BlockWrite(gOffset + FatStart(gSectorCount, job, 0) + FatHeadSectors,
                  FatLoopSectors(gSectorCount, job), "zero")
    /\ Goto("fatRoot") /\ UNCHANGED progress /\ Quiet

FatRest2 == FatRest("fatRest2", 1, "fatRoot")

FatRoot ==
    /\ pc = "fatRoot"
    /\ BlockWrite(gOffset + RootStart(gSectorCount, job), RootSectors(job), "root")
    /\ EngineDone(0)

-----------------------------------------------------------------------------
FinalSync ==
    /\ pc = "sync" /\ Goto("close") /\ Report(100)
    /\ NoFailure /\ UNCHANGED disk /\ Quiet

Close ==
    /\ pc = "close" /\ Goto("off")
    /\ held' = held \ {"handle", "ctx", "path", "svc"}
    /\ result' = (formatRes = 0)
    /\ NoFailure
    /\ UNCHANGED <<disk, drvVars, part, progress, formatRes, known>> /\ Keep

Init ==
    /\ stick = 0 /\ job = [pt |-> 0, fs |-> 0, cluster |-> 4096] /\ disk = [a \in {} |-> "old"]
    /\ gSectorCount = 0 /\ gOffset = 0 /\ gPart = 0 /\ gType = 0
    /\ part = 0 /\ pc = "off" /\ slow = 0 /\ rejected = 0 /\ tries = 0 /\ progress = 0 /\ formatRes = -1
    /\ held = {} /\ result = FALSE
    /\ known = FALSE /\ spoiled = FALSE /\ sessions = 0 /\ faults = 0

Step == \/ LibusbInit \/ LibusbInitFails \/ WrapDevice \/ WrapDeviceFails
        \/ ScsiInit \/ TestUnitReady \/ ReadCapacityRejected \/ ReadCapacity
        \/ TooSmall \/ SizeOk \/ WipeMbr \/ WipeTail \/ WriteMbr
        \/ GptMbr \/ GptHeader \/ GptEntries \/ GptBackup \/ GptBackupHead
        \/ SetPartition \/ WipeHead \/ WipeRest \/ Wiped
        \/ StartEngine \/ Mkfs \/ UpdateMbrType
        \/ FatBoot \/ FatBootFails \/ FatBackup \/ FatInfo
        \/ FatHead1 \/ FatRest1 \/ FatHead2 \/ FatRest2 \/ FatRoot
        \/ FinalSync \/ Close

Next == Begin \/ Step

Spec == Init /\ [][Next]_vars

-----------------------------------------------------------------------------
(* Properties.                                                              *)

\* A session has run and has told the user that the format succeeded, nothing
\* having failed on the way.
Succeeded == pc = "off" /\ sessions > 0 /\ result /\ ~spoiled

\* The session's variables are well typed; progress stays a percentage.
TypeOK ==
    /\ gSectorCount \in Nat /\ gOffset \in {0, 4096} /\ gPart \in Nat /\ gType \in 0 .. 2
    /\ slow \in Nat /\ rejected \in Nat /\ tries \in 0 .. 4
    /\ part \in Nat /\ progress \in 0 .. 100 /\ formatRes \in {-1, 0, 1}
    /\ held \subseteq {"svc", "path", "ctx", "handle"}
    /\ result \in BOOLEAN /\ known \in BOOLEAN /\ spoiled \in BOOLEAN
    /\ sessions \in 0 .. MaxSessions /\ faults \in 0 .. MaxFaults

\* The partition handed to the engines is not empty, ends before the GPT backup
\* and lies on the stick the program believes in; the MBR and GPT entries describe
\* exactly it.  When READ CAPACITY worked in this session that is the stick plugged
\* in; otherwise it may be the one of an earlier session, and then all of this
\* holds for the sizes of that one.
PartitionInside ==
    pc \in {"wipeHead", "wipeRest", "engine", "mkfs", "fatBoot"} =>
        /\ known => gSectorCount = stick
        /\ gPart > 0
        /\ gOffset + gPart + ReservedEnd(job) <= gSectorCount
        /\ job.pt = 1 => MbrSectors(gSectorCount, part) = gPart
        /\ job.pt = 2 => /\ GptEnd(gSectorCount, part) = gOffset + gPart - 1
                         /\ GptEnd(gSectorCount, part) < GptBackupEntries(gSectorCount)

\* Neither the wipe of the partition head, by the cache blocks the stick accepts,
\* nor the 32 KB head of the second FAT comes as far as the GPT backup.
BackupOutOfReach ==
    /\ gOffset + WipeReach(stick, job) <= GptBackupEntries(stick)
    /\ IsFat(job) => FatAt(stick, job, 1) + FatHeadSectors <= FatUsable(stick, job)

\* The tables survive the rest of the session, the wipe of the partition head,
\* which comes after them, and the engine: at the front on every stick, and the
\* GPT backup wherever the two writes of fixed length do not reach it.
TablesSurvive ==
    Succeeded =>
        /\ job.pt = 1 => disk[0] = "mbr"
        /\ job.pt = 2 => /\ disk[0] = "pmbr" /\ disk[1] = "gptHeader"
                         /\ disk[2] = "gptEntries" /\ disk[33] = "gptEntries"
        /\ job.pt = 2 /\ BackupOutOfReach =>
              /\ disk[GptBackupEntries(stick)] = "gptEntries"
              /\ disk[GptBackupHeader(stick)] = "gptHeader"

\* After a FAT format the boot sector, both FAT headers and the root directory
\* are where the boot sector says, although the first write of each FAT is 32 KB
\* long however short the FAT is.  A FAT16 that needs more than the 16 bits for
\* its length in the boot sector is not found.
FatStructuresIntact ==
    Succeeded /\ IsFat(job) =>
        /\ disk[gOffset] = "boot"
        /\ job.fs = 1 => disk[gOffset + 1] = "fsinfo" /\ disk[gOffset + 6] = "boot"
        /\ \A f \in 0 .. 1 : disk[gOffset + FatAt(stick, job, f)] = "fatHead"
        /\ job.fs = 1 \/ FatSectors(stick, job) < 65536 =>
              disk[gOffset + FatReserved(job) + BpbFatSectors(stick, job)] = "fatHead"
        /\ job.fs # 1 => disk[gOffset + RootAt(stick, job)] = "root"

\* The FATs leave room for data, and of the clusters at most the last two have no
\* entry.  (The lengths at usb_scsi.cpp:784 and 792 do not count the two reserved
\* entries: where the FAT comes out full, the last two clusters lie beyond it.)
FatLacksTwoAtMost ==
    pc = "fatBoot" =>
        /\ DataStart(gSectorCount, job) < FatUsable(gSectorCount, job)
        /\ LastCluster(gSectorCount, job) - LastEntry(gSectorCount, job) <= 2

\* As long as READ CAPACITY has not worked once since the program started, no
\* session writes to its stick or reports success: usb_scsi_init has no result,
\* so only the zero it leaves in g_sector_count can stop the session.
UnmeasuredStickUntouched ==
    gSectorCount = 0 => (\A a \in DOMAIN disk : disk[a] = "old") /\ ~result

\* A stick that needs at most seven commands to come ready after it was plugged in
\* is measured: the attempts of the two loops of usb_scsi_init add up, although
\* neither looks at how the other ended.
WakingStickMeasured == [][pc = "capacity" /\ pc' = "size" /\ slow < 8 => known']_vars

\* Every return, early or not, has closed the handle, left libusb and dropped
\* the reference to the service, although each path names what it frees.  (The
\* early returns do keep the characters of usbPath.)
ResourcesReleased == pc = "off" => held \cap {"ctx", "handle", "svc"} = {}

\* Within a session the reported progress never goes back.
ProgressMonotone == [][pc # "off" => progress' >= progress]_vars

\* Stated in startStableFormat, "Calculate maximum allowed size for FS (FAT
\* limits)": a FAT volume is no larger than the partition.  usb_scsi_format_fat
\* sizes the volume by the stick instead.
FatFitsPartition ==
    pc = "fatBoot" /\ known => FatUsable(stick, job) <= gPart

=============================================================================
