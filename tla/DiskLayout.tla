----------------------------- MODULE DiskLayout -----------------------------
(***************************************************************************)
(* Where a format job puts things: the arithmetic of startStableFormat     *)
(* (native-lib.cpp) and of usb_scsi_write_mbr, usb_scsi_write_gpt,         *)
(* usb_scsi_wipe_partition_head and usb_scsi_format_fat (usb_scsi.cpp).    *)
(* All quantities are in sectors of 512 bytes.  A job is the partition     *)
(* type (0 none, 1 MBR, 2 GPT), the file system (0 NTFS, 1 FAT32, 2 FAT16, *)
(* 3 FAT12, 4 exFAT, 5-7 ext, 8 F2FS, 9 UDF, 10 XFS) and the cluster size, *)
(* one of the five the app offers.                                         *)
(***************************************************************************)
EXTENDS Integers

Job == [pt : 0 .. 2, fs : 0 .. 10, cluster : {4096, 8192, 16384, 32768, 65536}]

SmallerOf(a, b) == IF a < b THEN a ELSE b

-----------------------------------------------------------------------------
(* startStableFormat.                                                       *)

Offset(job) == IF job.pt > 0 THEN 4096 ELSE 0

ReservedEnd(job) == IF job.pt = 2 THEN 34 ELSE 0

\* Mutated form: equality passes.
FitsOrEqual(d, job) == d >= Offset(job) + ReservedEnd(job)

Fits(d, job) == d > Offset(job) + ReservedEnd(job)

FsCap(job) ==
    CASE job.fs = 3 -> 65535
      [] job.fs = 2 -> 65524 * ((IF job.cluster = 0 THEN 32768 ELSE job.cluster) \div 512)
      [] OTHER -> 0

\* Mutated form: the GPT backup is not reserved.
PartSectorsNoTail(d, job) == d - Offset(job)

PartSectors(d, job) ==
    LET max == d - Offset(job) - ReservedEnd(job) IN
    IF FsCap(job) > 0 /\ FsCap(job) < max THEN FsCap(job) ELSE max

-----------------------------------------------------------------------------
(* The tables.                                                              *)

\* usb_scsi_write_mbr: the count, clamped to the stick.  (Its narrowing to 32
\* bits changes nothing: READ CAPACITY(10) cannot report more than 2^32 sectors
\* and 4096 of them come before the partition.)
MbrStart == 4096
MbrSectors(d, part) == SmallerOf(part, d - MbrStart)

\* usb_scsi_write_gpt: last sector of the entry, clamped and then aligned.
GptStart == 4096
GptEnd(d, part) ==
    LET end == GptStart + part - 1 IN
    IF end > d - 34 THEN 8 * ((d - 34 + 1) \div 8) - 1 ELSE end

GptBackupEntries(d) == d - 33
GptBackupHeader(d) == d - 1

\* usb_scsi_wipe_tail: the last 34 sectors, none on a stick of at most 34
\* (the 64-bit loop bound wraps).
TailStart(d) == IF d > 34 THEN d - 34 ELSE d

\* usb_scsi_wipe_partition_head: 128 MB for F2FS, else 32 MB, whatever the size
\* of the partition.
WipeSectors(job) == IF job.fs = 8 THEN 262144 ELSE 65536

\* The writes of the wipe reach the stick in blocks of the 2048-sector cache;
\* a block that runs past the end of the stick is rejected as a whole.
CacheBlock == 2048
WipeReach(d, job) ==
    IF d - Offset(job) >= WipeSectors(job) THEN WipeSectors(job)
    ELSE CacheBlock * ((d - Offset(job)) \div CacheBlock)

-----------------------------------------------------------------------------
(* usb_scsi_format_fat.                                                     *)

IsFat(job) == job.fs \in 1 .. 3

FatUsable(d, job) == d - Offset(job) - (IF job.pt = 2 THEN 33 ELSE 0)
FatReserved(job) == IF job.fs = 1 THEN 32 ELSE 8
RootSectors(job) == IF job.fs = 1 THEN 0 ELSE 32

ClusterOrDefault(job) ==
    IF job.cluster # 0 THEN job.cluster
    ELSE CASE job.fs = 1 -> 4096 [] job.fs = 2 -> 2048 [] OTHER -> 512

SectorsPerCluster(job) ==
    LET spc == (ClusterOrDefault(job) \div 512) % 256 IN IF spc = 0 THEN 1 ELSE spc

EntryBytes(job) == IF job.fs = 1 THEN 4 ELSE 2

\* Mutated form: rounds down.
FatSectorsFloor(d, job) ==
    LET tmp == FatUsable(d, job) - FatReserved(job) - RootSectors(job)
        div == 512 * SectorsPerCluster(job) + 2 * EntryBytes(job)
    IN  (tmp * EntryBytes(job)) \div div

FatSectors(d, job) ==
    LET tmp == FatUsable(d, job) - FatReserved(job) - RootSectors(job)
        div == 512 * SectorsPerCluster(job) + 2 * EntryBytes(job)
    IN  (tmp * EntryBytes(job) + div - 1) \div div

\* The length the boot record gives: 32 bits for FAT32, else 16.
BpbFatSectors(d, job) ==
    IF job.fs = 1 THEN FatSectors(d, job) ELSE FatSectors(d, job) % 65536

\* Where the structures of the volume begin, by what the boot record says of it.
FatAt(d, job, f) == FatReserved(job) + f * FatSectors(d, job)
RootAt(d, job) == FatAt(d, job, 2)
DataStart(d, job) == RootAt(d, job) + RootSectors(job)

\* Where they are written: fat_offset, root_offset and the length of a FAT are
\* counted in bytes and kept in 32 bits.
OffsetSectors == 8388608    \* 2^32 bytes
FatStart(d, job, f) == FatAt(d, job, f) % OffsetSectors
RootStart(d, job) == RootAt(d, job) % OffsetSectors
FatLoopSectors(d, job) == FatSectors(d, job) % OffsetSectors

\* The first write of a FAT is 32 KB long whatever the length of the FAT.
FatHeadSectors == 64

Clusters(d, job) == (FatUsable(d, job) - DataStart(d, job)) \div SectorsPerCluster(job)
\* Clusters are numbered from 2 on: entries 0 and 1 belong to none.
LastCluster(d, job) == Clusters(d, job) + 1
\* Of the width the length was computed with; the entries of a FAT12 are narrower.
FatEntries(d, job) == (FatSectors(d, job) * 512) \div EntryBytes(job)
LastEntry(d, job) == FatEntries(d, job) - 1

=============================================================================
