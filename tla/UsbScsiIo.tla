------------------------------ MODULE UsbScsiIo ------------------------------
(***************************************************************************)
(* The block I/O of usb_scsi.cpp: scsi_io_internal with its write-back     *)
(* cache, scsi_flush_cache_internal, usb_scsi_sync and the entry points    *)
(* the formatting engines call (pread, pwrite, read, write, lseek, sync).  *)
(*                                                                         *)
(* A sector is SectorSize units (512 bytes in the program); all offsets    *)
(* are in units.  The driver is sequential: one call is open at a time,    *)
(* and each SCSI command it sends is a step of its own, because each may   *)
(* fail on its own.                                                        *)
(***************************************************************************)
EXTENDS Integers, FiniteSets

CONSTANTS
    SectorSize,   \* units of a sector (g_sector_size)
    SectorCount,  \* sectors of the stick (g_sector_count)
    MaxCache,     \* K_MAX_CACHE_SECTORS
    MaxXfer,      \* the 2048-sector limit of one iteration
    GptTail,      \* the 33 sectors of the GPT backup
    Val,          \* contents of a unit
    InitialDisks, \* contents sticks arrive with
    Payloads,     \* data the engines write, MaxCount units long
    Partitions,   \* <<type, offset, size>> triples startStableFormat sets
    Seeks,        \* offsets given to lseek
    MaxOff,       \* bound: largest offset of a request
    MaxCount,     \* bound: largest length of a request
    Lengths,      \* lengths of requests
    MaxOps,       \* bound: calls
    MaxFaults     \* bound: commands that fail or allocations refused

NoData == [i \in {} |-> 0]

Addr == 0 .. (SectorCount * SectorSize) - 1

ASSUME SizesAssumption ==
    /\ SectorSize \in Nat \ {0} /\ SectorCount \in Nat
    /\ MaxXfer \in Nat \ {0} /\ MaxCache \in Nat /\ MaxXfer <= MaxCache
    /\ GptTail \in Nat /\ MaxOff \in Nat /\ MaxCount \in Nat
    /\ MaxOps \in Nat /\ MaxFaults \in Nat

ASSUME InputsAssumption ==
    /\ InitialDisks \subseteq [Addr -> Val]
    /\ Payloads \subseteq [0 .. MaxCount - 1 -> Val]
    /\ Partitions \subseteq (0 .. 2) \X Nat \X Nat
    /\ Lengths \subseteq 0 .. MaxCount
    /\ Seeks \subseteq Int

VARIABLES
    disk,          \* what the medium holds
    alloc,         \* g_write_cache has been allocated
    cacheLba,      \* g_cache_lba
    cacheSectors,  \* g_cache_sectors
    cacheBuf,      \* the valid part of g_write_cache
    partType,      \* g_partition_type
    offset,        \* g_drive_offset_sectors
    partSectors,   \* g_partition_sectors
    curPos,        \* g_cur_pos
    pc,            \* the next step of the open call; "idle" between calls
    kind,          \* read, write or sync
    seqIo,         \* the call works at g_cur_pos and moves it
    start,         \* actual_offset
    count,         \* count
    done,          \* total_done
    buf,           \* the caller's buffer; for a read, its filled part
    bounce,        \* g_bounce_buffer between the two commands of an RMW
    res,           \* what the last call returned
    written,       \* history: the contents the driver last accepted
    lost,          \* history: units whose accepted contents a command lost
    faults,
    ops

cacheVars == <<alloc, cacheLba, cacheSectors, cacheBuf>>
partVars  == <<partType, offset, partSectors>>
reqVars   == <<kind, seqIo, start, count, buf>>
ghostVars == <<written, lost>>
vars == <<disk, cacheVars, partVars, curPos, pc, reqVars, done, bounce, res,
          ghostVars, faults, ops>>

-----------------------------------------------------------------------------
(* Sector arithmetic.                                                       *)

Base(l) == l * SectorSize       \* first unit of sector l, or length of l sectors
LbaOf(u) == u \div SectorSize
SkipOf(u) == u % SectorSize
LessOf(a, b) == IF a < b THEN a ELSE b

Cur == start + done
Lba == LbaOf(Cur)
OffsetInSector == SkipOf(Cur)
Remaining == count - done

\* A unit the cache holds, and what a reader must see.
Cached(a) == Base(cacheLba) <= a /\ a < Base(cacheLba) + Base(cacheSectors)
View == [a \in Addr |-> IF Cached(a) THEN cacheBuf[a - Base(cacheLba)] ELSE disk[a]]

\* The units the current iteration covers, when it covers n of them.
Span(n) == {a \in Addr : Cur <= a /\ a < Cur + n}

UsableSectors ==
    IF partSectors # 0 THEN partSectors
    ELSE SectorCount - offset - (IF partType = 2 THEN GptTail ELSE 0)

-----------------------------------------------------------------------------
(* The stick: a command outside the medium is rejected as a whole.          *)

OnMedium(lba, n) == lba + n <= SectorCount

Fault == faults < MaxFaults /\ faults' = faults + 1

-----------------------------------------------------------------------------
(* The write-back cache: scsi_flush_cache_internal.  It empties the cache   *)
(* whatever the command returned, and every caller ignores its result.      *)

FlushNone == cacheSectors = 0 /\ UNCHANGED <<disk, cacheVars, lost, faults>>

EmptyCache ==
    /\ cacheSectors' = 0
    /\ cacheBuf' = NoData
    /\ UNCHANGED <<alloc, cacheLba>>

FlushOk ==
    /\ cacheSectors > 0
    /\ OnMedium(cacheLba, cacheSectors)
    /\ disk' = View
    /\ EmptyCache
    /\ UNCHANGED <<lost, faults>>

\* The stick refuses a range that runs past its end: nothing is written.
FlushRejected ==
    /\ cacheSectors > 0
    /\ ~OnMedium(cacheLba, cacheSectors)
    /\ EmptyCache
    /\ lost' = lost \cup {a \in Addr : Cached(a)}
    /\ UNCHANGED <<disk, faults>>

\* The command breaks off after k sectors, or only its status is lost.
FlushFault ==
    /\ cacheSectors > 0 /\ OnMedium(cacheLba, cacheSectors)
    /\ Fault
    /\ \E k \in 0 .. cacheSectors :
          disk' = [a \in Addr |-> IF Cached(a) /\ a < Base(cacheLba) + Base(k)
                                  THEN View[a] ELSE disk[a]]
    /\ EmptyCache
    /\ lost' = lost \cup {a \in Addr : Cached(a)}

Flush == FlushNone \/ FlushOk \/ FlushRejected \/ FlushFault

-----------------------------------------------------------------------------
(* Return to the caller.  The sequential entry points advance g_cur_pos.    *)

NextPos(r) == IF seqIo /\ r > 0 THEN curPos + r ELSE curPos

Return(r) ==
    /\ pc' = "idle"
    /\ res' = r
    /\ curPos' = NextPos(r)
    /\ UNCHANGED <<partVars, reqVars, done, ops>>
    /\ bounce' = NoData

Goto(label) ==
    /\ pc' = label
    /\ UNCHANGED <<partVars, reqVars, curPos, res, ops>>

-----------------------------------------------------------------------------
(* The entry points.                                                        *)

\* A session begins: usb_scsi_init, then type, offset and size, before the first
\* block I/O and with the cache empty (every session ends with usb_scsi_sync).
SetPartition ==
    /\ pc = "idle" /\ cacheSectors = 0 /\ ops < MaxOps
    /\ \E p \in Partitions :
          /\ partType' = p[1] /\ offset' = p[2] /\ partSectors' = p[3]
    /\ curPos' = 0
    /\ ops' = ops + 1
    /\ UNCHANGED <<disk, cacheVars, pc, reqVars, done, bounce, res, ghostVars, faults>>

\* Mutated form: offsets in the partition are taken for offsets on the stick.
ActualOffsetRaw(off) == off

ActualOffset(off) == off + Base(offset)

Call(k, off, n, data, atCurPos) ==
    /\ pc = "idle" /\ ops < MaxOps
    /\ pc' = IF k = "sync" THEN "syncFlush" ELSE "loop"
    /\ kind' = k /\ seqIo' = atCurPos
    /\ start' = ActualOffset(off)
    /\ count' = n /\ done' = 0 /\ buf' = data
    /\ ops' = ops + 1
    /\ UNCHANGED <<disk, cacheVars, partVars, curPos, bounce, res, ghostVars, faults>>

Take(data, n) == [i \in 0 .. n - 1 |-> data[i]]

Pread == \E off \in 0 .. MaxOff, n \in Lengths :
            Call("read", off, n, NoData, FALSE)

Pwrite == \E off \in 0 .. MaxOff, n \in Lengths, data \in Payloads :
            Call("write", off, n, Take(data, n), FALSE)

ReadAtPos == curPos \in 0 .. MaxOff /\ \E n \in Lengths :
            Call("read", curPos, n, NoData, TRUE)

WriteAtPos == curPos \in 0 .. MaxOff /\ \E n \in Lengths, data \in Payloads :
            Call("write", curPos, n, Take(data, n), TRUE)

Sync == Call("sync", 0, 0, NoData, FALSE)

\* usb_scsi_lseek_internal; dev_seek (NTFS) counts SEEK_END from the end of the
\* stick instead of the end of the partition.  Neither looks at the sum, which may
\* be negative; the engines read and write at positions of the volume only.
SeekTarget(whence, d) ==
    CASE whence = "set" -> d
      [] whence = "cur" -> curPos + d
      [] whence = "end" -> Base(UsableSectors) + d
      [] whence = "devEnd" -> Base(SectorCount - offset) + d

Lseek ==
    /\ pc = "idle" /\ ops < MaxOps
    /\ \E whence \in {"set", "cur", "end", "devEnd"}, d \in Seeks :
          /\ SeekTarget(whence, d) \in -MaxOff .. MaxOff   \* bound
          /\ curPos' = SeekTarget(whence, d)
    /\ ops' = ops + 1
    /\ UNCHANGED <<disk, cacheVars, partVars, pc, reqVars, done, bounce, res,
                   ghostVars, faults>>

-----------------------------------------------------------------------------
(* One iteration of the loop of scsi_io_internal.                           *)

LoopEnd ==
    /\ pc = "loop" /\ done >= count
    /\ Return(done)
    /\ UNCHANGED <<disk, cacheVars, ghostVars, faults>>

(* Reading: flush, then READ(10) into the bounce buffer.                    *)

\* Mutated form: the read does not flush the cache first.
LoopReadUnflushed ==
    /\ pc = "loop" /\ done < count /\ kind = "read"
    /\ Goto("readCmd")
    /\ UNCHANGED <<disk, cacheVars, ghostVars, done, bounce, faults>>

LoopRead ==
    /\ pc = "loop" /\ done < count /\ kind = "read"
    /\ Flush
    /\ Goto("readCmd")
    /\ UNCHANGED <<written, done, bounce>>

\* Mutated form: the division does not round up.
ReadSectorsFloor == LessOf((Remaining + OffsetInSector) \div SectorSize, MaxXfer)

ReadSectors ==
    LessOf((Remaining + OffsetInSector + SectorSize - 1) \div SectorSize, MaxXfer)

ReadLen == LessOf(Remaining, Base(ReadSectors) - OffsetInSector)

ReadCmd ==
    /\ pc = "readCmd" /\ OnMedium(Lba, ReadSectors)
    /\ buf' = [i \in 0 .. done + ReadLen - 1 |->
                 IF i < done THEN buf[i] ELSE disk[start + i]]
    /\ done' = done + ReadLen
    /\ pc' = "loop"
    /\ UNCHANGED <<disk, cacheVars, partVars, curPos, kind, seqIo, start, count, bounce,
                   res, ghostVars, faults, ops>>

ReadCmdFails ==
    /\ pc = "readCmd"
    /\ IF OnMedium(Lba, ReadSectors) THEN Fault ELSE UNCHANGED faults
    /\ Return(-1)
    /\ UNCHANGED <<disk, cacheVars, ghostVars>>

(* Writing whole sectors: into the cache.                                   *)

Aligned == OffsetInSector = 0 /\ Remaining >= SectorSize
WriteSectors == LessOf(Remaining \div SectorSize, MaxXfer)

\* Mutated form: the cache limit is not checked.
CanAddUnbounded == cacheSectors > 0 /\ Lba = cacheLba + cacheSectors

\* Mutated form: only the room is checked, not that the sectors follow on.
CanAddAnywhere == cacheSectors > 0 /\ cacheSectors + WriteSectors <= MaxCache

CanAdd ==
    /\ cacheSectors > 0
    /\ Lba = cacheLba + cacheSectors
    /\ cacheSectors + WriteSectors <= MaxCache

\* The driver takes over n units of the request.
Accept(n) ==
    /\ written' = [a \in Addr |-> IF a \in Span(n) THEN buf[a - start] ELSE written[a]]
    /\ lost' = lost \ Span(n)
    /\ done' = done + n

LoopAppend ==
    /\ pc = "loop" /\ done < count /\ kind = "write" /\ Aligned /\ CanAdd
    /\ cacheBuf' = [i \in 0 .. Base(cacheSectors) + Base(WriteSectors) - 1 |->
                      IF i < Base(cacheSectors) THEN cacheBuf[i]
                      ELSE buf[done + i - Base(cacheSectors)]]
    /\ cacheSectors' = cacheSectors + WriteSectors
    /\ Accept(Base(WriteSectors))
    /\ Goto("loop")
    /\ UNCHANGED <<disk, alloc, cacheLba, bounce, faults>>

\* Mutated form: the old contents are dropped instead of flushed.
LoopReplaceUnflushed ==
    /\ pc = "loop" /\ done < count /\ kind = "write" /\ Aligned /\ ~CanAdd
    /\ EmptyCache
    /\ Goto("fill")
    /\ UNCHANGED <<disk, ghostVars, done, bounce, faults>>

LoopReplace ==
    /\ pc = "loop" /\ done < count /\ kind = "write" /\ Aligned /\ ~CanAdd
    /\ Flush
    /\ Goto("fill")
    /\ UNCHANGED <<written, done, bounce>>

Fill ==
    /\ pc = "fill"
    /\ alloc' = TRUE
    /\ cacheLba' = Lba
    /\ cacheSectors' = WriteSectors
    /\ cacheBuf' = [i \in 0 .. Base(WriteSectors) - 1 |-> buf[done + i]]
    /\ Accept(Base(WriteSectors))
    /\ Goto("loop")
    /\ UNCHANGED <<disk, bounce, faults>>

MallocFails ==
    /\ pc = "fill" /\ ~alloc
    /\ Fault
    /\ Return(-1)
    /\ UNCHANGED <<disk, cacheVars, ghostVars>>

(* Writing part of a sector: flush, read the sector, merge, write it back.  *)

LoopPartial ==
    /\ pc = "loop" /\ done < count /\ kind = "write" /\ ~Aligned
    /\ Flush
    /\ Goto("rmwRead")
    /\ UNCHANGED <<written, done, bounce>>

ToWrite == LessOf(SectorSize - OffsetInSector, Remaining)

RmwRead ==
    /\ pc = "rmwRead" /\ OnMedium(Lba, 1)
    /\ bounce' = [i \in 0 .. SectorSize - 1 |->
                    IF OffsetInSector <= i /\ i < OffsetInSector + ToWrite
                    THEN buf[done + i - OffsetInSector]
                    ELSE disk[Base(Lba) + i]]
    /\ Goto("rmwWrite")
    /\ UNCHANGED <<disk, cacheVars, ghostVars, done, faults>>

RmwReadFails ==
    /\ pc = "rmwRead"
    /\ IF OnMedium(Lba, 1) THEN Fault ELSE UNCHANGED faults
    /\ Return(-1)
    /\ UNCHANGED <<disk, cacheVars, ghostVars>>

WithBounce == [a \in Addr |-> IF Base(Lba) <= a /\ a < Base(Lba) + SectorSize
                              THEN bounce[a - Base(Lba)] ELSE disk[a]]

RmwWrite ==
    /\ pc = "rmwWrite"
    /\ disk' = WithBounce
    /\ Accept(ToWrite)
    /\ bounce' = NoData
    /\ Goto("loop")
    /\ UNCHANGED <<cacheVars, faults>>

\* The status is lost: the sector may or may not have been written.
RmwWriteFails ==
    /\ pc = "rmwWrite"
    /\ Fault
    /\ disk' \in {disk, WithBounce}
    /\ lost' = lost \cup Span(ToWrite)
    /\ Return(-1)
    /\ UNCHANGED <<cacheVars, written>>

-----------------------------------------------------------------------------
(* usb_scsi_sync, dev_sync and dev_close: flush, then SYNCHRONIZE CACHE.    *)

\* Mutated form: only the stick's own cache is synchronised.
SyncFlushSkipped ==
    /\ pc = "syncFlush"
    /\ Goto("syncCmd")
    /\ UNCHANGED <<disk, cacheVars, ghostVars, done, bounce, faults>>

SyncFlush ==
    /\ pc = "syncFlush"
    /\ Flush
    /\ Goto("syncCmd")
    /\ UNCHANGED <<written, done, bounce>>

SyncCmd ==
    /\ pc = "syncCmd"
    /\ \/ UNCHANGED faults /\ Return(0)
       \/ Fault /\ Return(-1)
    /\ UNCHANGED <<disk, cacheVars, ghostVars>>

-----------------------------------------------------------------------------
Init ==
    /\ disk \in InitialDisks
    /\ alloc = FALSE /\ cacheLba = 0 /\ cacheSectors = 0
    /\ cacheBuf = NoData
    /\ partType = 0 /\ offset = 0 /\ partSectors = 0 /\ curPos = 0
    /\ pc = "idle" /\ kind = "none" /\ seqIo = FALSE
    /\ start = 0 /\ count = 0 /\ done = 0 /\ buf = NoData
    /\ bounce = NoData /\ res = 0
    /\ written = disk /\ lost = {} /\ faults = 0 /\ ops = 0

Begin == SetPartition \/ Pread \/ Pwrite \/ ReadAtPos \/ WriteAtPos \/ Sync \/ Lseek

Step == \/ LoopEnd \/ LoopRead \/ ReadCmd \/ ReadCmdFails
        \/ LoopAppend \/ LoopReplace \/ Fill \/ MallocFails
        \/ LoopPartial \/ RmwRead \/ RmwReadFails \/ RmwWrite \/ RmwWriteFails
        \/ SyncFlush \/ SyncCmd

Next == Begin \/ Step

Spec == Init /\ [][Next]_vars

\* The thread that called the driver keeps running until the call returns:
\* each transfer has a 60 s timeout, so no command blocks for ever.
FairSpec == Spec /\ WF_vars(Step)
-----------------------------------------------------------------------------
(* Properties.                                                              *)

Labels == {"idle", "loop", "readCmd", "fill", "rmwRead", "rmwWrite",
           "syncFlush", "syncCmd"}

\* Every variable of the driver has its type; in particular g_cur_pos, which
\* the sequential calls advance by their result, never becomes negative, and
\* the caller's buffer is as long as the call says.
TypeOK ==
    /\ disk \in [Addr -> Val] /\ written \in [Addr -> Val]
    /\ lost \subseteq Addr
    /\ alloc \in BOOLEAN /\ cacheLba \in Nat /\ cacheSectors \in Nat
    /\ partType \in 0 .. 2 /\ offset \in Nat /\ partSectors \in Nat
    /\ curPos \in Int
    /\ pc \in Labels /\ kind \in {"none", "read", "write", "sync"}
    /\ seqIo \in BOOLEAN
    /\ start \in Nat /\ count \in Nat /\ done \in Nat /\ done <= count
    /\ buf \in [0 .. (IF kind = "read" THEN done ELSE count) - 1 -> Val]
    /\ res \in Nat \cup {-1}
    /\ faults \in 0 .. MaxFaults /\ ops \in 0 .. MaxOps

\* g_write_cache is never filled past its K_MAX_CACHE_SECTORS and never used
\* before it was allocated, whatever sequence of appends and replacements
\* scsi_io_internal goes through.
CacheFits ==
    /\ cacheSectors <= MaxCache
    /\ cacheSectors > 0 => alloc
    /\ cacheBuf \in [0 .. Base(cacheSectors) - 1 -> Val]

\* Cache and medium together hold what was last accepted for every unit that no
\* failed command lost: aggregation, replacement, read-modify-write and flush
\* of scsi_io_internal never mix up or drop a sector.
Coherent == \A a \in Addr \ lost : View[a] = written[a]

\* A read returns, unit by unit, what was last written there, although reads
\* look only at the medium and the data may still be in g_write_cache.
ReadsReturnWrites ==
    kind = "read" => \A i \in 0 .. done - 1 :
        start + i \notin lost => buf[i] = written[start + i]

\* When usb_scsi_sync returns, everything accepted and not lost is on the
\* medium, and the cache is empty (the raw commands that follow bypass it).
SyncPublishes ==
    pc = "idle" /\ kind = "sync" =>
        /\ cacheSectors = 0
        /\ \A a \in Addr \ lost : disk[a] = written[a]

\* Block I/O never changes a sector below g_drive_offset_sectors, where the
\* partition table is, not even through the read-modify-write of the first
\* sector of the partition or a cache flushed by a later call.
BelowPartitionUntouched ==
    [][\A a \in Addr : a < Base(offset) => disk'[a] = disk[a]]_vars

\* Every call returns: the loop of scsi_io_internal makes progress in each
\* iteration, or gives up.
CallReturns == pc # "idle" ~> pc = "idle"

-----------------------------------------------------------------------------
(* The abstract store this implements.                                      *)

CONSTANT Unknown

AbsImg == [a \in Addr |-> IF a \in lost THEN Unknown ELSE View[a]]
AbsPending == {a \in Addr : Cached(a)}
AbsOpen == IF pc # "idle" /\ kind = "write" THEN Span(Remaining) ELSE {}

Store == INSTANCE WriteBackStore
            WITH img <- AbsImg, pending <- AbsPending, open <- AbsOpen

\* The driver implements WriteBackStore: a unit changes for a reader only while
\* a write request covers it, a failing flush puts only pending units in doubt,
\* and a failing read-modify-write only units of its own request.
ImplementsStore == Store!StoreSpec

=============================================================================
