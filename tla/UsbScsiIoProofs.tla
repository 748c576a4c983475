--------------------------- MODULE UsbScsiIoProofs ---------------------------
(* Proofs about UsbScsiIo, for every sector size, stick size and cache size. *)
EXTENDS UsbScsiIo, TLAPS

-----------------------------------------------------------------------------
(* Sector arithmetic.                                                       *)

\* Base turns sector counts into units additively and monotonically.
LEMMA BaseFacts ==
    /\ Base(0) = 0 /\ Base(1) = SectorSize
    /\ \A l \in Nat : Base(l) \in Nat
    /\ \A l, k \in Nat : Base(l + k) = Base(l) + Base(k)
    /\ \A l, k \in Nat : l <= k => Base(l) <= Base(k)
    /\ \A l, k \in Nat : l < k => Base(l) + SectorSize <= Base(k)
<1>1. Base(0) = 0 /\ Base(1) = SectorSize
  BY SizesAssumption DEF Base
<1>2. \A l \in Nat : Base(l) \in Nat
  BY SizesAssumption DEF Base
<1>3. \A l, k \in Nat : Base(l + k) = Base(l) + Base(k)
  BY SizesAssumption DEF Base
<1>4. \A l, k \in Nat : l <= k => Base(l) <= Base(k)
  <2>1. SUFFICES ASSUME NEW l \in Nat, NEW k \in Nat, l <= k PROVE Base(l) <= Base(k)
    OBVIOUS
  <2>2. k - l \in Nat /\ k = l + (k - l)
    BY <2>1
  <2>3. Base(k) = Base(l) + Base(k - l)
    BY <2>2, <1>3
  <2> QED
    BY <2>2, <2>3, <1>2
<1>5. \A l, k \in Nat : l < k => Base(l) + SectorSize <= Base(k)
  <2>1. SUFFICES ASSUME NEW l \in Nat, NEW k \in Nat, l < k
                 PROVE  Base(l) + SectorSize <= Base(k)
    OBVIOUS
  <2>2. Base(l + 1) = Base(l) + Base(1) /\ Base(l + 1) <= Base(k)
    BY <2>1, <1>3, <1>4
  <2> QED
    BY <2>2, <1>1
<1> QED
  BY <1>1, <1>2, <1>3, <1>4, <1>5

\* A unit lies in the sector LbaOf says, SkipOf units behind its beginning.
LEMMA DivFacts ==
    \A u \in Nat : /\ LbaOf(u) \in Nat
                   /\ SkipOf(u) \in 0 .. SectorSize - 1
                   /\ u = Base(LbaOf(u)) + SkipOf(u)
BY SizesAssumption DEF Base, LbaOf, SkipOf

\* A unit at or behind the beginning of sector o lies in sector o or later.
LEMMA LbaMono ==
    \A u, o \in Nat : u >= Base(o) => LbaOf(u) >= o /\ Base(LbaOf(u)) >= Base(o)
<1> SUFFICES ASSUME NEW u \in Nat, NEW o \in Nat, u >= Base(o)
             PROVE  LbaOf(u) >= o /\ Base(LbaOf(u)) >= Base(o)
  OBVIOUS
<1>1. LbaOf(u) \in Nat /\ SkipOf(u) \in 0 .. SectorSize - 1 /\ u = Base(LbaOf(u)) + SkipOf(u)
  BY DivFacts
<1>2. LbaOf(u) >= o
  <2> SUFFICES ASSUME LbaOf(u) < o PROVE FALSE
    BY <1>1
  <2>1. Base(LbaOf(u)) + SectorSize <= Base(o)
    BY <1>1, BaseFacts
  <2>2. Base(o) \in Nat /\ Base(LbaOf(u)) \in Nat /\ SectorSize \in Nat
    BY <1>1, BaseFacts, SizesAssumption
  <2> QED
    BY <2>1, <2>2, <1>1
<1> QED
  BY <1>1, <1>2, BaseFacts
\* Addr is the units of the sectors of the stick.
LEMMA AddrFacts ==
    /\ Base(SectorCount) \in Nat
    /\ \A a : a \in Addr <=> a \in Nat /\ a < Base(SectorCount)
<1>1. Base(SectorCount) \in Nat
  BY BaseFacts, SizesAssumption
<1>2. Addr = 0 .. Base(SectorCount) - 1
  BY DEF Addr, Base
<1> QED
  BY <1>1, <1>2

\* With an empty cache a reader sees the medium.
LEMMA EmptyView ==
    ASSUME TypeOK, cacheSectors = 0
    PROVE  \A a \in Addr : ~Cached(a) /\ View[a] = disk[a]
<1>1. Base(cacheSectors) = 0 /\ Base(cacheLba) \in Nat
  BY BaseFacts DEF TypeOK
<1>2. \A a \in Addr : ~Cached(a)
  BY <1>1, AddrFacts DEF Cached
<1> QED
  BY <1>2 DEF View

\* The same of the next state.
LEMMA EmptyViewNext ==
    ASSUME TypeOK', cacheSectors' = 0
    PROVE  \A a \in Addr : View'[a] = disk'[a]
<1>1. Base(cacheSectors') = 0 /\ Base(cacheLba') \in Nat
  BY BaseFacts DEF TypeOK
<1>2. Base(cacheSectors)' = Base(cacheSectors') /\ Base(cacheLba)' = Base(cacheLba')
  BY DEF Base
<1>3. \A a \in Addr : ~Cached(a)'
  BY <1>1, <1>2, AddrFacts DEF Cached
<1> QED
  BY <1>3 DEF View

-----------------------------------------------------------------------------
(* What one iteration covers.                                               *)

\* One READ(10) delivers between one and Remaining units, all of them inside
\* the sectors it reads.
LEMMA ReadLenFacts ==
    ASSUME TypeOK, done < count
    PROVE  /\ Cur \in Nat /\ Lba \in Nat /\ ReadSectors \in Nat
           /\ ReadLen \in 1 .. Remaining
           /\ Cur + ReadLen <= Base(Lba) + Base(ReadSectors)
<1>1. Cur \in Nat /\ Remaining \in Nat \ {0}
  BY DEF TypeOK, Cur, Remaining
<1>2. Lba \in Nat /\ OffsetInSector \in 0 .. SectorSize - 1 /\ Cur = Base(Lba) + OffsetInSector
  BY <1>1, DivFacts DEF Lba, OffsetInSector
<1> DEFINE want == Remaining + OffsetInSector + SectorSize - 1
<1>3. want \in Nat /\ want >= SectorSize
  BY <1>1, <1>2, SizesAssumption
<1>4. LbaOf(want) >= 1
  <2>1. want >= Base(1)
    BY <1>3, BaseFacts
  <2> QED
    BY <2>1, <1>3, LbaMono
<1>5. LbaOf(want) \in Nat
  BY <1>3, DivFacts
<1>6. ReadSectors = LessOf(LbaOf(want), MaxXfer)
  BY DEF ReadSectors, LbaOf
<1>7. ReadSectors \in Nat /\ ReadSectors >= 1
  BY <1>4, <1>5, <1>6, SizesAssumption DEF LessOf
<1>8. Base(ReadSectors) \in Nat /\ Base(ReadSectors) >= SectorSize
  BY <1>7, BaseFacts
<1>9. Base(Lba) \in Nat /\ SectorSize \in Nat
  BY <1>2, BaseFacts, SizesAssumption
<1>10. ReadLen \in 1 .. Remaining /\ ReadLen <= Base(ReadSectors) - OffsetInSector
  BY <1>1, <1>2, <1>8, <1>9 DEF ReadLen, LessOf
<1> QED
  BY <1>1, <1>2, <1>7, <1>8, <1>9, <1>10

\* An aligned iteration takes between one sector and MaxXfer sectors, never
\* more than the request has left, from the beginning of a sector.
LEMMA WriteFacts ==
    ASSUME TypeOK, done < count, Aligned
    PROVE  /\ Cur \in Nat /\ Lba \in Nat /\ Cur = Base(Lba)
           /\ WriteSectors \in 1 .. MaxXfer
           /\ Base(WriteSectors) \in 1 .. Remaining
<1>1. Cur \in Nat /\ Remaining \in Nat \ {0} /\ OffsetInSector = 0 /\ Remaining >= SectorSize
  BY DEF TypeOK, Cur, Remaining, Aligned
<1>2. Lba \in Nat /\ Cur = Base(Lba) + OffsetInSector
  BY <1>1, DivFacts DEF Lba, OffsetInSector
<1>3. Base(Lba) \in Nat
  BY <1>2, BaseFacts
<1>4. Cur = Base(Lba)
  BY <1>1, <1>2, <1>3
<1>5. LbaOf(Remaining) \in Nat /\ SkipOf(Remaining) \in Nat
      /\ Remaining = Base(LbaOf(Remaining)) + SkipOf(Remaining)
  BY <1>1, DivFacts, SizesAssumption
<1>6. LbaOf(Remaining) >= 1
  BY <1>1, LbaMono, BaseFacts
<1>7. WriteSectors = LessOf(LbaOf(Remaining), MaxXfer)
  BY DEF WriteSectors, LbaOf
<1>8. WriteSectors \in 1 .. MaxXfer /\ WriteSectors <= LbaOf(Remaining)
  BY <1>5, <1>6, <1>7, SizesAssumption DEF LessOf
<1>9. WriteSectors \in Nat /\ Base(WriteSectors) \in Nat /\ Base(LbaOf(Remaining)) \in Nat
  BY <1>8, <1>5, BaseFacts, SizesAssumption
<1>10. Base(WriteSectors) <= Base(LbaOf(Remaining)) /\ Base(WriteSectors) >= SectorSize
  BY <1>5, <1>8, <1>9, BaseFacts
<1>11. Base(WriteSectors) \in 1 .. Remaining
  BY <1>1, <1>5, <1>9, <1>10, SizesAssumption
<1> QED
  BY <1>1, <1>2, <1>4, <1>8, <1>11

\* A partial iteration stays inside one sector and inside the request.
LEMMA PartialFacts ==
    ASSUME TypeOK, done < count
    PROVE  /\ Cur \in Nat /\ Lba \in Nat /\ Base(Lba) \in Nat
           /\ OffsetInSector \in 0 .. SectorSize - 1
           /\ Cur = Base(Lba) + OffsetInSector
           /\ ToWrite \in 1 .. Remaining
           /\ OffsetInSector + ToWrite <= SectorSize
<1>1. Cur \in Nat /\ Remaining \in Nat \ {0}
  BY DEF TypeOK, Cur, Remaining
<1>2. Lba \in Nat /\ OffsetInSector \in 0 .. SectorSize - 1 /\ Cur = Base(Lba) + OffsetInSector
  BY <1>1, DivFacts DEF Lba, OffsetInSector
<1>3. Base(Lba) \in Nat
  BY <1>2, BaseFacts
<1>4. ToWrite \in 1 .. Remaining /\ OffsetInSector + ToWrite <= SectorSize
  BY <1>1, <1>2, SizesAssumption DEF ToWrite, LessOf
<1> QED
  BY <1>1, <1>2, <1>3, <1>4
-----------------------------------------------------------------------------
(* The inductive invariant.                                                 *)

\* Where the open call is, and what that says of the request and the cache:
\* every step that sends a command finds the cache flushed.
Control ==
    /\ pc # "idle" => start >= Base(offset)
    /\ cacheSectors > 0 => Base(cacheLba) >= Base(offset)
    /\ pc \in {"readCmd", "fill", "rmwRead", "rmwWrite", "syncCmd"} => cacheSectors = 0
    /\ pc = "idle" /\ kind = "sync" => cacheSectors = 0
    /\ pc = "loop" => kind \in {"read", "write"}
    /\ pc \in {"syncFlush", "syncCmd"} => kind = "sync" /\ ~seqIo
    /\ pc = "readCmd" => kind = "read" /\ done < count
    /\ pc = "fill" => kind = "write" /\ done < count /\ Aligned
    /\ pc \in {"rmwRead", "rmwWrite"} => kind = "write" /\ done < count /\ ~Aligned

\* Between the two commands of a read-modify-write the bounce buffer holds the
\* sector as it is on the medium, with the units of the request merged in.
BounceOk ==
    pc = "rmwWrite" =>
        /\ OnMedium(Lba, 1)
        /\ bounce \in [0 .. SectorSize - 1 -> Val]
        /\ \A i \in 0 .. SectorSize - 1 :
              bounce[i] = IF OffsetInSector <= i /\ i < OffsetInSector + ToWrite
                          THEN buf[done + i - OffsetInSector]
                          ELSE disk[Base(Lba) + i]

IndInv == TypeOK /\ CacheFits /\ Coherent /\ ReadsReturnWrites /\ Control /\ BounceOk

\* After a flush the cache is empty and the medium holds every unit's contents,
\* except for units the flush lost; units that were not cached are untouched.
LEMMA FlushFacts ==
    ASSUME TypeOK, CacheFits, Flush
    PROVE  /\ disk' \in [Addr -> Val]
           /\ lost' \subseteq Addr /\ lost \subseteq lost'
           /\ cacheSectors' = 0 /\ cacheBuf' \in [0 .. Base(0) - 1 -> Val]
           /\ alloc' = alloc /\ cacheLba' = cacheLba
           /\ faults' \in 0 .. MaxFaults
           /\ \A a \in Addr \ lost' : disk'[a] = View[a]
           /\ \A a \in Addr : ~Cached(a) => disk'[a] = disk[a]
<1> USE DEF TypeOK, CacheFits
<1>1. Base(0) = 0 /\ Base(cacheLba) \in Nat /\ Base(cacheSectors) \in Nat
  BY BaseFacts
<1>2. View \in [Addr -> Val]
  BY <1>1, SizesAssumption DEF View, Cached, Addr
<1>3. NoData \in [0 .. Base(0) - 1 -> Val]
  BY <1>1 DEF NoData
<1>4. CASE FlushNone
  <2>1. cacheSectors = 0 /\ UNCHANGED <<disk, alloc, cacheLba, cacheSectors, cacheBuf, lost, faults>>
    BY <1>4 DEF FlushNone, cacheVars
  <2>2. \A a \in Addr : ~Cached(a)
    BY <2>1, <1>1, SizesAssumption DEF Cached, Addr
  <2>3. \A a \in Addr : View[a] = disk[a]
    BY <2>2 DEF View
  <2>4. cacheBuf' \in [0 .. Base(0) - 1 -> Val]
    BY <2>1
  <2> QED
    BY <2>1, <2>2, <2>3, <2>4
<1>5. CASE FlushOk
  BY <1>1, <1>2, <1>3, <1>5 DEF FlushOk, EmptyCache, View
<1>6. CASE FlushRejected
  BY <1>1, <1>2, <1>3, <1>6 DEF FlushRejected, EmptyCache, View
<1>7. CASE FlushFault
  <2>1. PICK k \in 0 .. cacheSectors :
          disk' = [a \in Addr |-> IF Cached(a) /\ a < Base(cacheLba) + Base(k)
                                  THEN View[a] ELSE disk[a]]
    BY <1>7 DEF FlushFault
  <2>2. disk' \in [Addr -> Val]
    BY <2>1, <1>2
  <2>3. lost' = lost \cup {a \in Addr : Cached(a)} /\ EmptyCache /\ Fault
    BY <1>7 DEF FlushFault
  <2>4. faults' \in 0 .. MaxFaults
    BY <2>3, SizesAssumption DEF Fault
  <2>5. \A a \in Addr : ~Cached(a) => disk'[a] = disk[a] /\ disk[a] = View[a]
    BY <2>1 DEF View
  <2> QED
    BY <2>2, <2>3, <2>4, <2>5, <1>3 DEF EmptyCache
<1> QED
  BY <1>4, <1>5, <1>6, <1>7 DEF Flush
-----------------------------------------------------------------------------
(* The invariant holds initially and is preserved by every action.          *)

\* The cache is empty at first.
LEMMA InitInv == Init => IndInv
<1> SUFFICES ASSUME Init PROVE IndInv
  OBVIOUS
<1>1. Base(0) = 0
  BY BaseFacts
<1>2. TypeOK
  <2>1. buf \in [0 .. (IF kind = "read" THEN done ELSE count) - 1 -> Val]
    BY DEF Init, NoData
  <2>2. disk \in [Addr -> Val] /\ written \in [Addr -> Val]
    BY InputsAssumption DEF Init
  <2>3. faults \in 0 .. MaxFaults /\ ops \in 0 .. MaxOps
    BY SizesAssumption DEF Init
  <2>4. pc \in Labels /\ kind \in {"none", "read", "write", "sync"} /\ res \in Nat \cup {-1}
    BY DEF Init, Labels
  <2>5. alloc \in BOOLEAN /\ seqIo \in BOOLEAN /\ lost \subseteq Addr
    BY DEF Init
  <2>6. /\ cacheLba \in Nat /\ cacheSectors \in Nat /\ partType \in 0 .. 2
        /\ offset \in Nat /\ partSectors \in Nat /\ curPos \in Int
        /\ start \in Nat /\ count \in Nat /\ done \in Nat /\ done <= count
    BY DEF Init
  <2> QED
    BY <2>1, <2>2, <2>3, <2>4, <2>5, <2>6 DEF TypeOK
<1>3. CacheFits
  BY <1>1, SizesAssumption DEF Init, CacheFits, NoData
<1>4. Coherent
  BY <1>1, SizesAssumption DEF Init, Coherent, View, Cached, Addr
<1>5. ReadsReturnWrites /\ Control /\ BounceOk
  BY DEF Init, ReadsReturnWrites, Control, BounceOk
<1> QED
  BY <1>2, <1>3, <1>4, <1>5 DEF IndInv

\* What is not touched by a step that neither moves data nor the cache.
LEMMA QuietStep ==
    ASSUME IndInv, UNCHANGED <<disk, cacheVars, ghostVars>>
    PROVE  CacheFits' /\ Coherent'
<1>1. CacheFits'
  BY DEF IndInv, CacheFits, cacheVars
<1>2. View' = View
  BY DEF View, Cached, cacheVars
<1>3. Coherent'
  BY <1>2 DEF IndInv, Coherent, ghostVars
<1> QED
  BY <1>1, <1>3

\* The partition is set.
LEMMA SetPartitionInv == ASSUME IndInv, SetPartition PROVE IndInv'
<1>1. CacheFits' /\ Coherent'
  BY QuietStep DEF SetPartition
<1>2. TypeOK'
  BY InputsAssumption, SizesAssumption
  DEF IndInv, TypeOK, SetPartition, cacheVars, reqVars, ghostVars
<1>3. ReadsReturnWrites' /\ Control' /\ BounceOk'
  BY DEF IndInv, ReadsReturnWrites, Control, BounceOk, SetPartition, cacheVars, reqVars, ghostVars
<1> QED
  BY <1>1, <1>2, <1>3 DEF IndInv

\* The position is set.
LEMMA LseekInv == ASSUME IndInv, Lseek PROVE IndInv'
<1>1. CacheFits' /\ Coherent'
  BY QuietStep DEF Lseek
<1>2. TypeOK'
  BY SizesAssumption
  DEF IndInv, TypeOK, Lseek, cacheVars, partVars, reqVars, ghostVars
<1>3. ReadsReturnWrites' /\ Control' /\ BounceOk'
  BY DEF IndInv, ReadsReturnWrites, Control, BounceOk, Lseek, cacheVars, partVars, reqVars, ghostVars
<1> QED
  BY <1>1, <1>2, <1>3 DEF IndInv

\* Opening a call: every entry point is a use of Call.
LEMMA CallInv ==
    ASSUME IndInv,
           NEW k \in {"read", "write", "sync"}, NEW off \in Nat, NEW n \in Nat,
           NEW data, NEW at \in BOOLEAN,
           data \in [0 .. (IF k = "read" THEN 0 ELSE n) - 1 -> Val],
           k = "sync" => ~at,
           Call(k, off, n, data, at)
    PROVE  IndInv'
<1>1. CacheFits' /\ Coherent'
  BY QuietStep DEF Call
<1>2. Base(offset) \in Nat
  BY BaseFacts DEF IndInv, TypeOK
<1>3. TypeOK'
  BY <1>2, SizesAssumption
  DEF IndInv, TypeOK, Call, ActualOffset, Labels, cacheVars, partVars, ghostVars
<1>4. start' >= Base(offset)
  BY <1>2 DEF Call, ActualOffset
<1>5. Control'
  BY <1>4 DEF IndInv, Control, Call, ActualOffset, cacheVars, partVars
<1>6. ReadsReturnWrites' /\ BounceOk'
  BY DEF ReadsReturnWrites, BounceOk, Call
<1> QED
  BY <1>1, <1>3, <1>5, <1>6 DEF IndInv

\* A call begins.
LEMMA BeginInv == ASSUME IndInv, Begin PROVE IndInv'
<1>1. NoData \in [0 .. 0 - 1 -> Val]
  BY DEF NoData
<1>2. CASE Pread
  <2>1. PICK off \in 0 .. MaxOff, n \in Lengths : Call("read", off, n, NoData, FALSE)
    BY <1>2 DEF Pread
  <2>2. off \in Nat /\ n \in Nat
    BY InputsAssumption, SizesAssumption
  <2> QED
    BY <1>1, <2>1, <2>2, CallInv
<1>3. \A n \in Lengths, data \in Payloads : n \in Nat /\ Take(data, n) \in [0 .. n - 1 -> Val]
  BY InputsAssumption, SizesAssumption DEF Take
<1>4. CASE Pwrite
  <2>1. PICK off \in 0 .. MaxOff, n \in Lengths, data \in Payloads :
          Call("write", off, n, Take(data, n), FALSE)
    BY <1>4 DEF Pwrite
  <2>2. off \in Nat /\ n \in Nat /\ Take(data, n) \in [0 .. n - 1 -> Val]
    BY <1>3, SizesAssumption
  <2> QED
    BY <2>1, <2>2, CallInv
<1>5. CASE ReadAtPos
  <2>1. PICK n \in Lengths : Call("read", curPos, n, NoData, TRUE)
    BY <1>5 DEF ReadAtPos
  <2>2. curPos \in Nat /\ n \in Nat
    BY <1>5, InputsAssumption, SizesAssumption DEF ReadAtPos
  <2> QED
    BY <1>1, <2>1, <2>2, CallInv
<1>6. CASE WriteAtPos
  <2>1. PICK n \in Lengths, data \in Payloads :
          Call("write", curPos, n, Take(data, n), TRUE)
    BY <1>6 DEF WriteAtPos
  <2>2. curPos \in Nat /\ n \in Nat /\ Take(data, n) \in [0 .. n - 1 -> Val]
    BY <1>3, <1>6, SizesAssumption DEF WriteAtPos
  <2> QED
    BY <2>1, <2>2, CallInv
<1>7. CASE Sync
  <2>1. Call("sync", 0, 0, NoData, FALSE)
    BY <1>7 DEF Sync
  <2> QED
    BY <1>1, <2>1, CallInv
<1> QED
  BY <1>2, <1>4, <1>5, <1>6, <1>7, SetPartitionInv, LseekInv DEF Begin
-----------------------------------------------------------------------------

\* A call that returns without having moved data in its last step.
LEMMA QuietReturn ==
    ASSUME IndInv, NEW r \in Nat \cup {-1}, Return(r),
           UNCHANGED <<disk, cacheVars, ghostVars>>,
           faults' \in 0 .. MaxFaults,
           kind = "sync" => cacheSectors = 0
    PROVE  IndInv'
<1>1. CacheFits' /\ Coherent'
  BY QuietStep
<1>2. curPos' \in Int
  BY DEF Return, NextPos, IndInv, TypeOK
<1>3. pc' \in Labels /\ res' \in Nat \cup {-1}
  BY DEF Return, Labels
<1>4. TypeOK'
  BY <1>2, <1>3 DEF IndInv, TypeOK, Return, cacheVars, partVars, reqVars, ghostVars
<1>5. ReadsReturnWrites' /\ Control' /\ BounceOk'
  BY DEF IndInv, ReadsReturnWrites, Control, BounceOk, Return, cacheVars, partVars, reqVars, ghostVars
<1> QED
  BY <1>1, <1>4, <1>5 DEF IndInv

\* A command fails.
LEMMA FailureInv ==
    ASSUME IndInv, LoopEnd \/ ReadCmdFails \/ MallocFails \/ RmwReadFails \/ SyncCmd
    PROVE  IndInv'
<1>1. faults \in 0 .. MaxFaults /\ done \in Nat /\ MaxFaults \in Nat
  BY SizesAssumption DEF IndInv, TypeOK
<1>2. Fault => faults' \in 0 .. MaxFaults
  BY <1>1 DEF Fault
<1>3. CASE LoopEnd
  BY <1>1, <1>3, QuietReturn DEF LoopEnd, IndInv, Control
<1>4. CASE ReadCmdFails
  <2>1. faults' \in 0 .. MaxFaults
    BY <1>1, <1>2, <1>4 DEF ReadCmdFails
  <2> QED
    BY <2>1, <1>4, QuietReturn DEF ReadCmdFails, IndInv, Control
<1>5. CASE MallocFails
  BY <1>2, <1>5, QuietReturn DEF MallocFails, IndInv, Control
<1>6. CASE RmwReadFails
  <2>1. faults' \in 0 .. MaxFaults
    BY <1>1, <1>2, <1>6 DEF RmwReadFails
  <2> QED
    BY <2>1, <1>6, QuietReturn DEF RmwReadFails, IndInv, Control
<1>7. CASE SyncCmd
  <2>1. faults' \in 0 .. MaxFaults
    BY <1>1, <1>2, <1>7 DEF SyncCmd
  <2> QED
    BY <2>1, <1>7, QuietReturn DEF SyncCmd, IndInv, Control
<1> QED
  BY <1>3, <1>4, <1>5, <1>6, <1>7

\* The four steps that flush and then go on to a command.
LEMMA FlushStepInv ==
    ASSUME IndInv, LoopRead \/ LoopReplace \/ LoopPartial \/ SyncFlush
    PROVE  IndInv'
<1>1. PICK l \in {"readCmd", "fill", "rmwRead", "syncCmd"} :
        /\ Flush /\ Goto(l) /\ UNCHANGED <<written, done, bounce>>
        /\ l = "readCmd" => kind = "read" /\ done < count
        /\ l = "fill" => kind = "write" /\ done < count /\ Aligned
        /\ l = "rmwRead" => kind = "write" /\ done < count /\ ~Aligned
        /\ l = "syncCmd" => kind = "sync" /\ ~seqIo
  BY DEF LoopRead, LoopReplace, LoopPartial, SyncFlush, IndInv, Control
<1>2. /\ disk' \in [Addr -> Val]
      /\ lost' \subseteq Addr /\ lost \subseteq lost'
      /\ cacheSectors' = 0 /\ cacheBuf' \in [0 .. Base(0) - 1 -> Val]
      /\ alloc' = alloc /\ cacheLba' = cacheLba
      /\ faults' \in 0 .. MaxFaults
      /\ \A a \in Addr \ lost' : disk'[a] = View[a]
  BY <1>1, FlushFacts DEF IndInv
<1>3. Base(0) = 0 /\ Base(cacheLba) \in Nat
  BY BaseFacts DEF IndInv, TypeOK
<1>4. TypeOK'
  BY <1>1, <1>2 DEF IndInv, TypeOK, Goto, Labels, partVars, reqVars
<1>5. CacheFits'
  BY <1>2, <1>3, SizesAssumption DEF CacheFits
<1>6. \A a \in Addr : View'[a] = disk'[a]
  <2>1. \A a \in Addr : ~Cached(a)'
    BY <1>2, <1>3, SizesAssumption DEF Cached, Addr
  <2> QED
    BY <2>1 DEF View
<1>7. Coherent'
  BY <1>1, <1>2, <1>6 DEF IndInv, Coherent
<1>8. ReadsReturnWrites'
  BY <1>1, <1>2 DEF IndInv, ReadsReturnWrites, Goto, reqVars
<1>9. Aligned' <=> Aligned
  BY <1>1 DEF Goto, reqVars, Aligned, OffsetInSector, Cur, Remaining
<1>10. start >= Base(offset)
  BY DEF IndInv, Control, LoopRead, LoopReplace, LoopPartial, SyncFlush
<1>11. Control'
  BY <1>1, <1>2, <1>9, <1>10 DEF IndInv, Control, Goto, partVars, reqVars
<1>12. BounceOk'
  BY <1>1 DEF BounceOk, Goto
<1> QED
  BY <1>4, <1>5, <1>7, <1>8, <1>11, <1>12 DEF IndInv
\* The units READ(10) delivers are on the medium and, the cache being empty,
\* are what was last written.
LEMMA ReadCmdInv == ASSUME IndInv, ReadCmd PROVE IndInv'
<1>1. /\ TypeOK /\ done < count /\ kind = "read" /\ cacheSectors = 0 /\ start >= Base(offset)
  BY DEF IndInv, Control, ReadCmd
<1>2. /\ Cur \in Nat /\ Lba \in Nat /\ ReadSectors \in Nat
      /\ ReadLen \in 1 .. Remaining
      /\ Cur + ReadLen <= Base(Lba) + Base(ReadSectors)
  BY <1>1, ReadLenFacts
<1>3. /\ done \in Nat /\ count \in Nat /\ start \in Nat /\ Cur = start + done
      /\ Remaining = count - done
  BY <1>1 DEF TypeOK, Cur, Remaining
<1>4. Base(Lba) + Base(ReadSectors) <= Base(SectorCount)
  <2>1. Lba + ReadSectors <= SectorCount
    BY DEF ReadCmd, OnMedium
  <2>2. Lba + ReadSectors \in Nat
    BY <1>2
  <2>3. Base(Lba + ReadSectors) <= Base(SectorCount)
    BY <2>1, <2>2, BaseFacts, SizesAssumption
  <2> QED
    BY <2>3, <1>2, BaseFacts
<1>5. Base(Lba) \in Nat /\ Base(ReadSectors) \in Nat
  BY <1>2, BaseFacts
<1>6. \A i \in done .. done + ReadLen - 1 : start + i \in Addr
  BY <1>2, <1>3, <1>4, <1>5, AddrFacts
<1>7. \A a \in Addr : View[a] = disk[a]
  BY <1>1, EmptyView
<1>8. done' = done + ReadLen /\ done' \in Nat /\ done' <= count
  BY <1>2, <1>3 DEF ReadCmd
<1>9. buf' \in [0 .. done' - 1 -> Val]
  <2>1. buf \in [0 .. done - 1 -> Val] /\ disk \in [Addr -> Val]
    BY <1>1 DEF TypeOK
  <2>2. buf' = [i \in 0 .. done' - 1 |-> IF i < done THEN buf[i] ELSE disk[start + i]]
    <3>1. done' - 1 = done + ReadLen - 1
      BY <1>2, <1>3, <1>8
    <3>2. buf' = [i \in 0 .. done + ReadLen - 1 |-> IF i < done THEN buf[i] ELSE disk[start + i]]
      BY DEF ReadCmd
    <3> QED
      BY <3>1, <3>2, Zenon
  <2>3. ASSUME NEW i \in 0 .. done' - 1
        PROVE  (IF i < done THEN buf[i] ELSE disk[start + i]) \in Val
    <3>1. i < done => i \in 0 .. done - 1
      BY <1>3, <1>8
    <3>2. ~(i < done) => start + i \in Addr
      BY <1>2, <1>3, <1>6, <1>8
    <3> QED
      BY <2>1, <3>1, <3>2
  <2> QED
    BY <2>2, <2>3
<1>10. TypeOK'
  BY <1>1, <1>8, <1>9 DEF ReadCmd, TypeOK, Labels, cacheVars, partVars, ghostVars
<1>11. CacheFits' /\ Coherent'
  BY QuietStep DEF ReadCmd
<1>12. ReadsReturnWrites'
  <2> SUFFICES ASSUME NEW i \in 0 .. done' - 1, start + i \notin lost
               PROVE  buf'[i] = written[start + i]
    BY DEF ReadsReturnWrites, ReadCmd, ghostVars
  <2>1. CASE i < done
    <3>1. i \in 0 .. done - 1 /\ i \in 0 .. done + ReadLen - 1
      BY <2>1, <1>2, <1>3, <1>8
    <3>2. buf[i] = written[start + i]
      BY <3>1, <1>1 DEF IndInv, ReadsReturnWrites
    <3>3. buf' = [j \in 0 .. done + ReadLen - 1 |-> IF j < done THEN buf[j] ELSE disk[start + j]]
      BY DEF ReadCmd
    <3> QED
      BY <2>1, <3>1, <3>2, <3>3
  <2>2. CASE i >= done
    <3>1. i \in done .. done + ReadLen - 1
      BY <2>2, <1>2, <1>3, <1>8
    <3>2. start + i \in Addr \ lost
      BY <3>1, <1>6
    <3>3. buf'[i] = disk[start + i]
      BY <3>1, <1>2, <1>3, <1>8, SMTT(30) DEF ReadCmd
    <3> QED
      BY <3>2, <3>3, <1>7 DEF IndInv, Coherent
  <2> QED
    BY <2>1, <2>2, <1>3, <1>8
<1>13. Control' /\ BounceOk'
  BY <1>1 DEF IndInv, Control, BounceOk, ReadCmd, cacheVars, partVars
<1> QED
  BY <1>10, <1>11, <1>12, <1>13 DEF IndInv

\* Accepting n units keeps the request and the history well typed.
LEMMA AcceptFacts ==
    ASSUME TypeOK, kind = "write", NEW n \in 1 .. Remaining, Accept(n)
    PROVE  /\ written' \in [Addr -> Val] /\ lost' \subseteq Addr
           /\ done' \in Nat /\ done' <= count
           /\ \A a \in Addr : ~(Cur <= a /\ a < Cur + n) =>
                                   written'[a] = written[a] /\ (a \in lost' <=> a \in lost)
           /\ \A a \in Addr : Cur <= a /\ a < Cur + n =>
                                   /\ a - start \in 0 .. count - 1
                                   /\ written'[a] = buf[a - start] /\ a \notin lost'
<1>1. /\ done \in Nat /\ count \in Nat /\ start \in Nat /\ Cur = start + done
      /\ Remaining = count - done /\ buf \in [0 .. count - 1 -> Val]
      /\ written \in [Addr -> Val] /\ lost \subseteq Addr
  BY DEF TypeOK, Cur, Remaining
<1>2. \A a \in Addr : Cur <= a /\ a < Cur + n => a - start \in 0 .. count - 1
  BY <1>1 DEF Addr
<1>3. written' \in [Addr -> Val]
  BY <1>1, <1>2 DEF Accept, Span
<1>4. done' \in Nat /\ done' <= count
  BY <1>1 DEF Accept
<1> QED
  BY <1>1, <1>2, <1>3, <1>4 DEF Accept, Span

\* The empty cache takes a request.
LEMMA FillInv == ASSUME IndInv, Fill PROVE IndInv'
<1>1. TypeOK /\ done < count /\ kind = "write" /\ cacheSectors = 0 /\ Aligned /\ start >= Base(offset)
  BY DEF IndInv, Control, Fill
<1> DEFINE n == Base(WriteSectors)
<1>2. /\ Cur \in Nat /\ Lba \in Nat /\ Cur = Base(Lba)
      /\ WriteSectors \in 1 .. MaxXfer /\ n \in 1 .. Remaining
  BY <1>1, WriteFacts
<1>3. /\ done \in Nat /\ count \in Nat /\ start \in Nat /\ Cur = start + done
      /\ Remaining = count - done /\ buf \in [0 .. count - 1 -> Val]
  BY <1>1 DEF TypeOK, Cur, Remaining
<1>4. Accept(n)
  BY DEF Fill
<1> HIDE DEF n
<1>5. /\ written' \in [Addr -> Val] /\ lost' \subseteq Addr
      /\ done' \in Nat /\ done' <= count
      /\ \A a \in Addr : ~(Cur <= a /\ a < Cur + n) =>
                              written'[a] = written[a] /\ (a \in lost' <=> a \in lost)
      /\ \A a \in Addr : Cur <= a /\ a < Cur + n =>
                              /\ a - start \in 0 .. count - 1
                              /\ written'[a] = buf[a - start] /\ a \notin lost'
  BY <1>1, <1>2, <1>4, AcceptFacts
<1>6. /\ cacheLba' = Lba /\ cacheSectors' = WriteSectors /\ alloc' = TRUE
      /\ cacheBuf' = [i \in 0 .. n - 1 |-> buf[done + i]]
      /\ disk' = disk /\ faults' = faults /\ pc' = "loop" /\ kind' = kind
      /\ Base(cacheLba)' = Cur /\ Base(cacheSectors)' = n
  BY <1>2 DEF Fill, Goto, reqVars, Base, n
<1>7. cacheBuf' \in [0 .. n - 1 -> Val]
  BY <1>2, <1>3, <1>6
<1>8. TypeOK'
  BY <1>1, <1>2, <1>5, <1>6 DEF TypeOK, Labels, Fill, Goto, partVars, reqVars
<1>9. CacheFits'
  BY <1>2, <1>6, <1>7, SizesAssumption DEF CacheFits
<1>10. Coherent'
  <2> SUFFICES ASSUME NEW a \in Addr, a \notin lost' PROVE View'[a] = written'[a]
    BY DEF Coherent
  <2>1. View'[a] = IF Cur <= a /\ a < Cur + n THEN cacheBuf'[a - Cur] ELSE disk[a]
    BY <1>6 DEF View, Cached
  <2>2. CASE Cur <= a /\ a < Cur + n
    <3>1. a - Cur \in 0 .. n - 1 /\ done + (a - Cur) = a - start
      BY <2>2, <1>2, <1>3, AddrFacts
    <3>2. cacheBuf'[a - Cur] = buf[done + (a - Cur)]
      BY <3>1, <1>6
    <3>3. written'[a] = buf[a - start]
      BY <2>2, <1>5
    <3> QED
      BY <2>1, <2>2, <3>1, <3>2, <3>3
  <2>3. CASE ~(Cur <= a /\ a < Cur + n)
    <3>1. View[a] = disk[a]
      BY <1>1, EmptyView
    <3> QED
      BY <2>1, <2>3, <3>1, <1>5 DEF IndInv, Coherent
  <2> QED
    BY <2>2, <2>3
<1>11. Base(cacheLba)' >= Base(offset)'
  <2>1. offset' = offset /\ Base(offset) \in Nat
    BY <1>1, BaseFacts DEF Fill, Goto, partVars, TypeOK
  <2>2. Base(offset)' = Base(offset)
    BY <2>1 DEF Base
  <2> QED
    BY <1>1, <1>2, <1>3, <1>6, <2>1, <2>2
<1>12. Control'
  BY <1>1, <1>6, <1>11 DEF IndInv, Control, Fill, Goto, partVars, reqVars
<1>13. ReadsReturnWrites' /\ BounceOk'
  BY <1>1, <1>6 DEF ReadsReturnWrites, BounceOk
<1> QED
  BY <1>8, <1>9, <1>10, <1>12, <1>13 DEF IndInv
\* The cache takes the request that follows it.
LEMMA AppendInv == ASSUME IndInv, LoopAppend PROVE IndInv'
<1>1. /\ TypeOK /\ done < count /\ kind = "write" /\ Aligned /\ start >= Base(offset)
      /\ cacheSectors > 0 /\ Lba = cacheLba + cacheSectors
      /\ cacheSectors + WriteSectors <= MaxCache
  BY DEF IndInv, Control, LoopAppend, CanAdd
<1> DEFINE n == Base(WriteSectors)
           c == Base(cacheSectors)
<1>2. /\ Cur \in Nat /\ Lba \in Nat /\ Cur = Base(Lba)
      /\ WriteSectors \in 1 .. MaxXfer /\ n \in 1 .. Remaining
  BY <1>1, WriteFacts
<1>3. /\ done \in Nat /\ count \in Nat /\ start \in Nat /\ Cur = start + done
      /\ Remaining = count - done /\ buf \in [0 .. count - 1 -> Val]
      /\ cacheSectors \in Nat /\ cacheLba \in Nat
  BY <1>1 DEF TypeOK, Cur, Remaining
<1>4. Accept(n)
  BY DEF LoopAppend
<1>5. /\ c \in Nat /\ Base(cacheLba) \in Nat /\ Cur = Base(cacheLba) + c
      /\ Base(cacheSectors + WriteSectors) = c + n
  <2>1. c \in Nat /\ Base(cacheLba) \in Nat
    BY <1>3, BaseFacts
  <2>2. Base(cacheLba + cacheSectors) = Base(cacheLba) + c
    BY <1>3, BaseFacts
  <2>3. WriteSectors \in Nat
    BY <1>2, SizesAssumption
  <2>4. Base(cacheSectors + WriteSectors) = c + n
    BY <1>3, <2>3, BaseFacts
  <2> QED
    BY <1>1, <1>2, <2>1, <2>2, <2>4
<1>6. /\ cacheLba' = cacheLba /\ cacheSectors' = cacheSectors + WriteSectors /\ alloc' = alloc
      /\ cacheBuf' = [i \in 0 .. c + n - 1 |->
                        IF i < c THEN cacheBuf[i] ELSE buf[done + i - c]]
      /\ disk' = disk /\ faults' = faults /\ pc' = "loop" /\ kind' = kind
      /\ Base(cacheLba)' = Base(cacheLba)
  BY DEF LoopAppend, Goto, reqVars, Base
<1>7. Base(cacheSectors)' = c + n
  BY <1>5, <1>6 DEF Base
<1>8. cacheBuf \in [0 .. c - 1 -> Val] /\ alloc
  BY <1>1 DEF IndInv, CacheFits
<1> HIDE DEF n, c
<1>9. /\ written' \in [Addr -> Val] /\ lost' \subseteq Addr
      /\ done' \in Nat /\ done' <= count
      /\ \A a \in Addr : ~(Cur <= a /\ a < Cur + n) =>
                              written'[a] = written[a] /\ (a \in lost' <=> a \in lost)
      /\ \A a \in Addr : Cur <= a /\ a < Cur + n =>
                              /\ a - start \in 0 .. count - 1
                              /\ written'[a] = buf[a - start] /\ a \notin lost'
  BY <1>1, <1>2, <1>4, AcceptFacts
<1>10. cacheBuf' \in [0 .. c + n - 1 -> Val]
  BY <1>2, <1>3, <1>5, <1>6, <1>8
<1>11. TypeOK'
  BY <1>1, <1>2, <1>3, <1>6, <1>9
  DEF TypeOK, Labels, LoopAppend, Goto, partVars, reqVars
<1>12. CacheFits'
  <2>1. cacheSectors' <= MaxCache /\ alloc'
    BY <1>1, <1>6, <1>8
  <2>2. cacheBuf' \in [0 .. Base(cacheSectors)' - 1 -> Val]
    <3>1. Base(cacheSectors)' - 1 = c + n - 1
      BY <1>2, <1>3, <1>5, <1>7
    <3> QED
      BY <3>1, <1>10, Zenon
  <2> QED
    BY <2>1, <2>2 DEF CacheFits
<1>13. Coherent'
  <2> SUFFICES ASSUME NEW a \in Addr, a \notin lost' PROVE View'[a] = written'[a]
    BY DEF Coherent
  <2>0. a \in Nat
    BY AddrFacts
  <2>1. View'[a] = IF Base(cacheLba) <= a /\ a < Base(cacheLba) + (c + n)
                   THEN cacheBuf'[a - Base(cacheLba)] ELSE disk[a]
    BY <1>6, <1>7 DEF View, Cached
  <2>2. View[a] = IF Base(cacheLba) <= a /\ a < Base(cacheLba) + c
                  THEN cacheBuf[a - Base(cacheLba)] ELSE disk[a]
    BY DEF View, Cached, c
  <2>3. CASE Cur <= a /\ a < Cur + n
    <3>1. a - Base(cacheLba) \in 0 .. c + n - 1 /\ ~(a - Base(cacheLba) < c)
      BY <2>0, <2>3, <1>2, <1>3, <1>5
    <3>2. View'[a] = cacheBuf'[a - Base(cacheLba)]
      <4>1. Base(cacheLba) <= a /\ a < Base(cacheLba) + (c + n)
        BY <2>0, <2>3, <1>2, <1>3, <1>5
      <4> QED
        BY <2>1, <4>1
    <3>4. \A i \in 0 .. c + n - 1 : ~(i < c) => cacheBuf'[i] = buf[done + i - c]
      BY <1>6
    <3>3. done + (a - Base(cacheLba)) - c = a - start
      BY <2>0, <1>2, <1>3, <1>5, SMTT(30)
    <3> QED
      BY <2>3, <3>1, <3>2, <3>3, <3>4, <1>9
  <2>4. CASE ~(Cur <= a /\ a < Cur + n)
    <3>1. View'[a] = View[a]
      <4>1. CASE Base(cacheLba) <= a /\ a < Base(cacheLba) + c
        <5>1. a - Base(cacheLba) \in 0 .. c + n - 1 /\ a - Base(cacheLba) < c
          BY <4>1, <2>0, <1>2, <1>3, <1>5
        <5> QED
          BY <5>1, <4>1, <2>0, <2>1, <2>2, <1>2, <1>3, <1>5, <1>6
      <4>2. CASE ~(Base(cacheLba) <= a /\ a < Base(cacheLba) + c)
        <5>1. ~(Base(cacheLba) <= a /\ a < Base(cacheLba) + (c + n))
          BY <4>2, <2>0, <2>4, <1>2, <1>3, <1>5
        <5> QED
          BY <4>2, <5>1, <2>1, <2>2
      <4> QED
        BY <4>1, <4>2
    <3> QED
      BY <2>4, <3>1, <1>9 DEF IndInv, Coherent
  <2> QED
    BY <2>3, <2>4
<1>14. Control'
  <2>1. offset' = offset /\ start' = start
    BY DEF LoopAppend, Goto, partVars, reqVars
  <2>2. Base(offset)' = Base(offset)
    BY <2>1 DEF Base
  <2> QED
    BY <1>1, <1>6, <2>1, <2>2 DEF IndInv, Control
<1>15. ReadsReturnWrites' /\ BounceOk'
  BY <1>1, <1>6 DEF ReadsReturnWrites, BounceOk
<1> QED
  BY <1>11, <1>12, <1>13, <1>14, <1>15 DEF IndInv

\* A sector is read to be modified.
LEMMA RmwReadInv == ASSUME IndInv, RmwRead PROVE IndInv'
<1>1. TypeOK /\ done < count /\ kind = "write" /\ OnMedium(Lba, 1) /\ pc' = "rmwWrite"
  BY DEF IndInv, Control, RmwRead, Goto
<1>2. /\ Cur \in Nat /\ Lba \in Nat /\ Base(Lba) \in Nat
      /\ OffsetInSector \in 0 .. SectorSize - 1 /\ ToWrite \in 1 .. Remaining
  BY <1>1, PartialFacts
<1>3. /\ done \in Nat /\ count \in Nat /\ Remaining = count - done
      /\ buf \in [0 .. count - 1 -> Val] /\ disk \in [Addr -> Val]
  BY <1>1 DEF TypeOK, Remaining
<1>4. Base(Lba) + SectorSize <= Base(SectorCount)
  <2>1. Lba + 1 <= SectorCount
    BY <1>1 DEF OnMedium
  <2> QED
    BY <2>1, <1>2, BaseFacts, SizesAssumption
<1>5. \A i \in 0 .. SectorSize - 1 : Base(Lba) + i \in Addr
  BY <1>2, <1>4, AddrFacts, SizesAssumption
<1>6. \A i \in 0 .. SectorSize - 1 :
        OffsetInSector <= i /\ i < OffsetInSector + ToWrite
            => done + i - OffsetInSector \in 0 .. count - 1
  BY <1>2, <1>3, SizesAssumption
<1>7. bounce' \in [0 .. SectorSize - 1 -> Val]
  BY <1>3, <1>5, <1>6 DEF RmwRead
<1>8. CacheFits' /\ Coherent'
  BY QuietStep DEF RmwRead
<1>9. TypeOK'
  BY <1>1 DEF TypeOK, Labels, RmwRead, Goto, cacheVars, partVars, reqVars, ghostVars
<1>10. UNCHANGED <<Lba, OffsetInSector, ToWrite, Aligned, Base(Lba), buf, done, disk>>
  BY DEF RmwRead, Goto, reqVars, Lba, OffsetInSector, ToWrite, Aligned, Cur, Remaining, Base
<1>11. Control'
  BY <1>10 DEF IndInv, Control, RmwRead, Goto, cacheVars, partVars, reqVars
<1>12. BounceOk'
  <2>1. OnMedium(Lba, 1)'
    BY <1>1, <1>10 DEF OnMedium
  <2>2. \A i \in 0 .. SectorSize - 1 :
          bounce'[i] = IF OffsetInSector <= i /\ i < OffsetInSector + ToWrite
                       THEN buf[done + i - OffsetInSector] ELSE disk[Base(Lba) + i]
    BY DEF RmwRead
  <2> QED
    BY <2>1, <2>2, <1>7, <1>10 DEF BounceOk
<1>13. ReadsReturnWrites'
  BY <1>1 DEF ReadsReturnWrites, RmwRead, Goto, reqVars
<1> QED
  BY <1>8, <1>9, <1>11, <1>12, <1>13 DEF IndInv
\* Writing the bounce buffer back changes exactly the units of the request:
\* the rest of the sector is rewritten with what it held.
LEMMA BounceFacts ==
    ASSUME IndInv, pc = "rmwWrite"
    PROVE  /\ WithBounce \in [Addr -> Val]
           /\ \A a \in Addr : Cur <= a /\ a < Cur + ToWrite => a - start \in 0 .. count - 1
           /\ \A a \in Addr : WithBounce[a] = IF Cur <= a /\ a < Cur + ToWrite
                                             THEN buf[a - start] ELSE disk[a]
<1>1. TypeOK /\ done < count /\ kind = "write"
  BY DEF IndInv, Control
<1>2. /\ Cur \in Nat /\ Lba \in Nat /\ Base(Lba) \in Nat
      /\ OffsetInSector \in 0 .. SectorSize - 1 /\ ToWrite \in 1 .. Remaining
      /\ Cur = Base(Lba) + OffsetInSector /\ OffsetInSector + ToWrite <= SectorSize
  BY <1>1, PartialFacts
<1>3. /\ done \in Nat /\ count \in Nat /\ Remaining = count - done /\ start \in Nat
      /\ buf \in [0 .. count - 1 -> Val] /\ disk \in [Addr -> Val] /\ Cur = start + done
      /\ SectorSize \in Nat
  BY <1>1, SizesAssumption DEF TypeOK, Remaining, Cur
<1>4. /\ bounce \in [0 .. SectorSize - 1 -> Val]
      /\ \A i \in 0 .. SectorSize - 1 :
            bounce[i] = IF OffsetInSector <= i /\ i < OffsetInSector + ToWrite
                        THEN buf[done + i - OffsetInSector] ELSE disk[Base(Lba) + i]
  BY DEF IndInv, BounceOk
<1>5. ASSUME NEW a \in Addr
      PROVE  /\ Cur <= a /\ a < Cur + ToWrite => a - start \in 0 .. count - 1
             /\ WithBounce[a] \in Val
             /\ WithBounce[a] = IF Cur <= a /\ a < Cur + ToWrite
                                THEN buf[a - start] ELSE disk[a]
  <2>0. a \in Nat
    BY AddrFacts
  <2>1. Cur <= a /\ a < Cur + ToWrite => a - start \in 0 .. count - 1
    BY <2>0, <1>2, <1>3
  <2>2. CASE Base(Lba) <= a /\ a < Base(Lba) + SectorSize
    <3> DEFINE i == a - Base(Lba)
    <3>1. i \in 0 .. SectorSize - 1 /\ Base(Lba) + i = a
      BY <2>0, <2>2, <1>2, <1>3
    <3>2. (OffsetInSector <= i /\ i < OffsetInSector + ToWrite)
             <=> (Cur <= a /\ a < Cur + ToWrite)
      BY <2>0, <3>1, <1>2, <1>3
    <3>3. done + i - OffsetInSector = a - start
      BY <2>0, <1>2, <1>3
    <3>4. WithBounce[a] = bounce[i]
      BY <2>2 DEF WithBounce
    <3> HIDE DEF i
    <3> QED
      BY <2>1, <3>1, <3>2, <3>3, <3>4, <1>4
  <2>3. CASE ~(Base(Lba) <= a /\ a < Base(Lba) + SectorSize)
    <3>1. WithBounce[a] = disk[a]
      BY <2>3 DEF WithBounce
    <3>2. ~(Cur <= a /\ a < Cur + ToWrite)
      BY <2>0, <2>3, <1>2, <1>3
    <3> QED
      BY <2>1, <3>1, <3>2, <1>3
  <2> QED
    BY <2>2, <2>3
<1>6. WithBounce \in [Addr -> Val]
  BY <1>5 DEF WithBounce
<1> QED
  BY <1>5, <1>6

\* The modified sector is written.
LEMMA RmwWriteInv == ASSUME IndInv, RmwWrite PROVE IndInv'
<1>1. TypeOK /\ done < count /\ kind = "write" /\ cacheSectors = 0
      /\ pc = "rmwWrite" /\ start >= Base(offset)
  BY DEF IndInv, Control, RmwWrite
<1>2. ToWrite \in 1 .. Remaining
  BY <1>1, PartialFacts
<1>3. /\ WithBounce \in [Addr -> Val]
      /\ \A a \in Addr : WithBounce[a] = IF Cur <= a /\ a < Cur + ToWrite
                                        THEN buf[a - start] ELSE disk[a]
  BY <1>1, BounceFacts
<1>4. /\ written' \in [Addr -> Val] /\ lost' \subseteq Addr
      /\ done' \in Nat /\ done' <= count
      /\ \A a \in Addr : ~(Cur <= a /\ a < Cur + ToWrite) =>
                              written'[a] = written[a] /\ (a \in lost' <=> a \in lost)
      /\ \A a \in Addr : Cur <= a /\ a < Cur + ToWrite => written'[a] = buf[a - start]
  BY <1>1, <1>2, AcceptFacts DEF RmwWrite
<1>5. /\ disk' = WithBounce /\ pc' = "loop" /\ kind' = kind /\ start' = start
      /\ UNCHANGED <<cacheVars, partVars, reqVars, curPos, res, ops, faults>>
  BY DEF RmwWrite, Goto, reqVars
<1>6. TypeOK'
  BY <1>1, <1>3, <1>4, <1>5 DEF TypeOK, Labels, cacheVars, partVars, reqVars
<1>7. CacheFits'
  BY <1>5 DEF IndInv, CacheFits, cacheVars
<1>8. cacheSectors' = 0
  BY <1>1, <1>5 DEF cacheVars
<1>9. \A a \in Addr : View[a] = disk[a]
  BY <1>1, EmptyView
<1>10. \A a \in Addr : View'[a] = disk'[a]
  BY <1>6, <1>8, EmptyViewNext
<1>11. Coherent'
  BY <1>3, <1>4, <1>5, <1>9, <1>10 DEF IndInv, Coherent
<1>12. Control'
  BY <1>1, <1>5, <1>8 DEF IndInv, Control, partVars
<1>13. ReadsReturnWrites' /\ BounceOk'
  BY <1>1, <1>5 DEF ReadsReturnWrites, BounceOk
<1> QED
  BY <1>6, <1>7, <1>11, <1>12, <1>13 DEF IndInv

\* Or its write fails.
LEMMA RmwWriteFailsInv == ASSUME IndInv, RmwWriteFails PROVE IndInv'
<1>1. TypeOK /\ done < count /\ kind = "write" /\ cacheSectors = 0 /\ pc = "rmwWrite"
  BY DEF IndInv, Control, RmwWriteFails
<1>2. /\ WithBounce \in [Addr -> Val]
      /\ \A a \in Addr : WithBounce[a] = IF Cur <= a /\ a < Cur + ToWrite
                                        THEN buf[a - start] ELSE disk[a]
  BY <1>1, BounceFacts
<1>3. /\ disk' \in [Addr -> Val]
      /\ \A a \in Addr \ Span(ToWrite) : disk'[a] = disk[a]
  BY <1>1, <1>2 DEF RmwWriteFails, Span, TypeOK
<1>4. /\ lost' = lost \cup Span(ToWrite) /\ lost' \subseteq Addr
      /\ Return(-1) /\ UNCHANGED cacheVars /\ written' = written
      /\ pc' = "idle" /\ kind' = kind
  BY <1>1 DEF RmwWriteFails, Span, TypeOK, Return, reqVars
<1>5. faults' \in 0 .. MaxFaults
  BY <1>1, SizesAssumption DEF RmwWriteFails, Fault, TypeOK
<1>6. curPos' = curPos /\ res' = -1
  BY <1>4 DEF Return, NextPos
<1>7. TypeOK'
  BY <1>1, <1>3, <1>4, <1>5, <1>6 DEF TypeOK, Labels, Return, cacheVars, partVars, reqVars
<1>8. CacheFits' /\ cacheSectors' = 0
  BY <1>1, <1>4 DEF IndInv, CacheFits, cacheVars
<1>9. \A a \in Addr : View[a] = disk[a] /\ View'[a] = disk'[a]
  BY <1>1, <1>7, <1>8, EmptyView, EmptyViewNext
<1>10. Coherent'
  BY <1>3, <1>4, <1>9 DEF IndInv, Coherent
<1>11. ReadsReturnWrites' /\ Control' /\ BounceOk'
  BY <1>1, <1>4, <1>8 DEF ReadsReturnWrites, Control, BounceOk
<1> QED
  BY <1>7, <1>8, <1>10, <1>11 DEF IndInv
\* Every step keeps the invariant.
LEMMA NextInv == IndInv /\ [Next]_vars => IndInv'
<1> SUFFICES ASSUME IndInv, [Next]_vars PROVE IndInv'
  OBVIOUS
<1>1. CASE Begin
  BY <1>1, BeginInv
<1>2. CASE LoopEnd \/ ReadCmdFails \/ MallocFails \/ RmwReadFails \/ SyncCmd
  BY <1>2, FailureInv
<1>3. CASE LoopRead \/ LoopReplace \/ LoopPartial \/ SyncFlush
  BY <1>3, FlushStepInv
<1>4. CASE ReadCmd
  BY <1>4, ReadCmdInv
<1>5. CASE LoopAppend
  BY <1>5, AppendInv
<1>6. CASE Fill
  BY <1>6, FillInv
<1>7. CASE RmwRead
  BY <1>7, RmwReadInv
<1>8. CASE RmwWrite
  BY <1>8, RmwWriteInv
<1>9. CASE RmwWriteFails
  BY <1>9, RmwWriteFailsInv
<1>10. CASE UNCHANGED vars
  <2>1. CacheFits' /\ Coherent'
    BY <1>10, QuietStep DEF vars
  <2>2. TypeOK'
    BY <1>10 DEF IndInv, TypeOK, vars, cacheVars, partVars, reqVars, ghostVars
  <2>3. ReadsReturnWrites' /\ Control'
    BY <1>10 DEF IndInv, ReadsReturnWrites, Control, Aligned, OffsetInSector, Cur, Remaining,
                 Base, vars, cacheVars, partVars, reqVars, ghostVars
  <2>4. BounceOk'
    BY <1>10 DEF IndInv, BounceOk, OnMedium, Lba, OffsetInSector, ToWrite, Cur, Remaining, Base,
                 vars, reqVars
  <2> QED
    BY <2>1, <2>2, <2>3, <2>4 DEF IndInv
<1> QED
  BY <1>1, <1>2, <1>3, <1>4, <1>5, <1>6, <1>7, <1>8, <1>9, <1>10 DEF Next, Step

\* The inductive invariant holds in every reachable state.
THEOREM Invariance == Spec => []IndInv
<1>1. Init => IndInv
  BY InitInv
<1>2. IndInv /\ [Next]_vars => IndInv'
  BY NextInv
<1> QED
  BY <1>1, <1>2, PTL DEF Spec

\* scsi_io_internal keeps the driver's variables well typed.
THEOREM TypeCorrect == Spec => []TypeOK
<1>1. IndInv => TypeOK
  BY DEF IndInv
<1> QED
  BY <1>1, Invariance, PTL

\* The write cache never overflows its allocation, for any cache size that is
\* at least the limit of one iteration.
THEOREM CacheNeverOverflows == Spec => []CacheFits
<1>1. IndInv => CacheFits
  BY DEF IndInv
<1> QED
  BY <1>1, Invariance, PTL

\* Cache and medium together always hold what was accepted and not lost.
THEOREM CacheCoherent == Spec => []Coherent
<1>1. IndInv => Coherent
  BY DEF IndInv
<1> QED
  BY <1>1, Invariance, PTL

\* Reads return what was written last.
THEOREM ReadYourWrites == Spec => []ReadsReturnWrites
<1>1. IndInv => ReadsReturnWrites
  BY DEF IndInv
<1> QED
  BY <1>1, Invariance, PTL

\* After usb_scsi_sync everything accepted and not lost is on the medium.
THEOREM SyncIsBarrier == Spec => []SyncPublishes
<1>1. IndInv => SyncPublishes
  <2> SUFFICES ASSUME IndInv, pc = "idle", kind = "sync"
               PROVE  cacheSectors = 0 /\ \A a \in Addr \ lost : disk[a] = written[a]
    BY DEF SyncPublishes
  <2>1. cacheSectors = 0
    BY DEF IndInv, Control
  <2>2. \A a \in Addr : View[a] = disk[a]
    BY <2>1, EmptyView DEF IndInv
  <2> QED
    BY <2>1, <2>2 DEF IndInv, Coherent
<1> QED
  BY <1>1, Invariance, PTL
=============================================================================
