------------------------ MODULE UsbScsiIoRefinement ------------------------
(* Step properties of UsbScsiIo proved from its inductive invariant: block  *)
(* I/O stays inside the partition, and it implements WriteBackStore.        *)
EXTENDS UsbScsiIoProofs

\* A cached unit, and so every unit a flush writes, is in the partition.
LEMMA CachedInPartition ==
    ASSUME IndInv, NEW a \in Addr, Cached(a)
    PROVE  ~(a < Base(offset))
<1>1. /\ cacheSectors \in Nat /\ Base(cacheLba) \in Nat /\ Base(offset) \in Nat /\ a \in Nat
      /\ Base(cacheSectors) \in Nat
  BY BaseFacts, AddrFacts DEF IndInv, TypeOK
<1>2. cacheSectors > 0
  BY <1>1, BaseFacts DEF Cached
<1> QED
  BY <1>1, <1>2 DEF Cached, IndInv, Control

\* No step changes a unit below the partition.
LEMMA BelowStep ==
    ASSUME IndInv, [Next]_vars, NEW a \in Addr, a < Base(offset)
    PROVE  disk'[a] = disk[a]
<1>1. a \in Nat /\ Base(offset) \in Nat
  BY AddrFacts, BaseFacts DEF IndInv, TypeOK
<1>2. CASE LoopRead \/ LoopReplace \/ LoopPartial \/ SyncFlush
  <2>1. Flush
    BY <1>2 DEF LoopRead, LoopReplace, LoopPartial, SyncFlush
  <2>2. ~Cached(a)
    BY CachedInPartition
  <2> QED
    BY <2>1, <2>2, FlushFacts DEF IndInv
<1>3. CASE RmwWrite \/ RmwWriteFails
  <2>1. pc = "rmwWrite" /\ (disk' = disk \/ disk' = WithBounce)
    BY <1>3 DEF RmwWrite, RmwWriteFails
  <2>2. start >= Base(offset) /\ start \in Nat /\ done \in Nat
    BY <2>1 DEF IndInv, Control, TypeOK
  <2>3. ~(Cur <= a)
    BY <1>1, <2>2 DEF Cur
  <2>4. WithBounce[a] = disk[a]
    BY <2>1, <2>3, BounceFacts
  <2> QED
    BY <2>1, <2>4
<1>4. CASE ~(LoopRead \/ LoopReplace \/ LoopPartial \/ SyncFlush \/ RmwWrite \/ RmwWriteFails)
  <2>1. disk' = disk
    BY <1>4 DEF Next, Begin, Step, SetPartition, Pread, Pwrite, ReadAtPos, WriteAtPos, Sync, Lseek,
       Call, LoopEnd, ReadCmd, ReadCmdFails, LoopAppend, Fill, MallocFails, RmwRead,
       RmwReadFails, SyncCmd, vars
  <2> QED
    BY <2>1
<1> QED
  BY <1>2, <1>3, <1>4

\* Block I/O never touches what lies below the partition.
THEOREM PartitionTableSafe == Spec => BelowPartitionUntouched
<1>1. IndInv /\ [Next]_vars
        => [\A a \in Addr : a < Base(offset) => disk'[a] = disk[a]]_vars
  BY BelowStep
<1> QED
  BY <1>1, Invariance, PTL DEF Spec, BelowPartitionUntouched
-----------------------------------------------------------------------------
(* UsbScsiIo implements WriteBackStore.                                     *)

\* The image of the store in terms of the history variables.
LEMMA ImgIsWritten ==
    ASSUME IndInv
    PROVE  AbsImg = [a \in Addr |-> IF a \in lost THEN Unknown ELSE written[a]]
BY DEF IndInv, Coherent, AbsImg

\* The same of the next state.
LEMMA ImgIsWrittenNext ==
    ASSUME IndInv'
    PROVE  AbsImg' = [a \in Addr |-> IF a \in lost' THEN Unknown ELSE written'[a]]
BY DEF IndInv, Coherent, AbsImg

\* The abstract medium has its type.
LEMMA ImgType == ASSUME IndInv' PROVE AbsImg' \in [Addr -> Val \cup {Unknown}]
BY ImgIsWrittenNext DEF IndInv, TypeOK

\* A step that moves no data is a Frame step of the store.
LEMMA FrameStep ==
    ASSUME IndInv, IndInv', UNCHANGED <<disk, cacheVars, ghostVars>>
    PROVE  Store!Frame
<1>1. AbsImg' = AbsImg /\ AbsPending' = AbsPending
  BY DEF AbsImg, AbsPending, View, Cached, cacheVars, ghostVars
<1>2. AbsOpen' \subseteq Addr
  BY DEF AbsOpen, Span
<1> QED
  BY <1>1, <1>2 DEF Store!Frame

\* Flushing drains the store.
LEMMA DrainStep ==
    ASSUME IndInv, IndInv', LoopRead \/ LoopReplace \/ LoopPartial \/ SyncFlush
    PROVE  Store!Drain
<1>1. /\ Flush /\ written' = written /\ done' = done /\ UNCHANGED reqVars
      /\ pc # "idle" /\ pc' # "idle"
  BY DEF LoopRead, LoopReplace, LoopPartial, SyncFlush, Goto
<1>2. AbsOpen' = AbsOpen
  BY <1>1 DEF AbsOpen, Span, Cur, Remaining, reqVars
<1>3. lost' = lost \/ lost' = lost \cup AbsPending
  BY <1>1 DEF Flush, FlushNone, FlushOk, FlushRejected, FlushFault, AbsPending
<1>4. AbsPending' = {}
  <2>1. cacheSectors' = 0
    BY <1>1, FlushFacts DEF IndInv
  <2>2. Base(cacheSectors)' = 0 /\ Base(cacheLba)' \in Nat
    <3>1. Base(cacheSectors') = 0 /\ Base(cacheLba') \in Nat
      BY <2>1, BaseFacts DEF IndInv, TypeOK
    <3> QED
      BY <3>1 DEF Base
  <2> QED
    BY <2>2, AddrFacts DEF AbsPending, Cached
<1>5. \/ AbsImg' = AbsImg
      \/ AbsImg' = [a \in Addr |-> IF a \in AbsPending THEN Unknown ELSE AbsImg[a]]
  <2>1. CASE lost' = lost
    BY <2>1, <1>1, ImgIsWritten, ImgIsWrittenNext
  <2>2. CASE lost' = lost \cup AbsPending
    BY <2>2, <1>1, ImgIsWritten, ImgIsWrittenNext
  <2> QED
    BY <1>3, <2>1, <2>2
<1> QED
  BY <1>2, <1>4, <1>5 DEF Store!Drain

\* What accepting n units of a write request does to the store.
LEMMA AcceptStep ==
    ASSUME IndInv, IndInv', kind = "write", pc # "idle", pc' # "idle",
           NEW n \in 1 .. Remaining, Accept(n), UNCHANGED reqVars,
           AbsPending' \in {AbsPending, AbsPending \cup Span(n)}
    PROVE  Store!Take
<1>1. /\ done \in Nat /\ count \in Nat /\ start \in Nat /\ Cur = start + done
      /\ Remaining = count - done
  BY DEF IndInv, TypeOK, Cur, Remaining
<1>2. /\ written' \in [Addr -> Val]
      /\ \A a \in Addr : ~(Cur <= a /\ a < Cur + n) =>
                              written'[a] = written[a] /\ (a \in lost' <=> a \in lost)
      /\ \A a \in Addr : Cur <= a /\ a < Cur + n => a \notin lost'
  BY AcceptFacts DEF IndInv
<1>3. /\ Cur' = start + (done + n) /\ Remaining' = count - (done + n) /\ kind' = kind
  BY DEF Accept, Cur, Remaining, reqVars
<1>4. Span(n) \in SUBSET AbsOpen
  BY <1>1, AddrFacts DEF AbsOpen, Span
<1>5. AbsOpen' = AbsOpen \ Span(n)
  <2>1. AbsOpen = {a \in Addr : Cur <= a /\ a < Cur + Remaining}
    BY DEF AbsOpen, Span
  <2>2. AbsOpen' = {a \in Addr : start + (done + n) <= a
                                 /\ a < start + (done + n) + (count - (done + n))}
    BY <1>3 DEF AbsOpen, Span
  <2>3. ASSUME NEW a \in Addr
        PROVE  (start + (done + n) <= a /\ a < start + (done + n) + (count - (done + n)))
               <=> ((Cur <= a /\ a < Cur + Remaining) /\ ~(Cur <= a /\ a < Cur + n))
    BY <1>1, AddrFacts
  <2> QED
    BY <2>1, <2>2, <2>3 DEF Span
<1>6. \A a \in Addr : IF a \in Span(n) THEN AbsImg'[a] \in Val ELSE AbsImg'[a] = AbsImg[a]
  <2>1. \A a \in Addr : AbsImg[a] = IF a \in lost THEN Unknown ELSE written[a]
    BY ImgIsWritten
  <2>2. \A a \in Addr : AbsImg'[a] = IF a \in lost' THEN Unknown ELSE written'[a]
    BY ImgIsWrittenNext
  <2> QED
    BY <2>1, <2>2, <1>2 DEF Span
<1> QED
  BY <1>4, <1>5, <1>6, ImgType DEF Store!Take

\* Filling the cache is Take.
LEMMA FillStep == ASSUME IndInv, IndInv', Fill PROVE Store!Take
<1>1. TypeOK /\ done < count /\ kind = "write" /\ cacheSectors = 0 /\ Aligned /\ pc = "fill"
  BY DEF IndInv, Control, Fill
<1>2. Cur = Base(Lba) /\ Base(WriteSectors) \in 1 .. Remaining
  BY <1>1, WriteFacts
<1>3. AbsPending = {}
  BY <1>1, EmptyView DEF AbsPending
<1>4. AbsPending' = Span(Base(WriteSectors))
  <2>1. Base(cacheLba)' = Cur /\ Base(cacheSectors)' = Base(WriteSectors)
    BY <1>2 DEF Fill, Base
  <2> QED
    BY <2>1 DEF AbsPending, Cached, Span
<1>5. /\ Accept(Base(WriteSectors)) /\ UNCHANGED reqVars /\ pc' # "idle"
  BY DEF Fill, Goto
<1> QED
  BY <1>1, <1>2, <1>3, <1>4, <1>5, AcceptStep

\* So is appending to it.
LEMMA AppendStep == ASSUME IndInv, IndInv', LoopAppend PROVE Store!Take
<1>1. /\ TypeOK /\ done < count /\ kind = "write" /\ Aligned /\ pc = "loop"
      /\ Lba = cacheLba + cacheSectors
  BY DEF IndInv, Control, LoopAppend, CanAdd
<1> DEFINE n == Base(WriteSectors)
           c == Base(cacheSectors)
<1>2. /\ Cur \in Nat /\ Cur = Base(Lba) /\ n \in 1 .. Remaining /\ WriteSectors \in Nat
  BY <1>1, WriteFacts, SizesAssumption
<1>3. /\ c \in Nat /\ Base(cacheLba) \in Nat /\ Cur = Base(cacheLba) + c
      /\ Base(cacheSectors + WriteSectors) = c + n
  BY <1>1, <1>2, BaseFacts DEF TypeOK
<1>4. Base(cacheLba)' = Base(cacheLba) /\ Base(cacheSectors)' = c + n
  <2>1. cacheLba' = cacheLba /\ cacheSectors' = cacheSectors + WriteSectors
    BY DEF LoopAppend
  <2> QED
    BY <2>1, <1>3 DEF Base
<1>5. /\ Accept(n) /\ UNCHANGED reqVars /\ pc' # "idle" /\ Remaining \in Int
  BY <1>1 DEF LoopAppend, Goto, Remaining, TypeOK
<1>6. AbsPending' = AbsPending \cup Span(n)
  <2>1. AbsPending = {a \in Addr : Base(cacheLba) <= a /\ a < Base(cacheLba) + c}
    BY DEF AbsPending, Cached
  <2>2. AbsPending' = {a \in Addr : Base(cacheLba) <= a /\ a < Base(cacheLba) + (c + n)}
    BY <1>4 DEF AbsPending, Cached
  <2> HIDE DEF n, c
  <2>3. ASSUME NEW a \in Addr
        PROVE  (Base(cacheLba) <= a /\ a < Base(cacheLba) + (c + n))
               <=> ((Base(cacheLba) <= a /\ a < Base(cacheLba) + c) \/ (Cur <= a /\ a < Cur + n))
    BY <1>2, <1>3, <1>5, AddrFacts
  <2> QED
    BY <2>1, <2>2, <2>3 DEF Span
<1> HIDE DEF n
<1> QED
  BY <1>1, <1>2, <1>5, <1>6, AcceptStep

\* So is the write of a modified sector.
LEMMA RmwWriteStep == ASSUME IndInv, IndInv', RmwWrite PROVE Store!Take
<1>1. TypeOK /\ done < count /\ kind = "write" /\ pc = "rmwWrite"
  BY DEF IndInv, Control, RmwWrite
<1>2. ToWrite \in 1 .. Remaining
  BY <1>1, PartialFacts
<1>3. Accept(ToWrite) /\ UNCHANGED reqVars /\ pc' # "idle" /\ UNCHANGED cacheVars
  BY DEF RmwWrite, Goto
<1>4. AbsPending' = AbsPending
  BY <1>3 DEF AbsPending, Cached, cacheVars, Base
<1> QED
  BY <1>1, <1>2, <1>3, <1>4, AcceptStep

\* Its failure is Spoil.
LEMMA SpoilStep == ASSUME IndInv, IndInv', RmwWriteFails PROVE Store!Spoil
<1>1. TypeOK /\ done < count /\ kind = "write" /\ pc = "rmwWrite"
  BY DEF IndInv, Control, RmwWriteFails
<1>2. Cur \in Nat /\ ToWrite \in 1 .. Remaining /\ Remaining \in Int
  BY <1>1, PartialFacts DEF Remaining, TypeOK
<1>3. /\ lost' = lost \cup Span(ToWrite) /\ written' = written /\ pc' = "idle"
      /\ UNCHANGED cacheVars
  BY DEF RmwWriteFails, Return
<1>4. Span(ToWrite) \in SUBSET AbsOpen
  BY <1>1, <1>2, AddrFacts DEF AbsOpen, Span
<1>5. AbsOpen' = {} /\ AbsPending' = AbsPending
  BY <1>3 DEF AbsOpen, AbsPending, Cached, cacheVars, Base
<1>6. AbsImg' = [a \in Addr |-> IF a \in Span(ToWrite) THEN Unknown ELSE AbsImg[a]]
  BY <1>3, ImgIsWritten, ImgIsWrittenNext
<1> QED
  BY <1>4, <1>5, <1>6 DEF Store!Spoil

\* Every step is one of WriteBackStore, or none.
LEMMA StoreStep ==
    IndInv /\ IndInv' /\ [Next]_vars => [Store!StoreNext]_(Store!storeVars)
<1> SUFFICES ASSUME IndInv, IndInv', [Next]_vars
             PROVE  Store!StoreNext \/ UNCHANGED Store!storeVars
  OBVIOUS
<1>1. CASE LoopRead \/ LoopReplace \/ LoopPartial \/ SyncFlush
  BY <1>1, DrainStep DEF Store!StoreNext
<1>2. CASE LoopAppend
  BY <1>2, AppendStep DEF Store!StoreNext
<1>3. CASE Fill
  BY <1>3, FillStep DEF Store!StoreNext
<1>4. CASE RmwWrite
  BY <1>4, RmwWriteStep DEF Store!StoreNext
<1>5. CASE RmwWriteFails
  BY <1>5, SpoilStep DEF Store!StoreNext
<1>6. CASE \/ Begin \/ LoopEnd \/ ReadCmd \/ ReadCmdFails \/ MallocFails \/ RmwRead
           \/ RmwReadFails \/ SyncCmd \/ UNCHANGED vars
  <2>1. UNCHANGED <<disk, cacheVars, ghostVars>>
    BY <1>6 DEF Begin, SetPartition, Pread, Pwrite, ReadAtPos, WriteAtPos, Sync, Lseek,
       Call, LoopEnd, ReadCmd, ReadCmdFails, MallocFails, RmwRead, RmwReadFails, SyncCmd, vars
  <2> QED
    BY <2>1, FrameStep DEF Store!StoreNext
<1> QED
  BY <1>1, <1>2, <1>3, <1>4, <1>5, <1>6 DEF Next, Step

\* The driver implements the write-back store.
THEOREM Refinement == Spec => ImplementsStore
<1>1. Init => Store!StoreInit
  <2> SUFFICES ASSUME Init PROVE Store!StoreInit
    OBVIOUS
  <2>1. IndInv
    BY InitInv
  <2>2. AbsImg \in [Addr -> Val]
    BY <2>1, ImgIsWritten, InputsAssumption DEF Init
  <2>3. AbsPending = {}
    BY <2>1, EmptyView DEF AbsPending, Init, IndInv
  <2>4. AbsOpen = {}
    BY DEF AbsOpen, Init
  <2> QED
    BY <2>2, <2>3, <2>4 DEF Store!StoreInit
<1>2. IndInv /\ IndInv' /\ [Next]_vars => [Store!StoreNext]_(Store!storeVars)
  BY StoreStep
<1> QED
  BY <1>1, <1>2, Invariance, PTL DEF Spec, ImplementsStore, Store!StoreSpec
=============================================================================
