--------------------------- MODULE MkntfsClusters ---------------------------
(***************************************************************************)
(* Which clusters mkntfs (ntfsprogs/mkntfs.c) gives to the files of a new  *)
(* NTFS volume, and how it remembers them: the sorted list g_allocation,   *)
(* from which the cluster bitmap of the volume is built.                   *)
(*                                                                         *)
(* mkntfs was a program of its own; here mkntfs_main is called again and   *)
(* again in one process, and its global variables outlive a call.  Sizes   *)
(* are in sectors of 512 bytes, spc is the number of sectors per cluster.  *)
(***************************************************************************)
EXTENDS Integers, SequencesExt

CONSTANTS
    PartSectors,     \* sizes of the partitions
    SectorsPerCluster,
    MaxRuns,         \* bound: calls of mkntfs_main
    RunsPerProcess,  \* bound: of these, in one process
    MaxFaults        \* bound: failing allocations and writes

ASSUME MkntfsAssumption ==
    /\ PartSectors \subseteq Nat \ {0} /\ SectorsPerCluster \subseteq {8, 16, 32, 64, 128}
    /\ MaxRuns \in Nat /\ RunsPerProcess \in Nat \ {0} /\ MaxFaults \in Nat

Ceil(a, b) == (a + b - 1) \div b

-----------------------------------------------------------------------------
(* The layout.  n is opts.num_sectors, the last sector already taken off    *)
(* for the copy of the boot sector.                                         *)

NrClusters(n, s) == n \div s

\* $Boot: 8 KB or one cluster.
BootClusters(s) == Ceil(16, s)

MftBmpLcn(s) == BootClusters(s)

\* Behind the bitmap of the MFT, and not below 16 KB.
MftLcn(s) ==
    LET lcn == MftBmpLcn(s) + 1 IN IF lcn * s < 32 THEN Ceil(32, s) ELSE lcn

\* 27 records of 1 KB, or one cluster.
MftClusters(s) == IF s > 54 THEN 1 ELSE Ceil(54, s)

MirrLcn(n, s) == n \div (2 * s)
MirrClusters(s) == Ceil(8, s)

LogLcn(n, s) == MirrLcn(n, s) + MirrClusters(s)

LogStandard(n, s) ==
    LET volume == NrClusters(n, s) * s IN
    CASE volume < 4096 -> 512
      [] volume >= 4096 /\ volume <= 7812 -> 1024
      [] volume > 7812 /\ volume <= 409600 -> 4096
      [] volume > 409600 /\ volume < 25165824 -> (NrClusters(n, s) \div 200) * s
      [] OTHER -> 131072

LogFits(n, s, size) == LogLcn(n, s) + size \div s < NrClusters(n, s)

\* Mutated form: the log file keeps its standard size.
LogSizeStandard(n, s) == LogStandard(n, s)

\* Halved until it ends before the end of the volume.
LogSize(n, s) ==
    LET size(d) == LogStandard(n, s) \div d
        Halvings == {1, 2, 4, 8, 16, 32, 64, 128, 256, 512}
    IN  size(CHOOSE d \in Halvings :
                /\ LogFits(n, s, size(d))
                /\ \A e \in Halvings : e < d => ~LogFits(n, s, size(e)))

LogClusters(n, s) == LogSize(n, s) \div s

\* Bits of $Bitmap: a multiple of 64.  Those behind the last cluster are set.
BitmapBits(n, s) == 64 * Ceil(NrClusters(n, s), 64)

\* The attributes that get clusters one by one, in this order: the index of the
\* root directory, $AttrDef, $Bitmap, $Secure:$SDS and $UpCase.
Scattered == <<"root", "attrdef", "bitmap", "sds", "upcase">>

ScatteredClusters(n, s, i) ==
    Ceil(<<8, 5, Ceil(BitmapBits(n, s), 4096), 513, 256>>[i], s)

-----------------------------------------------------------------------------
(* The list of allocated runs.                                              *)

Run(lcn, length) == [lcn |-> lcn, length |-> length]
End(run) == run.lcn + run.length

\* The runs before the first one that starts beyond lcn.
UpTo(list, lcn) ==
    LET beyond == {i \in 1 .. Len(list) : list[i].lcn > lcn} IN
    IF beyond = {} THEN Len(list) ELSE (CHOOSE i \in beyond : \A j \in beyond : i <= j) - 1

\* bitmap_allocate tells its caller whether the clusters were free ...
WasFree(list, lcn, length) ==
    LET k == UpTo(list, lcn) IN
    length > 0 => /\ k > 0 => End(list[k]) <= lcn
                  /\ k < Len(list) => lcn + length <= list[k + 1].lcn

\* ... and whether a new run is needed for them.
Extends(list, lcn) == LET k == UpTo(list, lcn) IN k > 0 /\ End(list[k]) = lcn

\* The list after bitmap_allocate, which marks the clusters even if they were not free.
Marked(list, lcn, length) ==
    LET k == UpTo(list, lcn) IN
    IF length = 0 THEN list
    ELSE IF Extends(list, lcn) THEN [list EXCEPT ![k].length = @ + length]
    ELSE InsertAt(list, k + 1, Run(lcn, length))

\* bitmap_get_and_set: whether the cluster is allocated.
Bit(list, lcn) == LET k == UpTo(list, lcn) IN k > 0 /\ End(list[k]) > lcn

\* bitmap_deallocate: what is left of each run.  (It may also join pieces of
\* neighbouring runs, which marks the same clusters.)
Unmarked(list, lcn, length) ==
    LET first(r) == IF r.lcn > lcn THEN r.lcn ELSE lcn
        last(r) == IF End(r) < lcn + length THEN End(r) ELSE lcn + length
        kept(r) == IF first(r) >= last(r) THEN <<r>>
                   ELSE SelectSeq(<<Run(r.lcn, first(r) - r.lcn), Run(last(r), End(r) - last(r))>>,
                                  LAMBDA piece : piece.length > 0)
    IN  FlattenSeq([i \in 1 .. Len(list) |-> kept(list[i])])

\* bitmap_build: the bits that are set.
BitsSet(list, bits) == {c \in 0 .. bits - 1 : \E i \in 1 .. Len(list) :
                                list[i].lcn <= c /\ c < End(list[i])}

-----------------------------------------------------------------------------
VARIABLES
    num, spc,      \* opts.num_sectors and the sectors per cluster of this call
    alloc,         \* the runs that g_allocation leads to
    mftLcn,        \* g_mft_lcn
    zoneEnd,       \* g_mft_zone_end
    pc,            \* the next step of mkntfs_main, or "idle"
    want,          \* index of the attribute that is given clusters
    left, at, end, rl,   \* clusters, lcn, end and rl of allocate_scattered_clusters
    owned,         \* history: the runs of each file of this call
    oom,           \* history: bitmap_allocate found no memory in this call
    result,        \* of the last call
    inProcess,     \* calls in this process
    runs, faults

scanVars == <<want, left, at, end, rl>>
volVars == <<num, spc>>
callVars == <<result, inProcess, runs>>
vars == <<volVars, alloc, mftLcn, zoneEnd, pc, scanVars, owned, oom, callVars, faults>>

Nr == NrClusters(num, spc)

Goto(l) == pc' = l

Init ==
    /\ num = 0 /\ spc = 8 /\ alloc = <<>>
    /\ mftLcn = 0 /\ zoneEnd = 0
    /\ pc = "idle" /\ want = 0 /\ left = 0 /\ at = 0 /\ end = 0 /\ rl = <<>>
    /\ owned = {} /\ oom = FALSE /\ result = 1 /\ inProcess = 0 /\ runs = 0 /\ faults = 0

\* startStableFormat calls mkntfs_main with the size of the partition.  Options
\* are set up anew, the other global variables are not.
Begin ==
    /\ pc = "idle" /\ runs < MaxRuns /\ inProcess < RunsPerProcess
    /\ \E sectors \in PartSectors : num' = sectors - 1
    /\ spc' \in SectorsPerCluster
    /\ runs' = runs + 1 /\ inProcess' = inProcess + 1
    /\ owned' = {} /\ oom' = FALSE /\ result' = 1
    /\ Goto("params")
    /\ UNCHANGED <<alloc, mftLcn, zoneEnd, scanVars, faults>>

\* Android ends the process between two formats.
Restart ==
    /\ pc = "idle" /\ inProcess > 0
    /\ num' = 0 /\ spc' = 8 /\ alloc' = <<>> /\ mftLcn' = 0 /\ zoneEnd' = 0
    /\ owned' = {} /\ oom' = FALSE /\ result' = 1 /\ inProcess' = 0
    /\ UNCHANGED <<pc, scanVars, runs, faults>>

\* A volume below 1 MB is refused.
OverrideVolParams ==
    /\ pc = "params"
    /\ Goto(IF num < 2048 THEN "cleanup" ELSE "tail")
    /\ UNCHANGED <<volVars, alloc, mftLcn, zoneEnd, scanVars, owned, oom, callVars, faults>>

\* One call of bitmap_allocate for file (none if "").  The call fails if the
\* clusters were not free, and without marking them if there is no memory.
BitmapAllocate(file, run, checked, next) ==
    /\ \/ /\ alloc' = Marked(alloc, run.lcn, run.length)
          /\ Goto(IF checked /\ ~WasFree(alloc, run.lcn, run.length) THEN "cleanup" ELSE next)
          /\ UNCHANGED <<oom, faults>>
       \/ /\ run.length > 0 /\ ~Extends(alloc, run.lcn)
          /\ faults < MaxFaults /\ faults' = faults + 1 /\ oom' = TRUE
          /\ Goto(IF checked THEN "cleanup" ELSE next)
          /\ UNCHANGED alloc
    /\ owned' = owned \cup (IF file = "" THEN {} ELSE {[file |-> file, run |-> run]})
    /\ UNCHANGED <<volVars, scanVars, callVars>>

\* Mutated form: the bits behind the volume are left clear.
BitmapTailClear ==
    /\ pc = "tail" /\ BitmapAllocate("", Run(Nr, 0), TRUE, "mftbmp")
    /\ UNCHANGED <<mftLcn, zoneEnd>>

\* mkntfs_initialize_bitmaps.
BitmapTail ==
    /\ pc = "tail"
    /\ BitmapAllocate("", Run(Nr, BitmapBits(num, spc) - Nr), TRUE, "mftbmp")
    /\ UNCHANGED <<mftLcn, zoneEnd>>

MftBitmap ==
    /\ pc = "mftbmp" /\ BitmapAllocate("mftbmp", Run(MftBmpLcn(spc), 1), TRUE, "mft")
    /\ UNCHANGED <<mftLcn, zoneEnd>>

\* mkntfs_initialize_rl_mft.  Only a g_mft_lcn of 0 is determined; whether its
\* clusters were free is not looked at.
Mft ==
    /\ pc = "mft"
    /\ mftLcn' = IF mftLcn = 0 THEN MftLcn(spc) ELSE mftLcn
    /\ zoneEnd' = Nr \div 8 + mftLcn'
    /\ BitmapAllocate("mft", Run(mftLcn', MftClusters(spc)), FALSE, "mirr")

MftMirr ==
    /\ pc = "mirr"
    /\ BitmapAllocate("mirr", Run(MirrLcn(num, spc), MirrClusters(spc)), TRUE, "log")
    /\ UNCHANGED <<mftLcn, zoneEnd>>

\* mkntfs_initialize_rl_logfile refuses a log file below 256 KB before it
\* allocates anything.
LogFile ==
    /\ pc = "log"
    /\ LET large == Ceil(LogSize(num, spc), spc) * spc >= 512 IN
       BitmapAllocate("log", Run(LogLcn(num, spc), IF large THEN LogClusters(num, spc) ELSE 0), TRUE,
                      IF large THEN "boot" ELSE "cleanup")
    /\ UNCHANGED <<mftLcn, zoneEnd>>

Boot ==
    /\ pc = "boot" /\ BitmapAllocate("boot", Run(0, BootClusters(spc)), TRUE, "attribute")
    /\ UNCHANGED <<mftLcn, zoneEnd>>

-----------------------------------------------------------------------------
(* allocate_scattered_clusters, for one attribute after the other.  A write *)
(* of the attribute that fails is IoFails.                                  *)

Attribute ==
    /\ pc = "attribute"
    /\ \/ /\ want < Len(Scattered) /\ want' = want + 1
          /\ left' = ScatteredClusters(num, spc, want')
          /\ at' = zoneEnd /\ end' = Nr /\ rl' = <<>> /\ Goto("scatter")
       \/ want = Len(Scattered) /\ Goto("sync") /\ UNCHANGED scanVars
    /\ UNCHANGED <<volVars, alloc, mftLcn, zoneEnd, owned, oom, callVars, faults>>

SkipCluster ==
    /\ pc = "scatter" /\ at < end /\ Bit(alloc, at) /\ at' = at + 1
    /\ UNCHANGED <<volVars, alloc, mftLcn, zoneEnd, pc, want, left, end, rl, owned, oom,
                   callVars, faults>>

\* Mutated form: the run that is joined does not grow.
ExtendedNotCounted(list, c) ==
    IF list # <<>> /\ End(list[Len(list)]) = c THEN list ELSE Append(list, Run(c, 1))

\* The runlist with cluster c, which joins the last run if it follows it.
Extended(list, c) ==
    IF list # <<>> /\ End(list[Len(list)]) = c
    THEN [list EXCEPT ![Len(list)].length = @ + 1] ELSE Append(list, Run(c, 1))

\* A free cluster is taken, whether there is memory to mark it or not.
TakeCluster ==
    /\ pc = "scatter" /\ at < end /\ ~Bit(alloc, at)
    /\ \/ alloc' = Marked(alloc, at, 1) /\ UNCHANGED <<oom, faults>>
       \/ /\ ~Extends(alloc, at)
          /\ faults < MaxFaults /\ faults' = faults + 1 /\ oom' = TRUE /\ UNCHANGED alloc
    /\ rl' = Extended(rl, at) /\ left' = left - 1 /\ at' = at + 1
    /\ IF left' = 0
       THEN /\ owned' = owned \cup {[file |-> Scattered[want], run |-> rl'[i]] : i \in DOMAIN rl'}
            /\ Goto("attribute")
       ELSE UNCHANGED <<owned, pc>>
    /\ UNCHANGED <<volVars, mftLcn, zoneEnd, want, end, callVars>>

\* Mutated form: the zone is not made smaller.
NextZoneSame ==
    /\ pc = "scatter" /\ at >= end /\ zoneEnd \div 2 > 0
    /\ end' = zoneEnd /\ at' = zoneEnd \div 2
    /\ UNCHANGED <<volVars, alloc, mftLcn, zoneEnd, pc, want, left, rl, owned, oom,
                   callVars, faults>>

\* No cluster is left in this zone: the MFT zone gives up its upper half.
NextZone ==
    /\ pc = "scatter" /\ at >= end /\ zoneEnd \div 2 > 0
    /\ end' = zoneEnd /\ zoneEnd' = zoneEnd \div 2 /\ at' = zoneEnd'
    /\ UNCHANGED <<volVars, alloc, mftLcn, pc, want, left, rl, owned, oom, callVars, faults>>

\* The volume is full, or the runlist cannot grow (a cluster already marked for it
\* stays marked): the clusters of the runlist are given back.
ScatterFails ==
    /\ pc = "scatter"
    /\ \/ at >= end /\ zoneEnd \div 2 = 0 /\ zoneEnd' = 0 /\ UNCHANGED faults
          /\ alloc' = FoldLeft(LAMBDA l, r : Unmarked(l, r.lcn, r.length), alloc, rl)
       \/ /\ at < end /\ ~Bit(alloc, at) /\ faults < MaxFaults /\ faults' = faults + 1
          /\ alloc' = FoldLeft(LAMBDA l, r : Unmarked(l, r.lcn, r.length),
                               Marked(alloc, at, 1), rl)
          /\ UNCHANGED zoneEnd
    /\ Goto("cleanup")
    /\ UNCHANGED <<volVars, mftLcn, scanVars, owned, oom, callVars>>

\* The bitmap is built from the list and written, then the MFT and its mirror.
Sync ==
    /\ pc = "sync" /\ result' = 0 /\ Goto("cleanup")
    /\ UNCHANGED <<volVars, alloc, mftLcn, zoneEnd, scanVars, owned, oom, inProcess, runs,
                   faults>>

\* A transfer or an allocation elsewhere in mkntfs fails.
IoFails ==
    /\ pc \notin {"idle", "scatter", "cleanup"} /\ faults < MaxFaults /\ faults' = faults + 1
    /\ Goto("cleanup")
    /\ UNCHANGED <<volVars, alloc, mftLcn, zoneEnd, scanVars, owned, oom, callVars>>

\* What g_allocation leads to once its runs have been given back: the runs as they
\* were, or their memory cleared.  (Memory used again for something else would give
\* other lists; none of them is empty.)
GivenBack(list) == IF list = <<>> THEN {<<>>} ELSE {list, <<Run(0, 0)>>}

\* mkntfs_cleanup gives the runs back but leaves g_allocation as it is.
Cleanup ==
    /\ pc = "cleanup" /\ Goto("idle")
    /\ alloc' \in GivenBack(alloc)
    /\ want' = 0 /\ left' = 0 /\ at' = 0 /\ end' = 0 /\ rl' = <<>>
    /\ UNCHANGED <<volVars, mftLcn, zoneEnd, owned, oom, callVars, faults>>

Step == \/ OverrideVolParams \/ BitmapTail \/ MftBitmap \/ Mft \/ MftMirr \/ LogFile
        \/ Boot \/ Attribute \/ SkipCluster \/ TakeCluster \/ NextZone
        \/ ScatterFails \/ Sync \/ IoFails \/ Cleanup

Next == Begin \/ Restart \/ Step

Spec == Init /\ [][Next]_vars

\* mkntfs_main runs on.
FairSpec == Spec /\ WF_vars(Step)
-----------------------------------------------------------------------------
(* Properties.                                                              *)

\* The first call in a process, with memory for the list.
Undisturbed == inProcess = 1 /\ ~oom

Apart(r, s) == End(r) <= s.lcn \/ End(s) <= r.lcn

\* No cluster belongs to two files, although the results of some calls of
\* bitmap_allocate are ignored and the scan comes back to zones already used; and
\* every file lies inside the volume, so that mkntfs writes nothing behind it but
\* the copy of the boot sector.
NoClusterShared ==
    Undisturbed => /\ \A a, b \in owned : a # b => Apart(a.run, b.run)
                   /\ \A o \in owned : End(o.run) <= Nr

\* A runlist names as many clusters as its attribute needs, whatever gaps and zones
\* the scan met.
RunlistsComplete ==
    pc = "sync" => \A i \in 1 .. Len(Scattered) :
        LET mine == {o.run : o \in {x \in owned : x.file = Scattered[i]}} IN
        Cardinality(UNION {r.lcn .. End(r) - 1 : r \in mine}) = ScatteredClusters(num, spc, i)

\* The bitmap written to the volume marks exactly the clusters of the files and
\* the bits behind the volume.
BitmapExact ==
    pc = "sync" /\ Undisturbed =>
        BitsSet(alloc, BitmapBits(num, spc)) =
            (Nr .. BitmapBits(num, spc) - 1) \cup UNION {o.run.lcn .. End(o.run) - 1 : o \in owned}

\* mkntfs_main returns: the scan for free clusters ends on every volume.
MkntfsReturns == pc # "idle" ~> pc = "idle"

\* Stated in mkntfs_initialize_rl_mft: "If user didn't specify the mft lcn,
\* determine it now. We start at the higher value out of 16kiB and just after the
\* mft bitmap."  A second call in the process keeps the g_mft_lcn of the first.
MftBehindItsBitmap == pc = "idle" /\ result = 0 => mftLcn > MftBmpLcn(spc)
=============================================================================
