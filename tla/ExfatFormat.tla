---------------------------- MODULE ExfatFormat -----------------------------
(***************************************************************************)
(* mkfs of exFAT behind exfat_bridge.cpp: the objects of the file system,  *)
(* where they lie, what erase and create write, and how every exfat_write  *)
(* passes through scsi_io_internal.  Whole sectors go to the write-back    *)
(* cache, whose flushes fail unheard; what does not fill a sector (entries *)
(* of the FAT and of the root directory, the ends of objects) is read,     *)
(* changed and written at once, and its failure is heard.                  *)
(*                                                                         *)
(* Addresses are sectors of the volume, cluster sizes are in sectors,      *)
(* object sizes in bytes.  A cell is a structure or a part of an object    *)
(* that is written as a whole; the disk maps cells to what they hold.      *)
(***************************************************************************)
EXTENDS Integers, Sequences

CONSTANTS
    Volumes,       \* pairs of a partition's sectors and a chosen cluster size
    MaxGlitches    \* bound: commands that fail on a stick still plugged in

\* The entries of the spinner cluster_sizes.
Choices == {4096, 8192, 16384, 32768, 65536}

ASSUME ExfatAssumption ==
    /\ Volumes \subseteq Nat \X Choices
    /\ MaxGlitches \in Nat

-----------------------------------------------------------------------------
(* Parameters and positions of the objects.                                 *)

DivRoundUp(x, d) == (x + d - 1) \div d
RoundUp(x, d) == d * DivRoundUp(x, d)

\* Division of signed numbers drops the fraction.
CDiv(x, d) == IF x < 0 THEN -((-x) \div d) ELSE x \div d

\* setup_spc_bits, as a number of sectors: the choice rounded up to a power of
\* two, or for no choice 4 KB on a volume below 256 MB, 32 KB on others.
SectorsPerCluster(choice, sectors) ==
    IF choice \div 512 > 0
    THEN CHOOSE n \in {1, 2, 4, 8, 16, 32, 64, 128} :
            n >= choice \div 512 /\ n < 2 * (choice \div 512)
    ELSE IF sectors < 524288 THEN 8 ELSE 64

\* Both boot regions precede the FAT.
VbrSectors == 12
FatStart == 128
UctBytes == 5836

ClustersMax(v, s) == v \div s
FatBytes(v, s) == 4 * ClustersMax(v, s)

CbmStart(v, s) == RoundUp(FatStart + DivRoundUp(FatBytes(v, s), 512), s)

\* A volume that ends before the heap has a negative size here.
CbmBytes(v, s) == CDiv(CDiv(v - CbmStart(v, s), s) + 7, 8)

UctStart(v, s) == RoundUp(CbmStart(v, s) + DivRoundUp(CbmBytes(v, s), 512), s)

RootStart(v, s) == RoundUp(UctStart(v, s) + DivRoundUp(UctBytes, 512), s)

\* check_size.
Fits(v, s) == RootStart(v, s) + s <= v

-----------------------------------------------------------------------------
(* What the structures say of each other.                                   *)

ClusterAt(v, s, sector) == (sector - CbmStart(v, s)) \div s + 2

\* Mutated form: the heap is counted from the end of the FAT itself.
InitSbUnaligned(v, s) ==
    LET fat == DivRoundUp(FatBytes(v, s), 512) IN
    [fatStart |-> FatStart, fatCount |-> fat, heap |-> CbmStart(v, s),
     clusters |-> ClustersMax(v, s) - (FatStart + fat) \div s,
     root |-> ClusterAt(v, s, RootStart(v, s))]

\* init_sb: the fields that lead to other structures.
InitSb(v, s) ==
    LET fat == RoundUp(FatStart + DivRoundUp(FatBytes(v, s), 512), s) - FatStart IN
    [fatStart |-> FatStart, fatCount |-> fat, heap |-> CbmStart(v, s),
     clusters |-> ClustersMax(v, s) - (FatStart + fat) \div s,
     root |-> ClusterAt(v, s, RootStart(v, s))]

ClustersOf(bytes, s) == DivRoundUp(bytes, 512 * s)
Allocated(v, s) ==
    ClustersOf(CbmBytes(v, s), s) + ClustersOf(UctBytes, s) + ClustersOf(512 * s, s)

\* The value of a cell: a number the structure leads to, or none.
Is(n) == <<"new", n>>
Old == <<"old", 0>>
Zero == <<"zero", 0>>
Torn == <<"torn", 0>>
End == -1

\* Mutated form: the loop runs once too often.
ChainOneMore(c, bytes, s) ==
    [i \in 1 .. ClustersOf(bytes, s) + 1 |-> IF i <= ClustersOf(bytes, s) THEN c + i ELSE End]

\* fat_write_entries: the chain of an object whose first cluster is c.
Chain(c, bytes, s) ==
    [i \in 1 .. ClustersOf(bytes, s) |-> IF i < ClustersOf(bytes, s) THEN c + i ELSE End]

\* fat_write: media type, a constant, and three chains, each from where the
\* last one ended.
FatEntries(v, s) ==
    LET uct == 2 + ClustersOf(CbmBytes(v, s), s)
        root == uct + ClustersOf(UctBytes, s)
    IN  <<End, End>> \o Chain(2, CbmBytes(v, s), s) \o Chain(uct, UctBytes, s)
            \o Chain(root, 512 * s, s)

-----------------------------------------------------------------------------
(* The requests one exfat_write makes of scsi_io_internal for a structure   *)
(* at a sector: a run of whole sectors, then the rest of the last sector.   *)

Cell(of, part, sec, n) == [of |-> of, part |-> part, sec |-> sec, n |-> n]

Run(lba, len, put) == [whole |-> TRUE, lba |-> lba, len |-> len, put |-> put]
Part(lba, put) == [whole |-> FALSE, lba |-> lba, len |-> 1, put |-> put]
Only(cell, value) == [x \in {cell} |-> value]

Stored(of, sec, bytes, value) ==
    (IF bytes >= 512
     THEN <<Run(sec, bytes \div 512, Only(Cell(of, "whole", sec, 0), value))>> ELSE <<>>)
    \o (IF bytes % 512 > 0
        THEN <<Part(sec + bytes \div 512,
                    Only(Cell(of, "rest", sec + bytes \div 512, 0), value))>> ELSE <<>>)

Vbr(v, s, of, sec) == Stored(of, sec, 512 * VbrSectors, Is(InitSb(v, s).root))

\* One exfat_write of four bytes per entry.
FatWrite(v, s) ==
    LET fat == FatEntries(v, s) IN
    [i \in 1 .. Len(fat) |->
        Part(FatStart + (i - 1) \div 128,
             Only(Cell("fat", "entry", FatStart + (i - 1) \div 128, i - 1), Is(fat[i])))]

\* bitmap_size / CHAR_BIT bytes.
CbmWrite(v, s) ==
    Stored("cbm", CbmStart(v, s), DivRoundUp(Allocated(v, s), 8), Is(Allocated(v, s)))

UctWrite(v, s) == Stored("uct", UctStart(v, s), UctBytes, Is(0))

\* Mutated form: the whole cluster of the root directory is written at once.
RootdirWriteCluster(v, s) ==
    <<Run(RootStart(v, s), s,
          [c \in {Cell("rootdir", "entry", RootStart(v, s), n) : n \in 0 .. 2} |->
              Is(<<0, 2, ClusterAt(v, s, UctStart(v, s))>>[c.n + 1])])>>

\* The label, and the entries that lead to the bitmap and the upcase table.
RootdirWrite(v, s) ==
    LET entry(n, to) ==
            Part(RootStart(v, s), Only(Cell("rootdir", "entry", RootStart(v, s), n), Is(to)))
    IN  <<entry(0, 0), entry(1, 2), entry(2, ClusterAt(v, s, UctStart(v, s)))>>

\* create: the order of objects[].
Create(v, s) ==
    Vbr(v, s, "vbr", 0) \o Vbr(v, s, "backup", VbrSectors) \o FatWrite(v, s)
    \o CbmWrite(v, s) \o UctWrite(v, s) \o RootdirWrite(v, s)

CellsOf(requests) == UNION {DOMAIN requests[i].put : i \in DOMAIN requests}

\* Zeros for a range of sectors: the structures that will be in it, and the free
\* space of the object.
Zeros(structures, of, lba, len) ==
    [c \in {x \in structures : x.sec \in lba .. lba + len - 1}
           \cup {Cell(of, "free", lba, 0)} |-> Zero]

\* erase_object: blocks of 1 MB, the last one shorter.
EraseObject(structures, of, sec, bytes) ==
    LET whole == bytes \div 512
        run(i) == LET lba == sec + 2048 * (i - 1)
                      len == IF whole < 2048 * i THEN whole - 2048 * (i - 1) ELSE 2048
                  IN  Run(lba, len, Zeros(structures, of, lba, len))
    IN  [i \in 1 .. DivRoundUp(whole, 2048) |-> run(i)]
        \o (IF bytes % 512 > 0
            THEN <<Part(sec + whole, Zeros(structures, of, sec + whole, 1))>> ELSE <<>>)

Erase(v, s) ==
    LET erase(of, sec, bytes) == EraseObject(CellsOf(Create(v, s)), of, sec, bytes) IN
    erase("vbr", 0, 512 * VbrSectors) \o erase("backup", VbrSectors, 512 * VbrSectors)
    \o erase("fat", FatStart, FatBytes(v, s)) \o erase("cbm", CbmStart(v, s), CbmBytes(v, s))
    \o erase("uct", UctStart(v, s), UctBytes) \o erase("rootdir", RootStart(v, s), 512 * s)

\* Mutated form: objects are created before their places are erased.
CreateThenErase(v, s) == Create(v, s) \o Erase(v, s)

\* mkfs.
Requests(v, s) == Erase(v, s) \o Create(v, s)

-----------------------------------------------------------------------------
VARIABLES
    volume,     \* usb_scsi_get_usable_sectors()
    spc,        \* sectors per cluster, param.spc_bits
    pc,         \* the next step of usb_scsi_format_exfat
    todo,       \* the requests mkfs has still to make
    result,     \* what mkfs returned
    disk,       \* cells to their contents
    cache,      \* g_write_cache: runs that follow each other
    plugged,    \* the stick is there
    lost,       \* history: cells of a WRITE(10) that failed unheard
    glitches    \* history: commands that failed on a plugged stick

stickVars == <<disk, cache, lost, glitches>>
vars == <<volume, spc, pc, todo, result, plugged, stickVars>>

\* The wipes before were not asked whether they worked: all contents are old.
Init ==
    /\ \E chosen \in Volumes :
          /\ volume = chosen[1]
          /\ spc = SectorsPerCluster(chosen[2], chosen[1])
    /\ pc = "check" /\ todo = <<>> /\ result = 0
    /\ disk = [c \in {} |-> Old] /\ cache = <<>>
    /\ plugged = TRUE /\ lost = {} /\ glitches = 0

Content(c) == IF c \in DOMAIN disk THEN disk[c] ELSE Old

-----------------------------------------------------------------------------
(* scsi_io_internal.                                                        *)

\* The first k of the given runs reach the stick, the next one in part.
Landed(runs, k) ==
    LET new == UNION {DOMAIN runs[i].put : i \in 1 .. k}
        torn == IF k < Len(runs) THEN DOMAIN runs[k + 1].put ELSE {}
    IN  [c \in DOMAIN disk \cup new \cup torn |->
            IF c \in torn THEN Torn
            ELSE IF c \in new THEN runs[CHOOSE i \in 1 .. k : c \in DOMAIN runs[i].put].put[c]
            ELSE disk[c]]

Glitch == plugged /\ glitches < MaxGlitches /\ glitches' = glitches + 1

\* scsi_flush_cache_internal: the cache is empty afterwards whatever happened.
Flush ==
    /\ cache' = <<>>
    /\ \/ /\ plugged \/ cache = <<>>
          /\ disk' = Landed(cache, Len(cache)) /\ UNCHANGED <<lost, glitches>>
       \/ /\ cache # <<>> /\ lost' = lost \cup CellsOf(cache)
          /\ \/ ~plugged /\ UNCHANGED <<disk, glitches>>
             \/ Glitch /\ \E k \in 0 .. Len(cache) - 1 : disk' = Landed(cache, k)

CachedSectors ==
    IF cache = <<>> THEN 0
    ELSE cache[Len(cache)].lba + cache[Len(cache)].len - cache[1].lba

CanAdd(r) ==
    /\ cache # <<>> /\ r.whole
    /\ r.lba = cache[1].lba + CachedSectors
    /\ CachedSectors + r.len <= 2048

-----------------------------------------------------------------------------
(* usb_scsi_format_exfat and mkfs, request by request.                      *)

Request == Head(todo)

Advance ==
    /\ todo' = Tail(todo)
    /\ pc' = IF Len(todo) > 1 THEN pc ELSE "fsync"
    /\ UNCHANGED <<volume, spc, result, plugged>>

Fail == pc' = "final" /\ result' = 1 /\ UNCHANGED <<volume, spc, todo, plugged>>

CheckSize ==
    /\ pc = "check"
    /\ \/ /\ Fits(volume, spc)
          /\ pc' = "io" /\ todo' = Requests(volume, spc)
          /\ UNCHANGED <<volume, spc, result, plugged>>
       \/ ~Fits(volume, spc) /\ Fail
    /\ UNCHANGED stickVars

\* Before a run that does not follow the cached ones, and before every part of
\* a sector.
FlushFirst ==
    /\ pc = "io" /\ cache # <<>> /\ ~CanAdd(Request)
    /\ Flush
    /\ UNCHANGED <<volume, spc, pc, todo, result, plugged>>

\* Memory is wanted for the erase block and the cache before anything was written,
\* and in vbr_write and cbm_write.
NoMemory ==
    /\ pc = "io"
    /\ \/ cache = <<>> /\ DOMAIN disk = {} /\ lost = {}
       \/ \E c \in DOMAIN Request.put :
             /\ Request.put[c] # Zero
             /\ <<c.of, c.sec>> \in
                    {<<"vbr", 0>>, <<"backup", VbrSectors>>, <<"cbm", CbmStart(volume, spc)>>}
    /\ Fail /\ UNCHANGED stickVars

WriteRun ==
    /\ pc = "io" /\ Request.whole
    /\ cache = <<>> \/ CanAdd(Request)
    /\ cache' = Append(cache, Request) /\ Advance
    /\ UNCHANGED <<disk, lost, glitches>>

PartDone == disk' = Landed(<<Request>>, 1) /\ UNCHANGED glitches
PartFailed ==
    \/ ~plugged /\ UNCHANGED <<disk, glitches>>
    \/ Glitch /\ disk' \in {disk, Landed(<<Request>>, 1)}

\* READ(10) and WRITE(10) of the sector; either may fail.
WritePart ==
    /\ pc = "io" /\ ~Request.whole /\ cache = <<>>
    /\ \/ plugged /\ PartDone /\ Advance
       \/ PartFailed /\ Fail
    /\ UNCHANGED <<cache, lost>>

\* exfat_fsync of the bridge does nothing.
Fsync ==
    /\ pc = "fsync"
    /\ pc' = "final" /\ UNCHANGED <<volume, spc, todo, result, plugged, stickVars>>

\* The sync at the end of startStableFormat.
FinalSync ==
    /\ pc = "final"
    /\ Flush /\ pc' = "done"
    /\ UNCHANGED <<volume, spc, todo, result, plugged>>

Unplug ==
    /\ plugged /\ pc # "done"
    /\ plugged' = FALSE
    /\ UNCHANGED <<volume, spc, pc, todo, result, stickVars>>

Engine ==
    CheckSize \/ NoMemory \/ FlushFirst \/ WriteRun \/ WritePart \/ Fsync \/ FinalSync

Next == Engine \/ Unplug

Spec == Init /\ [][Next]_vars

-----------------------------------------------------------------------------
(* Properties.                                                              *)

\* What the boot record, the FAT and the bitmap say of a volume of v sectors
\* with clusters of s: the FAT ends where the heap begins, the heap is inside
\* the volume and holds bitmap, upcase table and root directory one behind the
\* other, and both FAT and bitmap have an entry for every cluster.
Agrees(v, s) ==
    LET sb == InitSb(v, s) IN
    /\ 2 * VbrSectors <= sb.fatStart
    /\ sb.fatStart + sb.fatCount = sb.heap
    /\ sb.heap + sb.clusters * s <= v
    /\ 4 * (sb.clusters + 2) <= FatBytes(v, s)
    /\ FatBytes(v, s) <= 512 * sb.fatCount
    /\ CbmBytes(v, s) = DivRoundUp(sb.clusters, 8)
    /\ sb.heap + DivRoundUp(CbmBytes(v, s), 512) <= UctStart(v, s)
    /\ UctStart(v, s) + DivRoundUp(UctBytes, 512) <= RootStart(v, s)
    /\ 2 + Allocated(v, s) <= sb.clusters + 2
    /\ sb.root = Allocated(v, s) + 1

\* check_size lets mkfs go on only when the structures of the volume agree with
\* each other, although vbr.c, fat.c, cbm.c and rootdir.c each compute for
\* themselves where the others are.
LayoutAgrees == pc \in {"io", "fsync"} => Agrees(volume, spc)

FatCell(c) == Cell("fat", "entry", FatStart + c \div 128, c)
DirCell(n) == Cell("rootdir", "entry", RootStart(volume, spc), n)
BitCells == CellsOf(CbmWrite(volume, spc))

\* Followed from cluster c, the FAT on the stick leads through n clusters in a
\* row and ends.
Leads(c, n) ==
    /\ \A i \in 0 .. n - 2 : Content(FatCell(c + i)) = Is(c + i + 1)
    /\ Content(FatCell(c + n - 1)) = Is(End)

\* Cluster, and number of clusters, of what lies between two sectors.
LeadsFrom(from, to) == Leads(ClusterAt(volume, spc, from), (to - from) \div spc)

\* A format that reports success has written a FAT that leads exactly over the
\* places where bitmap, upcase table and root directory were put, a root
\* directory that names them and a bitmap of just these clusters, whatever
\* commands failed on the way: those writes go through sectors in part and their
\* failures are heard.
SuccessMeansLinked ==
    pc = "done" /\ result = 0 =>
        LET v == volume s == spc IN
        /\ LeadsFrom(CbmStart(v, s), UctStart(v, s))
        /\ LeadsFrom(UctStart(v, s), RootStart(v, s))
        /\ LeadsFrom(RootStart(v, s), RootStart(v, s) + s)
        /\ Content(DirCell(1)) = Is(ClusterAt(v, s, CbmStart(v, s)))
        /\ Content(DirCell(2)) = Is(ClusterAt(v, s, UctStart(v, s)))
        /\ \A c \in BitCells :
              \/ Content(c) = Is((RootStart(v, s) + s - CbmStart(v, s)) \div s)
              \/ c.part = "whole" /\ c \in lost

FreeCells(v, s) == {c \in CellsOf(Erase(v, s)) : c.part = "free"}
VbrCell(of, sec) == Cell(of, "whole", sec, 0)

\* A stick pulled out at any moment has no boot record of the new file system
\* in front of FAT, bitmap or directory of an old one: before it is on the stick
\* all of them were zeroed, or the WRITE(10) of the zeros failed.
ErasedBeforeBoot ==
    Content(VbrCell("vbr", 0)) = Is(InitSb(volume, spc).root) =>
        \A c \in FreeCells(volume, spc) : Content(c) = Zero \/ c \in lost

\* When mkfs says that flushing is done, nothing is left in the program's cache,
\* although exfat_fsync does nothing: the last writes go past the cache.
FlushedWhenSaid == pc = "final" /\ result = 0 => cache = <<>>

=============================================================================
