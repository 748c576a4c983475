----------------------------- MODULE F2fsFormat -----------------------------
(***************************************************************************)
(* mkfs.f2fs behind f2fs_bridge.cpp: the layout f2fs_prepare_super_block   *)
(* computes for the volume, the fills and writes of f2fs_format_device in  *)
(* their order, and the way they reach the stick through the write-back    *)
(* cache of usb_scsi.cpp, whose flushes fail without the engine hearing of *)
(* it.  The bridge's arguments fix the rest: one device, heap allocation,  *)
(* no optional feature, zones of one 2 MB segment, blocks of 4 KB.         *)
(*                                                                         *)
(* Addresses are blocks of the volume.  A block holds the name of the      *)
(* structure written to it, "zero" if only the wipe of the partition head  *)
(* reached it, and else "old", what the stick held before.                 *)
(***************************************************************************)
EXTENDS Integers, Sequences

CONSTANTS
    Sizes,        \* part_sectors of the volumes
    WipedBlocks,  \* the 128 MB usb_scsi_wipe_partition_head zeroes, in blocks
    MaxGlitches   \* bound: commands that fail on a stick still plugged in

\* READ CAPACITY(10) reports at most 2^32 sectors.
MaxSegments == 1048576

ASSUME F2fsAssumption ==
    /\ Sizes \subseteq Nat
    /\ \A s \in Sizes : s \div 4096 <= MaxSegments
    /\ WipedBlocks \in Nat
    /\ MaxGlitches \in Nat

-----------------------------------------------------------------------------
(* f2fs_prepare_super_block: the areas, for n segments.  SIZE_ALIGN and     *)
(* SEG_ALIGN round up.                                                      *)

BlksPerSeg == 512
UpTo(val, size) == (val + size - 1) \div size
SegAlign(blks) == UpTo(blks, BlksPerSeg)

\* startF2FSFormat_Internal: whole blocks only.
WholeBlocks(s) == 8 * (s \div 8)

\* The two superblocks take the first zone.
Segment0 == 512

\* Mutated form: the zone of the superblocks is counted as a segment.
SegmentsWithZone0(s) == s \div 4096

\* Segments of a volume of at least one.
Segments(s) == s \div 4096 - 1

\* MAX_BITMAP_SIZE_IN_CKPT is 3900 bytes for the bitmaps of SIT and NAT.  READ
\* CAPACITY(10) cannot report a stick whose SIT needs more, so cp_payload is 0.
CkptSegs == 2
MaxNatSegs(sit) == ((3900 - sit * 64) * 8) \div BlksPerSeg

\* sb, in segments: total_zones, section_count and segment_count_main are one
\* number.  SIT and NAT are held twice.
Layout(n) ==
    LET sit == SegAlign(UpTo(n, 55))
        want == SegAlign(UpTo((n - CkptSegs - 2 * sit) * BlksPerSeg, 455))
        nat == IF want > MaxNatSegs(sit) THEN MaxNatSegs(sit) ELSE want
        ssa == SegAlign(n - CkptSegs - 2 * sit - 2 * nat + 1)
        meta == CkptSegs + 2 * sit + 2 * nat + ssa
    IN  [sit |-> 2 * sit, nat |-> 2 * nat, ssa |-> ssa, meta |-> meta, main |-> n - meta]

SitStart == Segment0 + CkptSegs * BlksPerSeg
NatStart(l) == SitStart + l.sit * BlksPerSeg
SsaStart(l) == NatStart(l) + l.nat * BlksPerSeg
MainStart(l) == Segment0 + l.meta * BlksPerSeg

-----------------------------------------------------------------------------
(* get_best_overprovision and the test of the size.  A ratio of c per cent  *)
(* reserves 8 + 200/c segments; the space it leaves is compared as a        *)
(* fraction.  From 256 segments on a ratio with room always exists.         *)

Ratios == {5 * k : k \in 2 .. 19}
LeavesRoom(m, c) == (m - 8) * c > 200
Space(m, c) == ((m - 8) * c - 200) * (100 - c)
BestRatio(m) ==
    CHOOSE c \in Ratios :
        /\ LeavesRoom(m, c)
        /\ \A d \in Ratios : LeavesRoom(m, d) =>
              \/ Space(m, c) * d > Space(m, d) * c
              \/ Space(m, c) * d = Space(m, d) * c /\ c <= d

HasRoom(m) ==
    m < 256 => /\ \E c \in Ratios : LeavesRoom(m, c)
               /\ m - 6 >= 8 + 200 \div BestRatio(m)

MainSegs(s) == Layout(Segments(s)).main

\* Below 7 segments the unsigned subtractions wrap, and the volume is refused
\* for having less than F2FS_MIN_SEGMENTS.
Sufficient(s) ==
    s >= 4096 /\ Segments(s) >= 9 /\ HasRoom(MainSegs(s)) /\ MainSegs(s) > 6

\* round_up(usable_main_segs, section_count) divides by zero.
DividesByZero(s) == s >= 4096 /\ Segments(s) >= 7 /\ MainSegs(s) = 0

-----------------------------------------------------------------------------
(* The current segments: heap allocation, and verify_cur_segs.              *)

HeapSegs(m) ==
    [hotNode |-> m - 1, warmNode |-> m - 2, coldNode |-> m - 3, hotData |-> m - 4,
     coldData |-> 0, warmData |-> 1]

CurSeg(m) ==
    LET heap == HeapSegs(m) IN
    IF \A t, u \in DOMAIN heap : heap[t] = heap[u] => t = u THEN heap
    ELSE [hotData |-> 0, warmData |-> 1, coldData |-> 2,
          hotNode |-> 3, warmNode |-> 4, coldNode |-> 5]

BlockOf(l, type) == MainStart(l) + CurSeg(l.main)[type] * BlksPerSeg

-----------------------------------------------------------------------------
(* What f2fs_format_device fills and writes, in its order.                  *)

\* f2fs_init_sit_area, then every second segment in f2fs_init_nat_area.
Fills(l) ==
    [i \in 1 .. l.sit \div 2 |-> SitStart + (i - 1) * BlksPerSeg]
    \o [i \in 1 .. l.nat \div 2 |-> NatStart(l) + 2 * (i - 1) * BlksPerSeg]

At(blk, what) == [blk |-> blk, what |-> what]

RootInode(l) == At(BlockOf(l, "hotNode"), "rootInode")
NatRoot(l) == At(NatStart(l), "natRoot")
RootDentry(l) == At(BlockOf(l, "hotData"), "rootDentry")

RootDir(l) == << RootInode(l), NatRoot(l), RootDentry(l) >>

NatBitsBlocks(l) == (2 * l.nat * 32 + 8 + 4095) \div 4096
PackBlocks == 6

\* The last blocks of the segment of pack 1, if it has room for them.
NatBits(l) ==
    IF PackBlocks <= BlksPerSeg - NatBitsBlocks(l)
    THEN [i \in 1 .. NatBitsBlocks(l) |->
             At(Segment0 + BlksPerSeg - NatBitsBlocks(l) + i - 1, "natBits")]
    ELSE <<>>

Pack1 ==
    << At(Segment0, "pack1Head"), At(Segment0 + 1, "dataSummary"),
       At(Segment0 + 2, "hotNodeSummary"), At(Segment0 + 3, "warmNodeSummary"),
       At(Segment0 + 4, "coldNodeSummary"), At(Segment0 + 5, "pack1Foot") >>

\* Version 0, so that the first mount takes pack 1; no summaries.
Pack2 ==
    << At(Segment0 + BlksPerSeg, "pack2Head"),
       At(Segment0 + BlksPerSeg + PackBlocks - 1, "pack2Foot") >>

CheckPointPack(l) == Pack1 \o NatBits(l) \o Pack2

SuperBlock == << At(0, "superBlock"), At(1, "superBlock") >>

\* Mutated form: the super blocks are written first.
WritesSuperFirst(l) == SuperBlock \o RootDir(l) \o CheckPointPack(l)

Writes(l) == RootDir(l) \o CheckPointPack(l) \o SuperBlock

-----------------------------------------------------------------------------
VARIABLES
    sectors,    \* part_sectors, in whole blocks
    sb,         \* the layout in the superblock, once it is prepared
    pc,         \* the next step of startF2FSFormat_Internal
    step,       \* fills or writes done
    result,     \* what f2fs_format_main returned
    disk,       \* blocks of the stick that were written
    cache,      \* g_write_cache: consecutive blocks
    plugged,    \* the stick is there
    lost,       \* history: structures in a write the stick refused
    glitches    \* history: commands that failed on a plugged stick

stickVars == <<disk, cache, lost, glitches>>
vars == <<sectors, sb, pc, step, result, plugged, stickVars>>

NoLayout == [sit |-> 0, nat |-> 0, ssa |-> 0, meta |-> 0, main |-> 0]
Empty == [b \in {} |-> "zero"]

Init ==
    /\ sectors \in {WholeBlocks(s) : s \in Sizes}
    /\ sb = NoLayout
    /\ pc = "prepare" /\ step = 0 /\ result = -1
    /\ disk = Empty /\ cache = <<>>
    /\ plugged = TRUE /\ lost = {} /\ glitches = 0

Content(b) ==
    IF b \in DOMAIN disk THEN disk[b] ELSE IF b < WipedBlocks THEN "zero" ELSE "old"

-----------------------------------------------------------------------------
(* The stick behind scsi_io_internal.                                       *)

\* The first k of the given consecutive blocks reach the medium.
Put(blocks, k) ==
    disk' = [b \in DOMAIN disk \cup {blocks[i].blk : i \in 1 .. k} |->
                IF \E i \in 1 .. k : blocks[i].blk = b
                THEN blocks[CHOOSE i \in 1 .. k : blocks[i].blk = b].what
                ELSE disk[b]]

Accepted(blocks) ==
    /\ plugged
    /\ Put(blocks, Len(blocks))
    /\ UNCHANGED <<lost, glitches>>

\* A WRITE(10) breaks off, or finds no stick.
Refused(blocks) ==
    /\ blocks # <<>>
    /\ lost' = lost \cup {blocks[i].what : i \in DOMAIN blocks}
    /\ \/ ~plugged /\ UNCHANGED <<disk, glitches>>
       \/ /\ plugged /\ glitches < MaxGlitches
          /\ glitches' = glitches + 1
          /\ \E k \in 0 .. Len(blocks) : Put(blocks, k)

\* scsi_flush_cache_internal: the cache is empty afterwards whatever happened.
Flush ==
    \/ cache = <<>> /\ UNCHANGED <<disk, lost, glitches>>
    \/ cache # <<>> /\ Accepted(cache)
    \/ Refused(cache)

Follows(w) == cache # <<>> /\ w.blk = cache[Len(cache)].blk + 1

\* dev_write_block, 8 sectors: appended to the cache, or put into it
\* after a flush nobody asks the result of.
Cached(w) ==
    \/ /\ Follows(w)
       /\ cache' = Append(cache, w)
       /\ UNCHANGED <<disk, lost, glitches>>
    \/ /\ ~Follows(w)
       /\ Flush
       /\ cache' = <<w>>

-----------------------------------------------------------------------------
(* f2fs_format_main.                                                        *)

Fail == pc' = "final" /\ UNCHANGED <<sectors, sb, step, result, plugged>>

Goto(label) ==
    /\ pc' = label /\ step' = 0
    /\ UNCHANGED <<sectors, sb, result, plugged>>

\* The next fill or write, or the next function after the last one.
Advance(last, label) ==
    /\ IF step + 1 < last THEN pc' = pc /\ step' = step + 1
                          ELSE pc' = label /\ step' = 0
    /\ UNCHANGED <<sectors, sb, result, plugged>>

\* Nothing happens before the layout is known to fit.
PrepareSuperBlock ==
    /\ pc = "prepare"
    /\ \/ /\ Sufficient(sectors)
          /\ pc' = "trim" /\ sb' = Layout(Segments(sectors))
          /\ UNCHANGED <<sectors, step, result, plugged>>
       \/ ~Sufficient(sectors) /\ Fail
       \/ DividesByZero(sectors) /\ Goto("trapped")
    /\ UNCHANGED stickVars

\* is_wiped_device and trim_device ask descriptor 0, which is not the stick.
TrimDevices ==
    /\ pc = "trim"
    /\ Goto("fill") \/ Fail
    /\ UNCHANGED stickVars

\* dev_fill writes its zeros to descriptor 0 as well.
DevFill ==
    /\ pc = "fill"
    /\ Advance(Len(Fills(sb)), "write") \/ Fail
    /\ UNCHANGED stickVars

\* The writes before which a function asks for memory: those of the root inode, of
\* its NAT block and of its dentry block, of the check points, of the superblock.
Allocates(l) == {0, 1, 2, Len(RootDir(l)), Len(RootDir(l) \o CheckPointPack(l))}

\* f2fs_create_root_dir, f2fs_write_check_point_pack, f2fs_write_super_block.  With
\* no memory they give up; the first write asks for the cache itself as well.
DevWrite ==
    /\ pc = "write"
    /\ \/ Cached(Writes(sb)[step + 1]) /\ Advance(Len(Writes(sb)), "sync")
       \/ step \in Allocates(sb) /\ Fail /\ UNCHANGED stickVars

-----------------------------------------------------------------------------
(* The end of startF2FSFormat_Internal, and the last sync of                *)
(* startStableFormat.                                                       *)

\* Mutated form: the bridge does not flush.
BridgeSyncNothing ==
    /\ pc = "sync"
    /\ pc' = "pause" /\ result' = 0
    /\ UNCHANGED <<sectors, sb, step, plugged, stickVars>>

BridgeSync ==
    /\ pc = "sync"
    /\ Flush /\ cache' = <<>>
    /\ pc' = "pause" /\ result' = 0
    /\ UNCHANGED <<sectors, sb, step, plugged>>

Pause ==
    /\ pc = "pause"
    /\ Goto("final")
    /\ UNCHANGED stickVars

FinalSync ==
    /\ pc = "final"
    /\ Flush /\ cache' = <<>>
    /\ Goto("done")

\* The stick is pulled out.
Unplug ==
    /\ plugged /\ pc \notin {"done", "trapped"}
    /\ plugged' = FALSE
    /\ UNCHANGED <<sectors, sb, pc, step, result, stickVars>>

Engine ==
    \/ PrepareSuperBlock \/ TrimDevices \/ DevFill \/ DevWrite
    \/ BridgeSync \/ Pause \/ FinalSync

Next == Engine \/ Unplug

Spec == Init /\ [][Next]_vars

-----------------------------------------------------------------------------
(* Properties.                                                              *)

\* What the layout must give in a volume of s sectors: the areas
\* follow each other and end inside the volume, SIT and SSA have an entry for
\* every main segment, the six current segments are different main segments,
\* and neither NAT bits nor a pack meets the other pack or the superblocks.
Sound(s, l) ==
    /\ l.sit > 0 /\ l.nat > 0 /\ l.ssa > 0
    /\ MainStart(l) = SsaStart(l) + l.ssa * BlksPerSeg
    /\ MainStart(l) + l.main * BlksPerSeg <= s \div 8
    /\ l.main <= 55 * BlksPerSeg * (l.sit \div 2)
    /\ l.main <= BlksPerSeg * l.ssa
    /\ LET cur == CurSeg(l.main) IN
       \A t \in DOMAIN cur :
          /\ cur[t] \in 0 .. l.main - 1
          /\ \A u \in DOMAIN cur : cur[t] = cur[u] => t = u
    /\ 0 < NatBitsBlocks(l) /\ NatBitsBlocks(l) <= BlksPerSeg - PackBlocks

\* f2fs_prepare_super_block lets mkfs go on only with a sound layout, whatever
\* the size of the stick.
LayoutSound == pc \in {"trim", "fill", "write", "sync", "pause"} => Sound(sectors, sb)

\* The blocks a mount follows from the superblock: both packs by cp_blkaddr and
\* cp_pack_total_block_count, the summaries by cp_pack_start_sum, the NAT by
\* nat_blkaddr, the root inode by its NAT entry and its first data block.
Referenced(l) ==
    {At(Segment0, "pack1Head"), At(Segment0 + PackBlocks - 1, "pack1Foot"),
     At(Segment0 + BlksPerSeg, "pack2Head"),
     At(Segment0 + BlksPerSeg + PackBlocks - 1, "pack2Foot"),
     At(Segment0 + 1, "dataSummary"), At(Segment0 + 2, "hotNodeSummary"),
     At(Segment0 + 3, "warmNodeSummary"), At(Segment0 + 4, "coldNodeSummary"),
     At(NatStart(l), "natRoot"),
     At(MainStart(l) + (l.main - 1) * BlksPerSeg, "rootInode"),
     At(MainStart(l) + (l.main - 4) * BlksPerSeg, "rootDentry")}
    \cup {At(Segment0 + BlksPerSeg - i, "natBits") : i \in 1 .. NatBitsBlocks(l)}

\* A stick pulled out at any moment never mounts as a damaged F2FS: once the
\* superblock of the new file system is on it, so is everything the superblock
\* leads to, unless a command failed on the stick while it was plugged in.
SuperblockSeals ==
    Content(0) = "superBlock" =>
        \A r \in Referenced(sb) :
            Content(r.blk) = r.what \/ (glitches > 0 /\ r.what \in lost)

\* When the 3-second pause begins ("to allow USB controller to write
\* Checkpoint"), nothing of the file system is left in the program's cache.
PausedAfterFlush ==
    pc = "pause" =>
        /\ cache = <<>>
        /\ \A r \in Referenced(sb) : Content(r.blk) = r.what \/ r.what \in lost

\* Only volumes of 16 to 18 MB make mkfs divide by zero: they have no main section,
\* and get_best_overprovision divides by the number of sections before
\* f2fs_prepare_super_block tests the size.  Larger ones have a section; of smaller
\* ones the number of sections wraps around, which is not zero.
TrapsOnlyBelow18MB == pc = "trapped" => sectors \in 32768 .. 36863

\* Stated in f2fs_format.c ("While zeroing out the nat area on disk", of the loop
\* whose dev_fill must succeed): after a successful format the SIT and NAT
\* segments the loops filled hold no data of an earlier file system.
SitNatZeroed ==
    pc = "done" /\ result = 0 =>
        \A i \in DOMAIN Fills(sb) : \A b \in Fills(sb)[i] .. Fills(sb)[i] + BlksPerSeg - 1 :
            Content(b) # "old"

=============================================================================
