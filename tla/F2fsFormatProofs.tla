-------------------------- MODULE F2fsFormatProofs --------------------------
(***************************************************************************)
(* The layout of F2fsFormat, for every size a stick can report: whatever   *)
(* f2fs_prepare_super_block does not refuse has sound areas.  The          *)
(* arithmetic of one rounded division is stated once per divisor; the rest *)
(* is linear.  And the order of its writes: a stick that shows a           *)
(* superblock has what the superblock leads to.                            *)
(***************************************************************************)
EXTENDS F2fsFormat, TLAPS

\* Rounding up to blocks of 55 SIT entries, 455 NAT entries and to segments.
LEMMA UpTo55 ==
    ASSUME NEW a \in Int
    PROVE  /\ UpTo(a, 55) \in Int
           /\ 55 * UpTo(a, 55) >= a
           /\ 55 * UpTo(a, 55) <= a + 54
  BY DEF UpTo

\* NAT entries.
LEMMA UpTo455 ==
    ASSUME NEW a \in Int
    PROVE  /\ UpTo(a, 455) \in Int
           /\ 455 * UpTo(a, 455) >= a
           /\ 455 * UpTo(a, 455) <= a + 454
  BY DEF UpTo

\* Segments.
LEMMA UpToSegment ==
    ASSUME NEW a \in Int
    PROVE  /\ SegAlign(a) \in Int
           /\ BlksPerSeg * SegAlign(a) >= a
           /\ BlksPerSeg * SegAlign(a) <= a + 511
  BY DEF SegAlign, UpTo, BlksPerSeg

\* The NAT bitmap of a SIT of a stick that READ CAPACITY(10) can report.
LEMMA NatBound ==
    ASSUME NEW sit \in Int, 1 <= sit, sit <= 38
    PROVE  MaxNatSegs(sit) \in Int /\ 1 <= MaxNatSegs(sit) /\ MaxNatSegs(sit) <= 60
  BY DEF MaxNatSegs, BlksPerSeg

\* The heap order gives six different segments of the main area.
LEMMA HeapDistinct ==
    ASSUME NEW m \in Int, m > 6
    PROVE  /\ CurSeg(m) = HeapSegs(m)
           /\ \A t \in DOMAIN HeapSegs(m) :
                 /\ HeapSegs(m)[t] \in 0 .. m - 1
                 /\ \A u \in DOMAIN HeapSegs(m) : HeapSegs(m)[t] = HeapSegs(m)[u] => t = u
<1> DEFINE heap == HeapSegs(m)
<1>1. DOMAIN heap = {"hotNode", "warmNode", "coldNode", "hotData", "coldData", "warmData"}
  BY DEF HeapSegs
<1>2. /\ heap["hotNode"] = m - 1 /\ heap["warmNode"] = m - 2 /\ heap["coldNode"] = m - 3
      /\ heap["hotData"] = m - 4 /\ heap["coldData"] = 0 /\ heap["warmData"] = 1
  BY DEF HeapSegs
<1> HIDE DEF heap
<1>3. \A t \in DOMAIN heap : heap[t] \in 0 .. m - 1
  BY <1>1, <1>2
<1>4. \A t, u \in DOMAIN heap : heap[t] = heap[u] => t = u
  BY <1>1, <1>2
<1>5. CurSeg(m) = heap
  BY <1>4 DEF CurSeg, heap
<1> QED
  BY <1>3, <1>4, <1>5 DEF heap

\* The areas of a layout with a main area, one fact per area.
LEMMA AreasOf ==
    ASSUME NEW n \in Nat, 9 <= n, n <= MaxSegments, Layout(n).main > 6
    PROVE  LET l == Layout(n) IN
           /\ l.sit \in Int /\ l.nat \in Int /\ l.ssa \in Int /\ l.meta \in Int /\ l.main \in Int
           /\ l.sit > 0 /\ l.nat > 0 /\ l.nat <= 120 /\ l.ssa > 0
           /\ l.meta = 2 + l.sit + l.nat + l.ssa
           /\ l.main = n - l.meta
           /\ l.main <= 55 * BlksPerSeg * (l.sit \div 2)
           /\ l.main <= BlksPerSeg * l.ssa
<1> DEFINE sit == SegAlign(UpTo(n, 55))
           room == (n - CkptSegs - 2 * sit) * BlksPerSeg
           want == SegAlign(UpTo(room, 455))
           nat == IF want > MaxNatSegs(sit) THEN MaxNatSegs(sit) ELSE want
           left == n - CkptSegs - 2 * sit - 2 * nat + 1
           ssa == SegAlign(left)
           meta == CkptSegs + 2 * sit + 2 * nat + ssa
<1>1. Layout(n) = [sit |-> 2 * sit, nat |-> 2 * nat, ssa |-> ssa, meta |-> meta, main |-> n - meta]
  BY DEF Layout
<1>2. UpTo(n, 55) \in Int /\ 55 * UpTo(n, 55) >= n /\ 55 * UpTo(n, 55) <= n + 54
  BY UpTo55
<1>3. sit \in Int /\ 512 * sit >= UpTo(n, 55) /\ 512 * sit <= UpTo(n, 55) + 511
  BY <1>2, UpToSegment DEF BlksPerSeg
<1> HIDE DEF sit
<1>4. 1 <= sit /\ sit <= 38 /\ 55 * 512 * sit >= n
  BY <1>2, <1>3, SMT DEF MaxSegments
<1>5. n - 2 - 2 * sit >= 1
  BY <1>2, <1>3, <1>4
<1>6. room \in Int /\ room = (n - 2 - 2 * sit) * 512 /\ room >= 512
  BY <1>3, <1>5 DEF CkptSegs, BlksPerSeg
<1> HIDE DEF room
<1>7. UpTo(room, 455) \in Int /\ 455 * UpTo(room, 455) >= room
  BY <1>6, UpTo455
<1>8. want \in Int /\ 512 * want >= UpTo(room, 455)
  BY <1>7, UpToSegment DEF BlksPerSeg
<1> HIDE DEF want
<1>9. want >= 1
  BY <1>6, <1>7, <1>8
<1>10. MaxNatSegs(sit) \in Int /\ 1 <= MaxNatSegs(sit) /\ MaxNatSegs(sit) <= 60
  BY <1>3, <1>4, NatBound
<1>11. nat \in Int /\ 1 <= nat /\ nat <= 60
  BY <1>8, <1>9, <1>10
<1> HIDE DEF nat
<1>12. left \in Int /\ left = n - 2 - 2 * sit - 2 * nat + 1
  BY <1>3, <1>11 DEF CkptSegs
<1> HIDE DEF left
<1>13. ssa \in Int /\ 512 * ssa >= left /\ 512 * ssa <= left + 511
  BY <1>12, UpToSegment DEF BlksPerSeg
<1> HIDE DEF ssa
<1>14. meta \in Int /\ meta = 2 + 2 * sit + 2 * nat + ssa
  BY <1>3, <1>11, <1>13 DEF CkptSegs
<1> HIDE DEF meta
<1>15. n - meta > 6
  BY <1>1
<1>16. ssa > 0 /\ n - meta <= 512 * ssa
  BY <1>3, <1>11, <1>12, <1>13, <1>14, <1>15
<1>17. (2 * sit) \div 2 = sit
  BY <1>3
<1>18. n - meta <= 55 * 512 * sit
  BY <1>3, <1>4, <1>11, <1>13, <1>14, <1>16
<1> DEFINE l == Layout(n)
<1>19. l.sit = 2 * sit /\ l.nat = 2 * nat /\ l.ssa = ssa /\ l.meta = meta /\ l.main = n - meta
  BY <1>1
<1>20. l.main <= 55 * BlksPerSeg * (l.sit \div 2)
  BY <1>17, <1>18, <1>19 DEF BlksPerSeg
<1> HIDE DEF l
<1>21. /\ l.sit \in Int /\ l.nat \in Int /\ l.ssa \in Int /\ l.meta \in Int /\ l.main \in Int
       /\ l.sit > 0 /\ l.nat > 0 /\ l.nat <= 120 /\ l.ssa > 0
       /\ l.meta = 2 + l.sit + l.nat + l.ssa
       /\ l.main = n - l.meta
       /\ l.main <= BlksPerSeg * l.ssa
  BY <1>3, <1>4, <1>11, <1>13, <1>14, <1>16, <1>19 DEF BlksPerSeg
<1> QED
  BY <1>20, <1>21 DEF l

\* What the size test lets through is sound.
LEMMA SufficientIsSound ==
    ASSUME NEW s \in Nat, s \div 4096 <= MaxSegments, Sufficient(s)
    PROVE  Sound(s, Layout(Segments(s)))
<1> DEFINE n == Segments(s)
           l == Layout(n)
<1>1. n \in Nat /\ 9 <= n /\ n <= MaxSegments /\ n = s \div 4096 - 1
  BY SMT DEF Sufficient, Segments, MaxSegments
<1>2. l.main > 6
  BY DEF Sufficient, MainSegs
<1> HIDE DEF n
<1>3. /\ l.sit \in Int /\ l.nat \in Int /\ l.ssa \in Int /\ l.meta \in Int /\ l.main \in Int
      /\ l.sit > 0 /\ l.nat > 0 /\ l.nat <= 120 /\ l.ssa > 0
      /\ l.meta = 2 + l.sit + l.nat + l.ssa
      /\ l.main = n - l.meta
      /\ l.main <= 55 * BlksPerSeg * (l.sit \div 2)
      /\ l.main <= BlksPerSeg * l.ssa
  BY <1>1, <1>2, AreasOf
<1> HIDE DEF l
<1>4. MainStart(l) = SsaStart(l) + l.ssa * BlksPerSeg
  BY <1>3 DEF MainStart, SsaStart, NatStart, SitStart, Segment0, CkptSegs, BlksPerSeg
<1>5. MainStart(l) + l.main * BlksPerSeg = 512 * (s \div 4096)
  BY <1>1, <1>3 DEF MainStart, Segment0, BlksPerSeg
<1>6. 512 * (s \div 4096) <= s \div 8
  OBVIOUS
<1>7. \A t \in DOMAIN CurSeg(l.main) :
          /\ CurSeg(l.main)[t] \in 0 .. l.main - 1
          /\ \A u \in DOMAIN CurSeg(l.main) : CurSeg(l.main)[t] = CurSeg(l.main)[u] => t = u
  BY <1>2, <1>3, HeapDistinct
<1>8. 0 < NatBitsBlocks(l) /\ NatBitsBlocks(l) <= BlksPerSeg - PackBlocks
  BY <1>3 DEF NatBitsBlocks, BlksPerSeg, PackBlocks
<1>9. Sound(s, l)
  BY <1>3, <1>4, <1>5, <1>6, <1>7, <1>8 DEF Sound
<1> QED
  BY <1>9 DEF l, n

\* The inductive invariant: the size is one of the sizes a stick reports, and
\* behind the size test the superblock is the layout of that size.
LayoutInv ==
    /\ sectors \in Nat /\ sectors \div 4096 <= MaxSegments
    /\ pc \in {"trim", "fill", "write", "sync", "pause"} =>
          Sufficient(sectors) /\ sb = Layout(Segments(sectors))

\* The layout is decided once, for the size of the stick.
THEOREM LayoutInvariance == Spec => []LayoutInv
<1>1. Init => LayoutInv
  <2> SUFFICES ASSUME Init PROVE LayoutInv
    OBVIOUS
  <2>1. PICK s \in Sizes : sectors = WholeBlocks(s)
    BY DEF Init
  <2>2. s \in Nat /\ s \div 4096 <= MaxSegments
    BY F2fsAssumption
  <2>3. sectors \in Nat /\ sectors <= s
    BY <2>1, <2>2 DEF WholeBlocks
  <2>4. sectors \div 4096 <= MaxSegments
    BY <2>2, <2>3, SMT DEF MaxSegments
  <2> QED
    BY <2>3, <2>4 DEF Init, LayoutInv
<1>2. LayoutInv /\ [Next]_vars => LayoutInv'
  <2> SUFFICES ASSUME LayoutInv, [Next]_vars PROVE LayoutInv'
    OBVIOUS
  <2>1. CASE PrepareSuperBlock
    BY <2>1 DEF PrepareSuperBlock, LayoutInv, Fail, Goto
  <2>2. CASE TrimDevices
    BY <2>2 DEF TrimDevices, LayoutInv, Fail, Goto
  <2>3. CASE DevFill
    BY <2>3 DEF DevFill, LayoutInv, Fail, Advance
  <2>4. CASE DevWrite
    BY <2>4 DEF DevWrite, LayoutInv, Fail, Advance
  <2>5. CASE BridgeSync
    BY <2>5 DEF BridgeSync, LayoutInv
  <2>6. CASE Pause
    BY <2>6 DEF Pause, LayoutInv, Goto
  <2>7. CASE FinalSync
    BY <2>7 DEF FinalSync, LayoutInv, Goto
  <2>8. CASE Unplug
    BY <2>8 DEF Unplug, LayoutInv
  <2>9. CASE UNCHANGED vars
    BY <2>9 DEF vars, LayoutInv
  <2> QED
    BY <2>1, <2>2, <2>3, <2>4, <2>5, <2>6, <2>7, <2>8, <2>9 DEF Next, Engine
<1> QED
  BY <1>1, <1>2, PTL DEF Spec

\* For every stick, whatever fails and whenever it is pulled out, mkfs.f2fs works
\* only with a sound layout (LayoutSound).
THEOREM LayoutAlwaysSound == Spec => []LayoutSound
<1>1. LayoutInv => LayoutSound
  BY SufficientIsSound DEF LayoutInv, LayoutSound
<1> QED
  BY <1>1, LayoutInvariance, PTL

-----------------------------------------------------------------------------
(* Volumes that are too small.                                              *)

\* Only a volume of eight segments, one of them the superblocks', has areas that
\* leave exactly nothing for the main area.
LEMMA NoMainArea ==
    ASSUME NEW n \in Nat, 7 <= n, n <= MaxSegments, Layout(n).main = 0
    PROVE  n = 7
<1> DEFINE sit == SegAlign(UpTo(n, 55))
           room == (n - CkptSegs - 2 * sit) * BlksPerSeg
           want == SegAlign(UpTo(room, 455))
           nat == IF want > MaxNatSegs(sit) THEN MaxNatSegs(sit) ELSE want
           left == n - CkptSegs - 2 * sit - 2 * nat + 1
           ssa == SegAlign(left)
<1>1. Layout(n).main = n - (CkptSegs + 2 * sit + 2 * nat + ssa)
  BY DEF Layout
<1>2. UpTo(n, 55) \in Int /\ 55 * UpTo(n, 55) >= n /\ 55 * UpTo(n, 55) <= n + 54
  BY UpTo55
<1>3. sit \in Int /\ 512 * sit >= UpTo(n, 55) /\ 512 * sit <= UpTo(n, 55) + 511
  BY <1>2, UpToSegment DEF BlksPerSeg
<1> HIDE DEF sit
<1>4. 1 <= sit /\ sit <= 38
  BY <1>2, <1>3, SMT DEF MaxSegments
<1>5. room \in Int /\ room = (n - 2 - 2 * sit) * 512
  BY <1>3 DEF CkptSegs, BlksPerSeg
<1> HIDE DEF room
<1>6. UpTo(room, 455) \in Int /\ 455 * UpTo(room, 455) <= room + 454
  BY <1>5, UpTo455
<1>7. want \in Int /\ 512 * want <= UpTo(room, 455) + 511
  BY <1>6, UpToSegment DEF BlksPerSeg
<1> HIDE DEF want
<1>8. MaxNatSegs(sit) \in Int
  BY <1>3, <1>4, NatBound
<1>9. nat \in Int /\ nat <= want
  BY <1>7, <1>8
<1> HIDE DEF nat
<1>10. left \in Int /\ left = n - 2 - 2 * sit - 2 * nat + 1
  BY <1>3, <1>9 DEF CkptSegs
<1> HIDE DEF left
<1>11. ssa \in Int /\ 512 * ssa >= left /\ 512 * ssa <= left + 511
  BY <1>10, UpToSegment DEF BlksPerSeg
<1> HIDE DEF ssa
<1>12. n = 2 + 2 * sit + 2 * nat + ssa
  BY <1>1, <1>3, <1>9, <1>11 DEF CkptSegs
<1>13. left = 2 /\ ssa = 1 /\ n = 3 + 2 * sit + 2 * nat
  BY <1>3, <1>9, <1>10, <1>11, <1>12
<1>14. nat <= 1
  BY <1>3, <1>5, <1>6, <1>7, <1>9, <1>13
<1>15. sit = 1
  BY <1>2, <1>3, <1>4, <1>9, <1>13, <1>14
<1> QED
  BY <1>9, <1>13, <1>14, <1>15

\* get_best_overprovision and f2fs_prepare_super_block divide by a number of
\* sections that is zero for no volume outside 16 to 18 MB.
THEOREM OnlyOneSizeTraps == Spec => []TrapsOnlyBelow18MB
<1>1. Init => TrapsOnlyBelow18MB
  BY DEF Init, TrapsOnlyBelow18MB
<1>2. LayoutInv /\ TrapsOnlyBelow18MB /\ [Next]_vars => TrapsOnlyBelow18MB'
  <2> SUFFICES ASSUME LayoutInv, TrapsOnlyBelow18MB, [Next]_vars PROVE TrapsOnlyBelow18MB'
    OBVIOUS
  <2>1. CASE PrepareSuperBlock
    <3> SUFFICES ASSUME pc' = "trapped" PROVE sectors' \in 32768 .. 36863
      BY DEF TrapsOnlyBelow18MB
    <3>1. DividesByZero(sectors) /\ sectors' = sectors
      BY <2>1 DEF PrepareSuperBlock, Fail, Goto
    <3> DEFINE n == Segments(sectors)
    <3>2. sectors \in Nat /\ n = sectors \div 4096 - 1 /\ n >= 7 /\ n <= MaxSegments
      BY <3>1, SMT DEF LayoutInv, DividesByZero, Segments, MaxSegments
    <3>3. n \in Nat /\ Layout(n).main = 0
      BY <3>1, <3>2 DEF DividesByZero, MainSegs
    <3>4. n = 7
      BY <3>2, <3>3, NoMainArea
    <3> QED
      BY <3>1, <3>2, <3>4
  <2>2. CASE TrimDevices \/ DevFill \/ DevWrite \/ BridgeSync \/ Pause \/ FinalSync
    <3>1. CASE TrimDevices \/ BridgeSync \/ Pause \/ FinalSync
      BY <3>1 DEF TrimDevices, BridgeSync, Pause, FinalSync, Goto, Fail, TrapsOnlyBelow18MB
    <3>2. CASE DevFill
      BY <3>2 DEF DevFill, Fail, Advance, TrapsOnlyBelow18MB
    <3>3. CASE DevWrite
      BY <3>3 DEF DevWrite, Fail, Advance, TrapsOnlyBelow18MB
    <3> QED
      BY <2>2, <3>1, <3>2, <3>3
  <2>3. CASE Unplug \/ UNCHANGED vars
    BY <2>3 DEF Unplug, vars, TrapsOnlyBelow18MB
  <2> QED
    BY <2>1, <2>2, <2>3 DEF Next, Engine
<1> QED
  BY <1>1, <1>2, LayoutInvariance, PTL DEF Spec

-----------------------------------------------------------------------------
(* The order of the writes.                                                 *)

Names ==
    {"rootInode", "natRoot", "rootDentry", "pack1Head", "dataSummary",
     "hotNodeSummary", "warmNodeSummary", "coldNodeSummary", "pack1Foot",
     "natBits", "pack2Head", "pack2Foot", "superBlock"}
Write == [blk : Nat, what : Names]

\* What the argument needs of the writes for a layout: no block is written twice,
\* the superblocks come last, all they lead to is among the writes before, and no
\* memory is asked for between the two.
Ordered(l) ==
    LET w == Writes(l)
        n == Len(w)
    IN  /\ w \in Seq(Write) /\ n > 2
        /\ w[n - 1] = At(0, "superBlock") /\ w[n] = At(1, "superBlock")
        /\ \A i \in 1 .. n - 2 : w[i].blk > 1
        /\ \A i, j \in 1 .. n : w[i].blk = w[j].blk => i = j
        /\ \A r \in Referenced(l) : \E i \in 1 .. n - 2 : w[i] = r
        /\ Allocates(l) \subseteq 0 .. n - 2

\* Nothing is written yet, or never will be; mkfs gave up; the bridge's flush is done.
Idle == pc \in {"prepare", "trim", "fill", "trapped"}
Failed == pc \in {"final", "done"} /\ result # 0
Flushed == pc = "pause" \/ (pc \in {"final", "done"} /\ result = 0)

\* The content of block b of a stick d, and whether write w is on it or among the
\* losses.
Reads(d, b) == IF b \in DOMAIN d THEN d[b] ELSE IF b < WipedBlocks THEN "zero" ELSE "old"
Held(d, losses, w) == Reads(d, w.blk) = w.what \/ w.what \in losses

\* Of the first m writes the last are in the cache, and those before them are on
\* the stick or lost; the superblocks are among neither.
Unsealed(m) ==
    LET w == Writes(sb)
        c == Len(cache)
    IN  /\ Ordered(sb) /\ 0 \notin DOMAIN disk
        /\ m <= Len(w) /\ c <= m /\ m - c <= Len(w) - 2
        /\ \A i \in 1 .. c : cache[i] = w[m - c + i]
        /\ \A i \in 1 .. m - c : Held(disk, lost, w[i])

\* Every write is on the stick or lost; none is lost on a stick that has the first
\* superblock and on which no command failed.
Sealed ==
    LET w == Writes(sb) IN
    /\ Ordered(sb) /\ cache = <<>>
    /\ \A i \in 1 .. Len(w) : Held(disk, lost, w[i])
    /\ Reads(disk, 0) = "superBlock" /\ glitches = 0 =>
         \A i \in 1 .. Len(w) - 2 : Reads(disk, w[i].blk) = w[i].what

\* There is no superblock, on the stick or in the cache.
Headless == 0 \notin DOMAIN disk /\ \A i \in 1 .. Len(cache) : cache[i].blk # 0

SealType ==
    /\ pc \in {"prepare", "trim", "fill", "trapped", "write", "sync", "pause", "final", "done"}
    /\ result \in {-1, 0} /\ (pc \in {"prepare", "trim", "fill", "write", "sync"} => result = -1)
    /\ pc = "pause" => result = 0
    /\ glitches \in Nat /\ cache \in Seq(Write)
    /\ plugged /\ glitches = 0 => lost = {}

SealInv ==
    /\ SealType
    /\ Idle \/ (pc = "write" /\ step = 0) => disk = Empty /\ cache = <<>>
    /\ pc = "write" => step \in 0 .. Len(Writes(sb)) - 1 /\ Unsealed(step)
    /\ pc = "sync" => Unsealed(Len(Writes(sb)))
    /\ Failed => Headless
    /\ Flushed => Sealed

\* A list of m writes, and the elements of two such lists put together.
List(s, m) == s \in Seq(Write) /\ Len(s) = m
Joins(r, s, t, m, k) ==
    /\ \A i \in 1 .. m : r[i] = s[i]
    /\ \A i \in 1 .. k : r[m + i] = t[i]

\* Two lists of writes joined.
LEMMA Joined ==
    ASSUME NEW s, NEW t, NEW m \in Nat, NEW k \in Nat, List(s, m), List(t, k)
    PROVE  List(s \o t, m + k) /\ Joins(s \o t, s, t, m, k)
  BY DEF Joins, List

\* One write.
LEMMA AtIsWrite ==
    ASSUME NEW b \in Nat, NEW x \in Names
    PROVE  At(b, x) \in Write /\ At(b, x).blk = b /\ At(b, x).what = x
  BY DEF At, Write

\* Two writes.
LEMMA ListOf2 ==
    ASSUME NEW u \in Write, NEW v \in Write
    PROVE  List(<< u, v >>, 2) /\ << u, v >>[1] = u /\ << u, v >>[2] = v
  BY DEF List

\* Three writes.
LEMMA ListOf3 ==
    ASSUME NEW u \in Write, NEW v \in Write, NEW w \in Write
    PROVE  /\ List(<< u, v, w >>, 3)
           /\ << u, v, w >>[1] = u /\ << u, v, w >>[2] = v /\ << u, v, w >>[3] = w
  BY DEF List

\* Six writes.
LEMMA ListOf6 ==
    ASSUME NEW u \in Write, NEW v \in Write, NEW w \in Write,
           NEW x \in Write, NEW y \in Write, NEW z \in Write
    PROVE  /\ List(<< u, v, w, x, y, z >>, 6)
           /\ << u, v, w, x, y, z >>[1] = u /\ << u, v, w, x, y, z >>[2] = v
           /\ << u, v, w, x, y, z >>[3] = w /\ << u, v, w, x, y, z >>[4] = x
           /\ << u, v, w, x, y, z >>[5] = y /\ << u, v, w, x, y, z >>[6] = z
  BY DEF List

\* The writes that do not depend on the layout.
LEMMA Pack1Writes ==
    /\ List(Pack1, 6)
    /\ Pack1[1] = At(512, "pack1Head") /\ Pack1[2] = At(513, "dataSummary")
    /\ Pack1[3] = At(514, "hotNodeSummary") /\ Pack1[4] = At(515, "warmNodeSummary")
    /\ Pack1[5] = At(516, "coldNodeSummary") /\ Pack1[6] = At(517, "pack1Foot")
<1> DEFINE u == At(Segment0, "pack1Head")
           v == At(Segment0 + 1, "dataSummary")
           w == At(Segment0 + 2, "hotNodeSummary")
           x == At(Segment0 + 3, "warmNodeSummary")
           y == At(Segment0 + 4, "coldNodeSummary")
           z == At(Segment0 + 5, "pack1Foot")
<1>1. u \in Write /\ v \in Write /\ w \in Write /\ x \in Write /\ y \in Write /\ z \in Write
  BY DEF At, Write, Names, Segment0
<1>2. /\ u = At(512, "pack1Head") /\ v = At(513, "dataSummary")
      /\ w = At(514, "hotNodeSummary") /\ x = At(515, "warmNodeSummary")
      /\ y = At(516, "coldNodeSummary") /\ z = At(517, "pack1Foot")
  BY DEF Segment0
<1>3. Pack1 = << u, v, w, x, y, z >>
  BY DEF Pack1
<1> HIDE DEF u, v, w, x, y, z
<1>4. /\ List(Pack1, 6)
      /\ Pack1[1] = u /\ Pack1[2] = v /\ Pack1[3] = w
      /\ Pack1[4] = x /\ Pack1[5] = y /\ Pack1[6] = z
  BY <1>1, <1>3, ListOf6
<1> QED
  BY <1>2, <1>4

\* The second checkpoint pack.
LEMMA Pack2Writes ==
    List(Pack2, 2) /\ Pack2[1] = At(1024, "pack2Head") /\ Pack2[2] = At(1029, "pack2Foot")
<1> DEFINE u == At(Segment0 + BlksPerSeg, "pack2Head")
           v == At(Segment0 + BlksPerSeg + PackBlocks - 1, "pack2Foot")
<1>1. u \in Write /\ v \in Write
  BY DEF At, Write, Names, Segment0, BlksPerSeg, PackBlocks
<1>2. u = At(1024, "pack2Head") /\ v = At(1029, "pack2Foot")
  BY DEF Segment0, BlksPerSeg, PackBlocks
<1>3. Pack2 = << u, v >>
  BY DEF Pack2
<1> HIDE DEF u, v
<1>4. List(Pack2, 2) /\ Pack2[1] = u /\ Pack2[2] = v
  BY <1>1, <1>3, ListOf2
<1> QED
  BY <1>2, <1>4

\* The two copies of the superblock.
LEMMA SuperBlockWrites ==
    /\ List(SuperBlock, 2)
    /\ SuperBlock[1] = At(0, "superBlock") /\ SuperBlock[2] = At(1, "superBlock")
<1>1. At(0, "superBlock") \in Write /\ At(1, "superBlock") \in Write
  BY DEF At, Write, Names
<1> QED
  BY <1>1, ListOf2, Zenon DEF SuperBlock

\* All the writes, for a root directory of three blocks and k blocks of NAT bits.
AllWrites(root, bits) == root \o (Pack1 \o bits \o Pack2) \o SuperBlock

Spread(W, root, bits, k) ==
    /\ \A i \in 1 .. 3 : W[i] = root[i]
    /\ \A i \in 1 .. 6 : W[3 + i] = Pack1[i]
    /\ \A i \in 1 .. k : W[9 + i] = bits[i]
    /\ \A i \in 1 .. 2 : W[9 + k + i] = Pack2[i]
    /\ \A i \in 1 .. 2 : W[11 + k + i] = SuperBlock[i]

\* All the writes of f2fs_format_device, in their order.
LEMMA AllJoined ==
    ASSUME NEW root, List(root, 3), NEW k \in Nat, NEW bits, List(bits, k)
    PROVE  List(AllWrites(root, bits), 13 + k) /\ Spread(AllWrites(root, bits), root, bits, k)
<1> DEFINE p == Pack1 \o bits
           q == p \o Pack2
           r == root \o q
           W == AllWrites(root, bits)
<1>0. W = r \o SuperBlock
  BY DEF AllWrites
<1>1. 6 + k \in Nat /\ 8 + k \in Nat /\ 11 + k \in Nat
  OBVIOUS
<1>2. (6 + k) + 2 = 8 + k /\ 3 + (8 + k) = 11 + k /\ (11 + k) + 2 = 13 + k
  OBVIOUS
<1>3. List(p, 6 + k) /\ Joins(p, Pack1, bits, 6, k)
  BY Pack1Writes, Joined
<1> HIDE DEF p
<1>4. List(q, 8 + k) /\ Joins(q, p, Pack2, 6 + k, 2)
  <2>1. List(q, (6 + k) + 2) /\ Joins(q, p, Pack2, 6 + k, 2)
    BY <1>1, <1>3, Pack2Writes, Joined
  <2> QED
    BY <1>2, <2>1
<1> HIDE DEF q
<1>5. List(r, 11 + k) /\ Joins(r, root, q, 3, 8 + k)
  <2>1. List(r, 3 + (8 + k)) /\ Joins(r, root, q, 3, 8 + k)
    BY <1>1, <1>4, Joined
  <2> QED
    BY <1>2, <2>1
<1> HIDE DEF r
<1>6. List(W, 13 + k) /\ Joins(W, r, SuperBlock, 11 + k, 2)
  <2>1. List(W, (11 + k) + 2) /\ Joins(W, r, SuperBlock, 11 + k, 2)
    BY <1>0, <1>1, <1>5, SuperBlockWrites, Joined
  <2> QED
    BY <1>2, <2>1
<1> HIDE DEF W
<1>7. /\ \A i \in 1 .. 6 : p[i] = Pack1[i]
      /\ \A i \in 1 .. k : p[6 + i] = bits[i]
  BY <1>3 DEF Joins
<1>8. /\ \A i \in 1 .. 6 + k : q[i] = p[i]
      /\ \A i \in 1 .. 2 : q[(6 + k) + i] = Pack2[i]
  BY <1>4 DEF Joins
<1>9. /\ \A i \in 1 .. 3 : r[i] = root[i]
      /\ \A i \in 1 .. 8 + k : r[3 + i] = q[i]
  BY <1>5 DEF Joins
<1>10. /\ \A i \in 1 .. 11 + k : W[i] = r[i]
       /\ \A i \in 1 .. 2 : W[(11 + k) + i] = SuperBlock[i]
  BY <1>6 DEF Joins
<1>11. ASSUME NEW i \in 1 .. 3 PROVE W[i] = root[i]
  BY <1>9, <1>10
<1>12. ASSUME NEW i \in 1 .. 8 + k PROVE W[3 + i] = q[i]
  BY <1>9, <1>10
<1>13. ASSUME NEW i \in 1 .. 6 + k PROVE W[3 + i] = p[i]
  BY <1>8, <1>12
<1>14. ASSUME NEW i \in 1 .. 6 PROVE W[3 + i] = Pack1[i]
  BY <1>7, <1>13
<1>15. ASSUME NEW i \in 1 .. k PROVE W[9 + i] = bits[i]
  <2>1. 6 + i \in 1 .. 6 + k /\ 3 + (6 + i) = 9 + i
    OBVIOUS
  <2>2. W[3 + (6 + i)] = p[6 + i] /\ p[6 + i] = bits[i]
    BY <1>7, <1>13, <2>1
  <2> QED
    BY <2>1, <2>2
<1>16. ASSUME NEW i \in 1 .. 2 PROVE W[9 + k + i] = Pack2[i]
  <2>1. (6 + k) + i \in 1 .. 8 + k /\ 3 + ((6 + k) + i) = 9 + k + i
    OBVIOUS
  <2>2. W[3 + ((6 + k) + i)] = q[(6 + k) + i] /\ q[(6 + k) + i] = Pack2[i]
    BY <1>8, <1>12, <2>1
  <2> QED
    BY <2>1, <2>2
<1> QED
  BY <1>6, <1>10, <1>11, <1>14, <1>15, <1>16 DEF W, Spread

\* Every layout that passes the size test has its writes in that order.
LEMMA WritesOfLayout ==
    ASSUME NEW s \in Nat, s \div 4096 <= MaxSegments, Sufficient(s)
    PROVE  Ordered(Layout(Segments(s)))
<1> DEFINE l == Layout(Segments(s))
           k == NatBitsBlocks(l)
<1>1. /\ l.sit \in Int /\ l.nat \in Int /\ l.ssa \in Int /\ l.meta \in Int /\ l.main \in Int
      /\ l.sit > 0 /\ l.nat > 0 /\ l.nat <= 120 /\ l.ssa > 0 /\ l.main > 6
      /\ l.meta = 2 + l.sit + l.nat + l.ssa
  <2>1. Segments(s) \in Nat /\ 9 <= Segments(s) /\ Segments(s) <= MaxSegments
    BY SMT DEF Sufficient, Segments, MaxSegments
  <2>2. l.main > 6
    BY DEF Sufficient, MainSegs
  <2> QED
    BY <2>1, <2>2, AreasOf
<1> HIDE DEF l
<1>2. k \in 1 .. 2
  BY <1>1 DEF NatBitsBlocks
<1>3. NatStart(l) = 1536 + l.sit * 512 /\ MainStart(l) = 512 + l.meta * 512
  BY <1>1 DEF NatStart, MainStart, SitStart, Segment0, CkptSegs, BlksPerSeg
<1>4. /\ BlockOf(l, "hotNode") = MainStart(l) + (l.main - 1) * 512
      /\ BlockOf(l, "hotData") = MainStart(l) + (l.main - 4) * 512
  <2>1. CurSeg(l.main) = HeapSegs(l.main)
    BY <1>1, HeapDistinct
  <2>2. HeapSegs(l.main)["hotNode"] = l.main - 1 /\ HeapSegs(l.main)["hotData"] = l.main - 4
    BY DEF HeapSegs
  <2> QED
    BY <2>1, <2>2 DEF BlockOf, BlksPerSeg
<1> DEFINE a == MainStart(l) + (l.main - 1) * 512
           b == NatStart(l)
           c == MainStart(l) + (l.main - 4) * 512
<1>5. a \in Nat /\ b \in Nat /\ c \in Nat /\ b > 1535 /\ b < c /\ c < a
  BY <1>1, <1>3
<1>6. RootDir(l) = << At(a, "rootInode"), At(b, "natRoot"), At(c, "rootDentry") >>
  <2>1. BlockOf(l, "hotNode") = a /\ BlockOf(l, "hotData") = c /\ NatStart(l) = b
    BY <1>4
  <2> HIDE DEF a, b, c
  <2> QED
    BY <2>1 DEF RootDir, RootInode, NatRoot, RootDentry
<1>7. /\ List(NatBits(l), k)
      /\ \A i \in 1 .. k : NatBits(l)[i] = At(1024 - k + i - 1, "natBits")
  <2>1. PackBlocks <= BlksPerSeg - NatBitsBlocks(l)
    BY <1>2 DEF PackBlocks, BlksPerSeg
  <2>2. NatBits(l) = [i \in 1 .. k |-> At(Segment0 + BlksPerSeg - k + i - 1, "natBits")]
    BY <2>1 DEF NatBits
  <2> HIDE DEF k
  <2>3. \A i \in 1 .. k : At(Segment0 + BlksPerSeg - k + i - 1, "natBits") \in Write
    BY <1>2 DEF At, Write, Names, Segment0, BlksPerSeg
  <2>4. \A i \in 1 .. k : NatBits(l)[i] = At(1024 - k + i - 1, "natBits")
    BY <1>2, <2>2 DEF Segment0, BlksPerSeg
  <2> QED
    BY <1>2, <2>2, <2>3, <2>4 DEF List
<1> HIDE DEF k
<1>8. /\ List(RootDir(l), 3)
      /\ RootDir(l)[1] = At(a, "rootInode") /\ RootDir(l)[2] = At(b, "natRoot")
      /\ RootDir(l)[3] = At(c, "rootDentry")
  <2> HIDE DEF a, b, c
  <2>1. At(a, "rootInode") \in Write /\ At(b, "natRoot") \in Write /\ At(c, "rootDentry") \in Write
    BY <1>5 DEF At, Write, Names
  <2> QED
    BY <1>6, <2>1, ListOf3
<1> DEFINE W == Writes(l)
           n == 13 + k
<1>9. /\ List(W, n)
      /\ \A i \in 1 .. 3 : W[i] = RootDir(l)[i]
      /\ \A i \in 1 .. 6 : W[3 + i] = Pack1[i]
      /\ \A i \in 1 .. k : W[9 + i] = NatBits(l)[i]
      /\ \A i \in 1 .. 2 : W[9 + k + i] = Pack2[i]
      /\ \A i \in 1 .. 2 : W[11 + k + i] = SuperBlock[i]
  <2>1. W = AllWrites(RootDir(l), NatBits(l))
    BY DEF Writes, CheckPointPack, AllWrites
  <2>2. k \in Nat /\ List(RootDir(l), 3) /\ List(NatBits(l), k)
    BY <1>2, <1>7, <1>8
  <2> HIDE DEF W
  <2>3. List(W, n) /\ Spread(W, RootDir(l), NatBits(l), k)
    BY <2>1, <2>2, AllJoined
  <2> QED
    BY <2>3 DEF Spread
<1> HIDE DEF W, a, b, c
<1>10. /\ W[1] = At(a, "rootInode") /\ W[2] = At(b, "natRoot") /\ W[3] = At(c, "rootDentry")
       /\ W[4] = At(512, "pack1Head") /\ W[5] = At(513, "dataSummary")
       /\ W[6] = At(514, "hotNodeSummary") /\ W[7] = At(515, "warmNodeSummary")
       /\ W[8] = At(516, "coldNodeSummary") /\ W[9] = At(517, "pack1Foot")
  <2>1. W[1] = RootDir(l)[1] /\ W[2] = RootDir(l)[2] /\ W[3] = RootDir(l)[3]
    BY <1>9
  <2>2. /\ W[4] = Pack1[1] /\ W[5] = Pack1[2] /\ W[6] = Pack1[3]
        /\ W[7] = Pack1[4] /\ W[8] = Pack1[5] /\ W[9] = Pack1[6]
    BY <1>9
  <2> QED
    BY <1>8, <2>1, <2>2, Pack1Writes
<1>11. \A i \in 1 .. k : W[9 + i] = At(1024 - k + i - 1, "natBits")
  BY <1>7, <1>9
<1>12. /\ W[10 + k] = At(1024, "pack2Head") /\ W[11 + k] = At(1029, "pack2Foot")
       /\ W[12 + k] = At(0, "superBlock") /\ W[13 + k] = At(1, "superBlock")
  <2>1. W[9 + k + 1] = Pack2[1] /\ W[9 + k + 2] = Pack2[2]
    BY <1>9
  <2>2. W[11 + k + 1] = SuperBlock[1] /\ W[11 + k + 2] = SuperBlock[2]
    BY <1>9
  <2>3. 9 + k + 1 = 10 + k /\ 9 + k + 2 = 11 + k /\ 11 + k + 1 = 12 + k /\ 11 + k + 2 = 13 + k
    BY <1>2
  <2> QED
    BY <2>1, <2>2, <2>3, Pack2Writes, SuperBlockWrites
\* Where each write goes.
<1>13. ASSUME NEW i \in 1 .. n
       PROVE  \/ i = 1 /\ W[i].blk = a
              \/ i = 2 /\ W[i].blk = b
              \/ i = 3 /\ W[i].blk = c
              \/ i \in 4 .. 9 /\ W[i].blk = 508 + i
              \/ i \in 10 .. 9 + k /\ W[i].blk = 1014 - k + i
              \/ i = 10 + k /\ W[i].blk = 1024
              \/ i = 11 + k /\ W[i].blk = 1029
              \/ i = 12 + k /\ W[i].blk = 0
              \/ i = 13 + k /\ W[i].blk = 1
  <2>1. \A x, y : At(x, y).blk = x
    BY DEF At
  <2>2. CASE i \in 1 .. 3
    BY <2>1, <2>2, <1>10
  <2>3. CASE i \in 4 .. 9
    BY <2>1, <2>3, <1>10
  <2>4. CASE i \in 10 .. 9 + k
    <3>1. i - 9 \in 1 .. k /\ 9 + (i - 9) = i /\ 1024 - k + (i - 9) - 1 = 1014 - k + i
      BY <1>2, <2>4
    <3>2. W[9 + (i - 9)] = At(1024 - k + (i - 9) - 1, "natBits")
      BY <1>11, <3>1
    <3>3. W[i] = At(1014 - k + i, "natBits")
      BY <3>1, <3>2
    <3>4. W[i].blk = 1014 - k + i
      BY <2>1, <3>3
    <3> QED
      BY <2>4, <3>4
  <2>5. CASE i \in 10 + k .. 13 + k
    BY <1>2, <1>12, <2>1, <2>5
  <2> QED
    BY <1>2, <2>2, <2>3, <2>4, <2>5
<1>14. \A i \in 1 .. n - 2 : W[i].blk > 1
  BY <1>2, <1>5, <1>13
<1>15. \A i, j \in 1 .. n : W[i].blk = W[j].blk => i = j
  BY <1>2, <1>5, <1>13
<1>16. ASSUME NEW r \in Referenced(l) PROVE \E i \in 1 .. n - 2 : W[i] = r
  <2>1. /\ Segment0 = 512 /\ Segment0 + PackBlocks - 1 = 517 /\ Segment0 + BlksPerSeg = 1024
        /\ Segment0 + BlksPerSeg + PackBlocks - 1 = 1029 /\ Segment0 + 1 = 513
        /\ Segment0 + 2 = 514 /\ Segment0 + 3 = 515 /\ Segment0 + 4 = 516
    BY DEF Segment0, BlksPerSeg, PackBlocks
  <2>2. NatStart(l) = b /\ MainStart(l) + (l.main - 1) * BlksPerSeg = a
        /\ MainStart(l) + (l.main - 4) * BlksPerSeg = c
    BY DEF a, b, c, BlksPerSeg
  <2>3. CASE \E i \in 1 .. k : r = At(1024 - i, "natBits")
    <3>1. PICK i \in 1 .. k : r = At(1024 - i, "natBits")
      BY <2>3
    <3>2. k + 1 - i \in 1 .. k /\ 1024 - k + (k + 1 - i) - 1 = 1024 - i /\ 9 + (k + 1 - i) \in 1 .. n - 2
      BY <1>2
    <3>3. W[9 + (k + 1 - i)] = r
      BY <1>11, <3>1, <3>2
    <3> QED
      BY <3>2, <3>3
  <2>4. CASE r \in {At(a, "rootInode"), At(b, "natRoot"), At(c, "rootDentry"),
                    At(512, "pack1Head"), At(513, "dataSummary"), At(514, "hotNodeSummary"),
                    At(515, "warmNodeSummary"), At(516, "coldNodeSummary"), At(517, "pack1Foot"),
                    At(1024, "pack2Head"), At(1029, "pack2Foot")}
    <3>1. 1 .. 9 \subseteq 1 .. n - 2 /\ 10 + k \in 1 .. n - 2 /\ 11 + k \in 1 .. n - 2
      BY <1>2
    <3> HIDE DEF n
    <3> QED
      BY <1>10, <1>12, <2>4, <3>1
  <2>5. \/ \E i \in 1 .. k : r = At(1024 - i, "natBits")
        \/ r \in {At(a, "rootInode"), At(b, "natRoot"), At(c, "rootDentry"),
                  At(512, "pack1Head"), At(513, "dataSummary"), At(514, "hotNodeSummary"),
                  At(515, "warmNodeSummary"), At(516, "coldNodeSummary"), At(517, "pack1Foot"),
                  At(1024, "pack2Head"), At(1029, "pack2Foot")}
    <3>1. \/ \E i \in 1 .. NatBitsBlocks(l) : r = At(Segment0 + BlksPerSeg - i, "natBits")
          \/ r \in {At(Segment0, "pack1Head"), At(Segment0 + PackBlocks - 1, "pack1Foot"),
                    At(Segment0 + BlksPerSeg, "pack2Head"),
                    At(Segment0 + BlksPerSeg + PackBlocks - 1, "pack2Foot"),
                    At(Segment0 + 1, "dataSummary"), At(Segment0 + 2, "hotNodeSummary"),
                    At(Segment0 + 3, "warmNodeSummary"), At(Segment0 + 4, "coldNodeSummary"),
                    At(NatStart(l), "natRoot"),
                    At(MainStart(l) + (l.main - 1) * BlksPerSeg, "rootInode"),
                    At(MainStart(l) + (l.main - 4) * BlksPerSeg, "rootDentry")}
      BY DEF Referenced
    <3>2. CASE \E i \in 1 .. NatBitsBlocks(l) : r = At(Segment0 + BlksPerSeg - i, "natBits")
      <4>1. PICK i \in 1 .. k : r = At(Segment0 + BlksPerSeg - i, "natBits")
        BY <3>2 DEF k
      <4>2. Segment0 + BlksPerSeg - i = 1024 - i
        BY DEF Segment0, BlksPerSeg
      <4>3. r = At(1024 - i, "natBits")
        BY <4>1, <4>2
      <4> QED
        BY <4>3
    <3> QED
      BY <2>1, <2>2, <3>1, <3>2 DEF b
  <2> QED
    BY <2>3, <2>4, <2>5
<1>17. Ordered(l)
  <2>1. n \in Nat /\ n > 2 /\ n - 1 = 12 + k
    BY <1>2
  <2>2. W[n - 1] = At(0, "superBlock") /\ W[n] = At(1, "superBlock")
    BY <1>12, <2>1
  <2> HIDE DEF n
  <2>3. W \in Seq(Write) /\ Len(W) = n
    BY <1>9 DEF List
  <2>4. Allocates(l) \subseteq 0 .. n - 2
    <3>1. List(Pack1 \o NatBits(l), 6 + k)
      BY <1>2, <1>7, Pack1Writes, Joined
    <3>2. List(CheckPointPack(l), (6 + k) + 2)
      BY <1>2, <3>1, Pack2Writes, Joined DEF CheckPointPack
    <3>3. List(RootDir(l) \o CheckPointPack(l), 3 + ((6 + k) + 2))
      BY <1>2, <1>8, <3>2, Joined
    <3>4. Len(RootDir(l)) = 3 /\ Len(RootDir(l) \o CheckPointPack(l)) = 3 + ((6 + k) + 2)
      BY <1>8, <3>3 DEF List
    <3>5. Allocates(l) = {0, 1, 2, 3, 3 + ((6 + k) + 2)}
      BY <3>4 DEF Allocates
    <3> QED
      BY <1>2, <2>1, <3>5
  <2> QED
    BY <1>14, <1>15, <1>16, <2>1, <2>2, <2>3, <2>4 DEF Ordered, W
<1> QED
  BY <1>17 DEF l

\* Unsealed, for the n writes W and a cache of c blocks, with what Ordered says.
Trail(W, n, m, c) ==
    /\ n \in Nat /\ c \in Nat /\ n > 2 /\ m <= n /\ c <= m /\ m - c <= n - 2
    /\ \A i \in 1 .. n : W[i] \in Write /\ W[i].blk \in Nat
    /\ W[n - 1].blk = 0 /\ W[n].blk = 1
    /\ \A i, j \in 1 .. n : W[i].blk = W[j].blk => i = j
    /\ \A i \in 1 .. n - 2 : W[i].blk > 1
    /\ \A i \in 1 .. c : cache[i] = W[m - c + i]
    /\ \A i \in 1 .. m - c : Held(disk, lost, W[i])
    /\ 0 \notin DOMAIN disk

\* What Put leaves alone, and what it leaves behind.
LEMMA PutKeeps ==
    ASSUME NEW blocks, NEW k \in Nat, Put(blocks, k),
           NEW b, \A i \in 1 .. k : blocks[i].blk # b
    PROVE  Reads(disk', b) = Reads(disk, b) /\ (b \in DOMAIN disk' <=> b \in DOMAIN disk)
  BY DEF Put, Reads

\* A block written once by a flush reads as it was written.
LEMMA PutLeaves ==
    ASSUME NEW blocks, NEW k \in Nat, Put(blocks, k),
           NEW i \in 1 .. k, \A j \in 1 .. k : blocks[j].blk = blocks[i].blk => j = i
    PROVE  Reads(disk', blocks[i].blk) = blocks[i].what
<1> DEFINE b == blocks[i].blk
           h == CHOOSE j \in 1 .. k : blocks[j].blk = b
<1>1. h = i
  OBVIOUS
<1>2. b \in DOMAIN disk' /\ disk'[b] = blocks[h].what
  BY DEF Put
<1> QED
  BY <1>1, <1>2 DEF Reads

\* A flush after m of the n writes W: all m are on the stick or lost; the
\* superblocks reach the stick only behind everything else.
LEMMA FlushHolds ==
    ASSUME NEW W, NEW n, NEW c, NEW m \in Nat, Trail(W, n, m, c),
           cache \in Seq(Write), Len(cache) = c,
           glitches \in Nat, plugged /\ glitches = 0 => lost = {},
           Flush
    PROVE  /\ \A i \in 1 .. m : Held(disk', lost', W[i])
           /\ m <= n - 2 => 0 \notin DOMAIN disk'
           /\ glitches' \in Nat /\ (plugged /\ glitches' = 0 => lost' = {})
           /\ m = n /\ Reads(disk', 0) = "superBlock" /\ glitches' = 0 =>
                 \A i \in 1 .. n - 2 : Reads(disk', W[i].blk) = W[i].what
<1> USE DEF Trail
<1> DEFINE from == m - c
<1>1. CASE cache = <<>> /\ UNCHANGED <<disk, lost, glitches>>
  <2>1. c = 0 /\ from = m
    BY <1>1
  <2>2. \A b : Reads(disk', b) = Reads(disk, b)
    BY <1>1 DEF Reads
  <2>3. \A i \in 1 .. m : Held(disk', lost', W[i])
    BY <1>1, <2>1, <2>2 DEF Held
  <2> QED
    BY <1>1, <2>1, <2>3
\* What a Put of the first k blocks of the cache does to the writes before it.
<1>2. ASSUME NEW k \in 0 .. c, Put(cache, k)
      PROVE  /\ \A i \in 1 .. from : Reads(disk', W[i].blk) = Reads(disk, W[i].blk)
             /\ \A i \in 1 .. k : Reads(disk', W[from + i].blk) = W[from + i].what
             /\ m <= n - 2 => 0 \notin DOMAIN disk'
  <2>1. ASSUME NEW i \in 1 .. k PROVE cache[i] = W[from + i] /\ from + i \in 1 .. n
    <3>1. i \in 1 .. c /\ from + i \in 1 .. n
      OBVIOUS
    <3> QED
      BY <3>1
  <2>2. ASSUME NEW i \in 1 .. from PROVE Reads(disk', W[i].blk) = Reads(disk, W[i].blk)
    <3>1. \A j \in 1 .. k : cache[j].blk # W[i].blk
      <4>1. ASSUME NEW j \in 1 .. k, cache[j].blk = W[i].blk PROVE FALSE
        <5>1. W[from + j].blk = W[i].blk /\ from + j \in 1 .. n /\ i \in 1 .. n
          BY <2>1, <4>1
        <5>2. from + j = i
          BY <5>1
        <5> QED
          BY <5>2
      <4> QED
        BY <4>1
    <3> QED
      <4>1. k \in Nat
        OBVIOUS
      <4> HIDE DEF Trail
      <4> DEFINE b == W[i].blk
      <4>2. \A j \in 1 .. k : cache[j].blk # b
        BY <3>1
      <4> HIDE DEF b
      <4>3. Reads(disk', b) = Reads(disk, b)
        BY <1>2, <4>1, <4>2, PutKeeps
      <4> QED
        BY <4>3 DEF b
  <2>3. ASSUME NEW i \in 1 .. k PROVE Reads(disk', W[from + i].blk) = W[from + i].what
    <3>1. \A j \in 1 .. k : cache[j].blk = cache[i].blk => j = i
      <4>1. ASSUME NEW j \in 1 .. k, cache[j].blk = cache[i].blk PROVE j = i
        <5>1. W[from + j].blk = W[from + i].blk /\ from + j \in 1 .. n /\ from + i \in 1 .. n
          BY <2>1, <4>1
        <5>2. from + j = from + i
          BY <5>1
        <5> QED
          BY <5>2
      <4> QED
        BY <4>1
    <3>2. Reads(disk', cache[i].blk) = cache[i].what
      <4>1. k \in Nat
        OBVIOUS
      <4> QED
        BY <1>2, <3>1, <4>1, PutLeaves, ZenonT(40)
    <3>3. cache[i] = W[from + i]
      BY <2>1
    <3>4. W[from + i].blk = cache[i].blk /\ W[from + i].what = cache[i].what
      BY <3>3
    <3>5. Reads(disk', W[from + i].blk) = Reads(disk', cache[i].blk)
      BY <3>3 DEF Reads
    <3> QED
      BY <3>2, <3>4, <3>5
  <2>4. ASSUME m <= n - 2 PROVE 0 \notin DOMAIN disk'
    <3>1. \A j \in 1 .. k : cache[j].blk # 0
      <4>1. ASSUME NEW j \in 1 .. k, cache[j].blk = 0 PROVE FALSE
        <5>1. from + j \in 1 .. n - 2 /\ W[from + j].blk = 0
          BY <2>1, <2>4, <4>1
        <5> QED
          BY <5>1
      <4> QED
        BY <4>1
    <3> QED
      BY <1>2, <3>1, PutKeeps
  <2> QED
    BY <2>2, <2>3, <2>4
<1>3. CASE cache # <<>> /\ Accepted(cache)
  <2>1. plugged /\ Put(cache, c) /\ lost' = lost /\ glitches' = glitches
    BY <1>3 DEF Accepted
  <2>2. ASSUME NEW i \in 1 .. m PROVE Held(disk', lost', W[i])
    <3>1. CASE i <= from
      BY <1>2, <2>1, <3>1 DEF Held
    <3>2. CASE i > from
      <4>1. i - from \in 1 .. c /\ from + (i - from) = i /\ c \in 0 .. c
        BY <3>2
      <4>2. PICK h \in 1 .. c : from + h = i
        BY <4>1
      <4>3. \A g \in 1 .. c : Reads(disk', W[from + g].blk) = W[from + g].what
        BY <1>2, <2>1, <4>1
      <4>4. Reads(disk', W[i].blk) = W[i].what
        BY <4>2, <4>3
      <4> QED
        BY <4>4 DEF Held
    <3> QED
      BY <3>1, <3>2
  <2>3. ASSUME m = n, glitches' = 0, NEW i \in 1 .. n - 2
        PROVE  Reads(disk', W[i].blk) = W[i].what
    <3>1. lost' = {}
      BY <2>1, <2>3
    <3>2. Held(disk', lost', W[i])
      BY <2>2, <2>3
    <3> QED
      BY <3>1, <3>2 DEF Held
  <2> QED
    <3>1. c \in 0 .. c
      OBVIOUS
    <3>2. m <= n - 2 => 0 \notin DOMAIN disk'
      BY <1>2, <2>1, <3>1
    <3>3. glitches' \in Nat /\ (plugged /\ glitches' = 0 => lost' = {})
      BY <2>1
    <3> QED
      BY <2>2, <2>3, <3>2, <3>3
<1>4. CASE Refused(cache)
  <2>1. \A i \in 1 .. c : cache[i].what \in lost'
    <3>1. DOMAIN cache = 1 .. c
      OBVIOUS
    <3>2. lost' = lost \cup {cache[i].what : i \in DOMAIN cache}
      BY <1>4 DEF Refused
    <3> QED
      BY <3>1, <3>2, Zenon
  <2>2. lost \subseteq lost'
    BY <1>4 DEF Refused
  <2>3. ASSUME \A i \in 1 .. from : Reads(disk', W[i].blk) = Reads(disk, W[i].blk),
               NEW i \in 1 .. m
        PROVE  Held(disk', lost', W[i])
    <3>1. CASE i <= from
      <4>1. i \in 1 .. from
        BY <3>1
      <4>2. Held(disk, lost, W[i]) /\ Reads(disk', W[i].blk) = Reads(disk, W[i].blk)
        BY <2>3, <4>1
      <4> HIDE DEF Trail
      <4> QED
        BY <2>2, <4>2 DEF Held
    <3>2. CASE i > from
      <4>1. i - from \in 1 .. c /\ m - c + (i - from) = i
        BY <3>2
      <4>2. cache[i - from] = W[i]
        BY <4>1
      <4>3. W[i].what \in lost'
        BY <2>1, <4>1, <4>2
      <4> QED
        BY <4>3 DEF Held
    <3> QED
      BY <3>1, <3>2
  <2>4. CASE ~plugged /\ UNCHANGED <<disk, glitches>>
    <3>1. \A b : Reads(disk', b) = Reads(disk, b)
      BY <2>4 DEF Reads
    <3>2. Reads(disk', 0) # "superBlock"
      BY <3>1 DEF Reads
    <3> QED
      BY <2>3, <2>4, <3>1, <3>2
  <2>5. CASE plugged /\ glitches' = glitches + 1 /\ \E k \in 0 .. Len(cache) : Put(cache, k)
    <3>1. PICK k \in 0 .. c : Put(cache, k)
      BY <2>5
    <3>2. \A i \in 1 .. m : Held(disk', lost', W[i])
      BY <1>2, <2>3, <3>1
    <3>3. glitches' \in Nat /\ glitches' # 0
      BY <2>5
    <3> QED
      BY <1>2, <3>1, <3>2, <3>3
  <2> QED
    BY <1>4, <2>4, <2>5 DEF Refused
<1> QED
  BY <1>1, <1>3, <1>4 DEF Flush

\* What the cache holds, before the superblock, are the last writes of the list.
LEMMA UnsealedTrail ==
    ASSUME NEW W, W = Writes(sb), NEW m \in Nat, Unsealed(m), cache \in Seq(Write),
           NEW n, n = Len(W), NEW c, c = Len(cache)
    PROVE  Trail(W, n, m, c)
<1>1. /\ W \in Seq(Write) /\ n > 2
      /\ W[n - 1] = At(0, "superBlock") /\ W[n] = At(1, "superBlock")
      /\ \A i \in 1 .. n - 2 : W[i].blk > 1
      /\ \A i, j \in 1 .. n : W[i].blk = W[j].blk => i = j
  BY DEF Unsealed, Ordered
<1>2. /\ m <= n /\ c <= m /\ m - c <= n - 2 /\ 0 \notin DOMAIN disk
      /\ \A i \in 1 .. c : cache[i] = W[m - c + i]
      /\ \A i \in 1 .. m - c : Held(disk, lost, W[i])
  BY DEF Unsealed
<1>3. n \in Nat /\ c \in Nat
  BY <1>1
<1>4. \A i \in 1 .. n : W[i] \in Write
  BY <1>1
<1>5. \A i \in 1 .. n : W[i].blk \in Nat
  BY <1>4 DEF Write
<1>6. W[n - 1].blk = 0 /\ W[n].blk = 1
  BY <1>1 DEF At
<1> QED
  BY <1>1, <1>2, <1>3, <1>4, <1>5, <1>6 DEF Trail

\* A write appended to the cache, or put into it after a flush.
LEMMA CachedUnsealed ==
    ASSUME SealType, NEW m \in Nat, NEW W, W = Writes(sb), m + 1 <= Len(W),
           Unsealed(m), Cached(W[m + 1]), sb' = sb
    PROVE  /\ Unsealed(m + 1)' /\ cache' \in Seq(Write) /\ glitches' \in Nat
           /\ plugged /\ glitches' = 0 => lost' = {}
<1> DEFINE n == Len(W)
           c == Len(cache)
           w == W[m + 1]
<1>1. /\ cache \in Seq(Write) /\ glitches \in Nat
      /\ plugged /\ glitches = 0 => lost = {}
  BY DEF SealType
<1>2. Trail(W, n, m, c)
  BY <1>1, UnsealedTrail, Zenon
<1>3. m + 1 \in 1 .. n /\ w \in Write
  BY <1>2 DEF Trail
<1>4. Ordered(sb') /\ Writes(sb') = W
  BY DEF Unsealed
<1>5. CASE Follows(w) /\ cache' = Append(cache, w) /\ UNCHANGED <<disk, lost, glitches>>
  <2>1. cache' \in Seq(Write) /\ Len(cache') = c + 1
    BY <1>1, <1>3, <1>5
  <2>2. (\A i \in 1 .. c : cache'[i] = cache[i]) /\ cache'[c + 1] = w
    BY <1>1, <1>3, <1>5
  <2>3. ASSUME NEW i \in 1 .. c + 1 PROVE cache'[i] = W[m - c + i]
    <3>1. CASE i \in 1 .. c
      BY <1>2, <2>2, <3>1 DEF Trail
    <3>2. CASE i = c + 1
      <4>1. m - c + i = m + 1
        BY <1>2, <3>2 DEF Trail
      <4> QED
        BY <2>2, <3>2, <4>1
    <3> QED
      BY <1>2, <3>1, <3>2 DEF Trail
  <2>4. m + 1 - (c + 1) = m - c /\ c \in Nat
    BY <1>2 DEF Trail
  <2> HIDE DEF n, c, w
  <2>5. /\ m + 1 <= n /\ c + 1 <= m + 1 /\ m - c <= n - 2
        /\ \A i \in 1 .. m - c : Held(disk', lost', W[i])
        /\ 0 \notin DOMAIN disk'
    BY <1>2, <1>3, <1>5 DEF Trail
  <2> DEFINE e == c + 1
  <2>6. /\ m + 1 <= n /\ e <= m + 1 /\ m + 1 - e <= n - 2 /\ Len(cache') = e
        /\ \A i \in 1 .. e : cache'[i] = W[m + 1 - e + i]
        /\ \A i \in 1 .. m + 1 - e : Held(disk', lost', W[i])
        /\ 0 \notin DOMAIN disk'
    <3>1. m + 1 - e = m - c
      BY <2>4
    <3>2. \A i \in 1 .. e : cache'[i] = W[m + 1 - e + i]
      BY <2>3, <3>1
    <3> QED
      BY <2>1, <2>5, <3>1, <3>2
  <2> HIDE DEF e
  <2>7. Unsealed(m + 1)'
    BY <1>4, <2>6, SMTT(30) DEF Unsealed, n
  <2> QED
    BY <1>1, <1>5, <2>1, <2>7
<1>6. CASE ~Follows(w) /\ Flush /\ cache' = <<w>>
  <2>1. m <= n - 2
    <3>1. SUFFICES ASSUME m = n - 1 PROVE FALSE
      BY <1>2, <1>3 DEF Trail
    <3>2. c > 0 /\ c \in 1 .. c /\ m - c + c = n - 1
      BY <1>2, <3>1 DEF Trail
    <3>3. cache[c] = W[n - 1]
      BY <1>2, <3>2 DEF Trail
    <3>4. cache[c].blk = 0 /\ w.blk = 1
      BY <1>2, <3>1, <3>3 DEF Trail
    <3>5. cache # <<>>
      BY <1>1, <3>2
    <3> QED
      BY <1>6, <3>4, <3>5 DEF Follows
  <2>2. /\ \A i \in 1 .. m : Held(disk', lost', W[i])
        /\ 0 \notin DOMAIN disk'
        /\ glitches' \in Nat /\ (plugged /\ glitches' = 0 => lost' = {})
    <3> HIDE DEF n, c, w
    <3>1. Len(cache) = c
      BY DEF c
    <3> QED
      BY <1>1, <1>2, <1>6, <2>1, <3>1, FlushHolds, Zenon
  <2>3. cache' \in Seq(Write) /\ Len(cache') = 1 /\ cache'[1] = w
    BY <1>3, <1>6
  <2>4. m + 1 - 1 = m
    OBVIOUS
  <2> DEFINE e == 1
  <2>5. /\ m + 1 <= n /\ e <= m + 1 /\ m + 1 - e <= n - 2 /\ Len(cache') = e
        /\ \A i \in 1 .. e : cache'[i] = W[m + 1 - e + i]
        /\ \A i \in 1 .. m + 1 - e : Held(disk', lost', W[i])
        /\ 0 \notin DOMAIN disk' /\ e \in Nat
    <3>1. \A i \in 1 .. e : cache'[i] = W[m + 1 - e + i]
      BY <2>3
    <3> QED
      BY <1>2, <1>3, <2>1, <2>2, <2>3, <2>4, <3>1 DEF Trail
  <2> HIDE DEF e, n, c, w
  <2>6. Unsealed(m + 1)'
    BY <1>4, <2>5, SMTT(30) DEF Unsealed, n
  <2> QED
    BY <2>2, <2>3, <2>6
<1> QED
  BY <1>5, <1>6 DEF Cached

\* The bridge's flush puts the superblocks on the stick, behind the rest.
LEMMA SyncSealed ==
    ASSUME SealType, NEW W, W = Writes(sb), Unsealed(Len(W)), Flush, cache' = <<>>, sb' = sb
    PROVE  /\ Sealed' /\ glitches' \in Nat
           /\ plugged /\ glitches' = 0 => lost' = {}
<1> DEFINE n == Len(W)
           c == Len(cache)
<1>1. /\ cache \in Seq(Write) /\ glitches \in Nat
      /\ plugged /\ glitches = 0 => lost = {}
  BY DEF SealType
<1>2. Ordered(sb') /\ Writes(sb') = W /\ W \in Seq(Write)
  BY DEF Unsealed, Ordered
<1>3. n \in Nat
  BY <1>2
<1>4. Trail(W, n, n, c)
  BY <1>1, <1>3, UnsealedTrail, Zenon
<1> HIDE DEF c
<1>5. Len(cache) = c
  BY DEF c
<1> HIDE DEF n
<1>6. /\ \A i \in 1 .. n : Held(disk', lost', W[i])
      /\ glitches' \in Nat /\ (plugged /\ glitches' = 0 => lost' = {})
      /\ n = n /\ Reads(disk', 0) = "superBlock" /\ glitches' = 0 =>
            \A i \in 1 .. n - 2 : Reads(disk', W[i].blk) = W[i].what
  BY <1>1, <1>3, <1>4, <1>5, FlushHolds, Zenon
<1>7. Sealed'
  BY <1>2, <1>6 DEF Sealed, n
<1> QED
  BY <1>6, <1>7

\* What is flushed after mkfs gave up has no superblock.
LEMMA FlushHeadless ==
    ASSUME SealType, Headless, Flush
    PROVE  /\ 0 \notin DOMAIN disk' /\ glitches' \in Nat
           /\ plugged /\ glitches' = 0 => lost' = {}
<1>0. cache \in Seq(Write) /\ glitches \in Nat /\ (plugged /\ glitches = 0 => lost = {})
  BY DEF SealType
<1> DEFINE c == Len(cache)
<1>1. c \in Nat
  BY <1>0
<1>2. ASSUME NEW k \in 0 .. c, Put(cache, k) PROVE 0 \notin DOMAIN disk'
  <2>1. k \in Nat /\ \A i \in 1 .. k : cache[i].blk # 0
    BY <1>1 DEF Headless
  <2> QED
    BY <1>2, <2>1, PutKeeps DEF Headless
<1>3. CASE cache = <<>> /\ UNCHANGED <<disk, lost, glitches>>
  BY <1>0, <1>3 DEF Headless
<1>4. CASE cache # <<>> /\ Accepted(cache)
  <2>1. Put(cache, c) /\ lost' = lost /\ glitches' = glitches /\ c \in 0 .. c
    BY <1>1, <1>4 DEF Accepted
  <2> QED
    BY <1>0, <1>2, <2>1
<1>5. CASE Refused(cache)
  <2>1. CASE ~plugged /\ UNCHANGED <<disk, glitches>>
    BY <1>0, <2>1 DEF Headless
  <2>2. CASE plugged /\ glitches' = glitches + 1 /\ \E k \in 0 .. Len(cache) : Put(cache, k)
    <3>1. PICK k \in 0 .. c : Put(cache, k)
      BY <2>2
    <3>2. glitches' \in Nat /\ glitches' # 0
      BY <1>0, <2>2
    <3> QED
      BY <1>2, <3>1, <3>2
  <2> QED
    BY <1>5, <2>1, <2>2 DEF Refused
<1> QED
  BY <1>3, <1>4, <1>5 DEF Flush

\* Memory is asked for before the superblocks are in the cache.
LEMMA GivenUpHeadless ==
    ASSUME SealType, NEW m \in Allocates(sb), Unsealed(m), UNCHANGED <<disk, cache>>
    PROVE  Headless'
<1> DEFINE W == Writes(sb)
           n == Len(W)
           c == Len(cache)
<1>1. cache \in Seq(Write) /\ Allocates(sb) \subseteq 0 .. n - 2 /\ W \in Seq(Write)
  BY DEF SealType, Unsealed, Ordered
<1>2. n \in Nat
  BY <1>1
<1>3. m \in Nat /\ m <= n - 2
  BY <1>1, <1>2
<1>4. Trail(W, n, m, c)
  BY <1>1, <1>3, UnsealedTrail, Zenon
<1> HIDE DEF W, n
<1>5. ASSUME NEW i \in 1 .. c PROVE cache[i].blk # 0
  <2> HIDE DEF c
  <2>1. c \in Nat /\ c <= m /\ cache[i] = W[m - c + i] /\ \A j \in 1 .. n - 2 : W[j].blk > 1
    BY <1>4 DEF Trail
  <2>2. m - c + i \in 1 .. n - 2
    BY <1>2, <1>3, <2>1
  <2> QED
    BY <1>2, <2>1, <2>2
<1>6. 0 \notin DOMAIN disk
  BY <1>4 DEF Trail
<1> QED
  BY <1>5, <1>6 DEF Headless

\* Entering f2fs_create_root_dir, with nothing written.
LEMMA StartUnsealed ==
    ASSUME LayoutInv, pc = "fill", disk' = Empty, cache' = <<>>, sb' = sb
    PROVE  Unsealed(0)' /\ 0 \in 0 .. Len(Writes(sb')) - 1
<1>1. Ordered(sb)
  BY WritesOfLayout DEF LayoutInv
<1>2. Len(Writes(sb)) \in Nat /\ Len(Writes(sb)) > 2
  BY <1>1 DEF Ordered
<1>3. Len(cache') = 0 /\ 0 \notin DOMAIN disk'
  BY DEF Empty
<1> QED
  BY <1>1, <1>2, <1>3 DEF Unsealed

\* Nothing is written at first.
LEMMA InitSeal == Init => SealInv
  BY DEF Init, SealInv, SealType, Idle, Failed, Flushed

\* Every step keeps the order of the writes.
LEMMA NextSeal == LayoutInv /\ SealInv /\ [Next]_vars => SealInv'
<1> SUFFICES ASSUME LayoutInv, SealInv, [Next]_vars PROVE SealInv'
  OBVIOUS
<1>0. SealType
  BY DEF SealInv
<1>1. CASE PrepareSuperBlock
  BY <1>1 DEF PrepareSuperBlock, SealInv, SealType, Idle, Failed, Flushed, Headless, Empty, Fail, Goto, stickVars
<1>2. CASE TrimDevices
  BY <1>2 DEF TrimDevices, SealInv, SealType, Idle, Failed, Flushed, Headless, Empty, Fail, Goto, stickVars
<1>3. CASE DevFill
  <2>1. pc = "fill" /\ disk' = Empty /\ cache' = <<>> /\ sb' = sb
    BY <1>3 DEF DevFill, SealInv, Idle, Advance, Fail, stickVars
  <2>2. SealType' /\ ~(pc' = "sync") /\ ~Flushed' /\ (pc' = "write" => step' = 0)
    BY <1>0, <1>3 DEF DevFill, SealType, Flushed, Advance, Fail, stickVars
  <2>3. Unsealed(0)' /\ 0 \in 0 .. Len(Writes(sb')) - 1
    BY <2>1, StartUnsealed
  <2>4. Headless'
    BY <2>1 DEF Headless, Empty
  <2> QED
    BY <2>1, <2>2, <2>3, <2>4 DEF SealInv
<1>4. CASE DevWrite
  <2>1. pc = "write" /\ sb' = sb /\ plugged' = plugged /\ result' = result
    BY <1>4 DEF DevWrite, Advance, Fail
  <2>2. step \in 0 .. Len(Writes(sb)) - 1 /\ Unsealed(step)
    BY <2>1 DEF SealInv
  <2>3. CASE step \in Allocates(sb) /\ Fail /\ UNCHANGED stickVars
    <3>1. Headless'
      BY <1>0, <2>2, <2>3, GivenUpHeadless DEF stickVars
    <3>2. pc' = "final" /\ result' = -1 /\ SealType'
      BY <1>0, <2>1, <2>3 DEF SealType, Fail, stickVars
    <3>3. ~Idle' /\ ~Flushed'
      BY <3>2 DEF Idle, Flushed
    <3> QED
      BY <3>1, <3>2, <3>3 DEF SealInv
  <2>4. CASE Cached(Writes(sb)[step + 1]) /\ Advance(Len(Writes(sb)), "sync")
    <3> DEFINE W == Writes(sb)
    <3>1. PICK m \in Nat : m = step
      BY <2>2
    <3>2. Len(W) \in Nat /\ m + 1 <= Len(W)
      BY <2>2, <3>1 DEF Unsealed, Ordered
    <3>3. /\ Unsealed(m + 1)' /\ cache' \in Seq(Write) /\ glitches' \in Nat
          /\ plugged /\ glitches' = 0 => lost' = {}
      <4>1. Unsealed(m) /\ Cached(W[m + 1])
        BY <2>2, <2>4, <3>1
      <4> QED
        BY <1>0, <2>1, <3>2, <4>1, CachedUnsealed, Zenon
    <3>4. \/ m + 1 < Len(W) /\ pc' = "write" /\ step' = m + 1
          \/ m + 1 = Len(W) /\ pc' = "sync" /\ step' = 0
      BY <2>1, <2>4, <3>1, <3>2 DEF Advance
    <3>5. SealType'
      BY <1>0, <2>1, <3>3, <3>4 DEF SealType
    <3>6. Writes(sb') = W
      BY <2>1
    <3> HIDE DEF W
    <3>7. ~Idle' /\ ~Failed' /\ ~Flushed' /\ ~(pc' = "write" /\ step' = 0)
      BY <3>4 DEF Idle, Failed, Flushed
    <3>8. CASE m + 1 < Len(W) /\ pc' = "write" /\ step' = m + 1
      BY <3>2, <3>3, <3>5, <3>6, <3>7, <3>8 DEF SealInv
    <3>9. CASE m + 1 = Len(W) /\ pc' = "sync" /\ step' = 0
      BY <3>2, <3>3, <3>5, <3>6, <3>7, <3>9 DEF SealInv
    <3> QED
      BY <3>4, <3>8, <3>9
  <2> QED
    BY <1>4, <2>3, <2>4 DEF DevWrite
<1>5. CASE BridgeSync
  <2>1. /\ pc = "sync" /\ Flush /\ cache' = <<>> /\ sb' = sb /\ plugged' = plugged
        /\ pc' = "pause" /\ result' = 0
    BY <1>5 DEF BridgeSync
  <2>2. Unsealed(Len(Writes(sb)))
    BY <2>1 DEF SealInv
  <2>3. /\ Sealed' /\ glitches' \in Nat
        /\ plugged /\ glitches' = 0 => lost' = {}
    BY <1>0, <2>1, <2>2, SyncSealed, Zenon
  <2>4. SealType'
    BY <2>1, <2>3 DEF SealType
  <2> QED
    BY <2>1, <2>3, <2>4 DEF SealInv, Idle, Failed, Flushed
<1>6. CASE Pause
  BY <1>6 DEF Pause, SealInv, SealType, Idle, Failed, Flushed, Goto, stickVars, Sealed
<1>7. CASE FinalSync
  <2>1. /\ pc = "final" /\ Flush /\ cache' = <<>>
        /\ pc' = "done" /\ sb' = sb /\ result' = result /\ plugged' = plugged
    BY <1>7 DEF FinalSync, Goto
  <2>2. ~Idle' /\ Failed' = Failed /\ Flushed' = Flushed /\ (Failed \/ Flushed)
    BY <1>0, <2>1 DEF SealType, Idle, Failed, Flushed
  <2>3. CASE Flushed
    <3>1. Sealed /\ cache = <<>> /\ ~Failed
      BY <2>3 DEF SealInv, Sealed, Flushed, Failed
    <3>2. UNCHANGED <<disk, lost, glitches, cache>>
      BY <2>1, <3>1 DEF Flush, Refused
    <3>3. SealType' /\ Sealed'
      BY <1>0, <2>1, <3>1, <3>2 DEF SealType, Sealed
    <3> QED
      BY <2>1, <2>2, <3>1, <3>3 DEF SealInv
  <2>4. CASE Failed
    <3>1. /\ 0 \notin DOMAIN disk' /\ glitches' \in Nat
          /\ plugged /\ glitches' = 0 => lost' = {}
      BY <1>0, <2>1, <2>4, FlushHeadless DEF SealInv
    <3>2. SealType' /\ Headless'
      BY <1>0, <2>1, <3>1 DEF SealType, Headless
    <3>3. ~Flushed
      BY <2>4 DEF Failed, Flushed
    <3> QED
      BY <2>1, <2>2, <3>2, <3>3 DEF SealInv
  <2> QED
    BY <2>2, <2>3, <2>4
<1>8. CASE Unplug
  BY <1>8 DEF Unplug, SealInv, SealType, Idle, Failed, Flushed, Headless, stickVars, Unsealed, Sealed
<1>9. CASE UNCHANGED vars
  BY <1>9 DEF vars, SealInv, SealType, Idle, Failed, Flushed, Headless, stickVars, Unsealed, Sealed
<1> QED
  BY <1>1, <1>2, <1>3, <1>4, <1>5, <1>6, <1>7, <1>8, <1>9 DEF Next, Engine

\* The invariant of the order of writes: what of the list has been accepted, what the
\* cache holds of it, and what the stick therefore reads, at every step of
\* f2fs_format_device and of the end of the bridge, whatever commands fail.
THEOREM SealInvariance == Spec => []SealInv
<1>1. LayoutInv /\ SealInv /\ [Next]_vars => SealInv'
  BY NextSeal
<1> QED
  BY <1>1, InitSeal, LayoutInvariance, PTL DEF Spec

\* A stick pulled out at any moment never mounts as a damaged F2FS
\* (SuperblockSeals): f2fs_write_super_block comes last, and nothing behind it
\* overtakes it in the cache.
THEOREM SuperblockAlwaysSeals == Spec => []SuperblockSeals
<1>1. SealInv => SuperblockSeals
  <2> SUFFICES ASSUME SealInv, Content(0) = "superBlock", NEW r \in Referenced(sb)
               PROVE  Content(r.blk) = r.what \/ (glitches > 0 /\ r.what \in lost)
    BY DEF SuperblockSeals
  <2>1. \A b : Content(b) = Reads(disk, b)
    BY DEF Content, Reads
  <2>2. 0 \in DOMAIN disk
    BY DEF Content
  <2>3. ~Idle /\ ~Failed
    BY <2>2 DEF SealInv, Empty, Headless
  <2>4. pc \notin {"write", "sync"}
    BY <2>2 DEF SealInv, Unsealed
  <2>5. Flushed
    BY <2>3, <2>4 DEF SealInv, SealType, Idle, Failed, Flushed
  <2>6. Sealed /\ glitches \in Nat
    BY <2>5 DEF SealInv, SealType
  <2>7. Ordered(sb)
    BY <2>6 DEF Sealed
  <2>8. Len(Writes(sb)) \in Nat /\ \E i \in 1 .. Len(Writes(sb)) - 2 : Writes(sb)[i] = r
    BY <2>7 DEF Ordered
  <2>9. PICK i \in 1 .. Len(Writes(sb)) - 2 : Writes(sb)[i] = r
    BY <2>8
  <2>10. i \in 1 .. Len(Writes(sb))
    BY <2>8
  <2>11. Held(disk, lost, r)
    BY <2>6, <2>9, <2>10 DEF Sealed
  <2>12. glitches = 0 => Reads(disk, r.blk) = r.what
    BY <2>1, <2>6, <2>9 DEF Sealed
  <2>13. glitches = 0 \/ glitches > 0
    BY <2>6
  <2> QED
    BY <2>1, <2>11, <2>12, <2>13 DEF Held
<1> QED
  BY <1>1, SealInvariance, PTL

\* When the bridge's pause begins, everything was handed to the stick, which has it
\* or refused it (PausedAfterFlush).
THEOREM AlwaysPausedAfterFlush == Spec => []PausedAfterFlush
<1>1. SealInv => PausedAfterFlush
  <2> SUFFICES ASSUME SealInv, pc = "pause"
               PROVE  cache = <<>> /\ \A r \in Referenced(sb) : Content(r.blk) = r.what \/ r.what \in lost
    BY DEF PausedAfterFlush
  <2>1. \A b : Content(b) = Reads(disk, b)
    BY DEF Content, Reads
  <2>2. Sealed
    BY DEF SealInv, Flushed
  <2>3. ASSUME NEW r \in Referenced(sb) PROVE Content(r.blk) = r.what \/ r.what \in lost
    <3>1. Ordered(sb)
      BY <2>2 DEF Sealed
    <3>2. Len(Writes(sb)) \in Nat /\ \E i \in 1 .. Len(Writes(sb)) - 2 : Writes(sb)[i] = r
      BY <3>1 DEF Ordered
    <3>3. PICK i \in 1 .. Len(Writes(sb)) - 2 : Writes(sb)[i] = r
      BY <3>2
    <3>4. i \in 1 .. Len(Writes(sb))
      BY <3>2
    <3>5. Held(disk, lost, r)
      BY <2>2, <3>3, <3>4 DEF Sealed
    <3> QED
      BY <2>1, <3>5 DEF Held
  <2> QED
    BY <2>2, <2>3 DEF Sealed
<1> QED
  BY <1>1, SealInvariance, PTL

=============================================================================
