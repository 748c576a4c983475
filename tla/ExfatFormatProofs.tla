------------------------- MODULE ExfatFormatProofs --------------------------
(***************************************************************************)
(* The layout of ExfatFormat for every volume: whatever check_size lets    *)
(* through has structures that agree with each other.  For a given cluster *)
(* size all roundings are by constants, so each choice of the spinner is a *)
(* lemma of linear arithmetic.  Then the list of requests: its end, which  *)
(* leaves the cache empty; its two parts, erase and create; and what is on *)
(* the stick after any number of requests, whatever failed.                *)
(***************************************************************************)
EXTENDS ExfatFormat, TLAPS

\* A volume that fits does not end before the heap, although the size of the
\* bitmap is a signed number that a short volume makes negative.
LEMMA FitsAgrees8 ==
    ASSUME NEW v \in Nat, Fits(v, 8)
    PROVE  Agrees(v, 8)
<1> DEFINE sb == InitSb(v, 8)
<1>1. /\ 2 * VbrSectors <= sb.fatStart /\ sb.fatStart + sb.fatCount = sb.heap
      /\ FatBytes(v, 8) <= 512 * sb.fatCount
  BY DEF Fits, CbmStart, UctStart, RootStart, CbmBytes, FatBytes, ClustersMax, FatStart,
     UctBytes, CDiv, RoundUp, DivRoundUp, InitSb, VbrSectors
<1>2. sb.heap + sb.clusters * 8 <= v /\ 4 * (sb.clusters + 2) <= FatBytes(v, 8)
  BY DEF Fits, CbmStart, UctStart, RootStart, CbmBytes, FatBytes, ClustersMax, FatStart,
     UctBytes, CDiv, RoundUp, DivRoundUp, InitSb
<1>3. /\ sb.heap + DivRoundUp(CbmBytes(v, 8), 512) <= UctStart(v, 8)
      /\ UctStart(v, 8) + DivRoundUp(UctBytes, 512) <= RootStart(v, 8)
  BY DEF Fits, CbmStart, UctStart, RootStart, CbmBytes, FatBytes, ClustersMax, FatStart,
     UctBytes, CDiv, RoundUp, DivRoundUp, InitSb
<1>4. CbmBytes(v, 8) = DivRoundUp(sb.clusters, 8)
  BY DEF Fits, CbmStart, UctStart, RootStart, CbmBytes, FatBytes, ClustersMax, FatStart,
     UctBytes, CDiv, RoundUp, DivRoundUp, InitSb
<1>5. 2 + Allocated(v, 8) <= sb.clusters + 2 /\ sb.root = Allocated(v, 8) + 1
  BY DEF Fits, CbmStart, UctStart, RootStart, CbmBytes, FatBytes, ClustersMax, FatStart,
     UctBytes, CDiv, RoundUp, DivRoundUp, InitSb, Allocated, ClustersOf, ClusterAt
<1> QED
  BY <1>1, <1>2, <1>3, <1>4, <1>5 DEF Agrees

\* Clusters of 8 KB.
LEMMA FitsAgrees16 ==
    ASSUME NEW v \in Nat, Fits(v, 16)
    PROVE  Agrees(v, 16)
<1> DEFINE sb == InitSb(v, 16)
<1>1. /\ 2 * VbrSectors <= sb.fatStart /\ sb.fatStart + sb.fatCount = sb.heap
      /\ FatBytes(v, 16) <= 512 * sb.fatCount
  BY DEF Fits, CbmStart, UctStart, RootStart, CbmBytes, FatBytes, ClustersMax, FatStart,
     UctBytes, CDiv, RoundUp, DivRoundUp, InitSb, VbrSectors
<1>2. sb.heap + sb.clusters * 16 <= v /\ 4 * (sb.clusters + 2) <= FatBytes(v, 16)
  BY DEF Fits, CbmStart, UctStart, RootStart, CbmBytes, FatBytes, ClustersMax, FatStart,
     UctBytes, CDiv, RoundUp, DivRoundUp, InitSb
<1>3. /\ sb.heap + DivRoundUp(CbmBytes(v, 16), 512) <= UctStart(v, 16)
      /\ UctStart(v, 16) + DivRoundUp(UctBytes, 512) <= RootStart(v, 16)
  BY DEF Fits, CbmStart, UctStart, RootStart, CbmBytes, FatBytes, ClustersMax, FatStart,
     UctBytes, CDiv, RoundUp, DivRoundUp, InitSb
<1>4. CbmBytes(v, 16) = DivRoundUp(sb.clusters, 8)
  BY DEF Fits, CbmStart, UctStart, RootStart, CbmBytes, FatBytes, ClustersMax, FatStart,
     UctBytes, CDiv, RoundUp, DivRoundUp, InitSb
<1>5. 2 + Allocated(v, 16) <= sb.clusters + 2 /\ sb.root = Allocated(v, 16) + 1
  BY DEF Fits, CbmStart, UctStart, RootStart, CbmBytes, FatBytes, ClustersMax, FatStart,
     UctBytes, CDiv, RoundUp, DivRoundUp, InitSb, Allocated, ClustersOf, ClusterAt
<1> QED
  BY <1>1, <1>2, <1>3, <1>4, <1>5 DEF Agrees

\* Clusters of 16 KB.
LEMMA FitsAgrees32 ==
    ASSUME NEW v \in Nat, Fits(v, 32)
    PROVE  Agrees(v, 32)
<1> DEFINE sb == InitSb(v, 32)
<1>1. /\ 2 * VbrSectors <= sb.fatStart /\ sb.fatStart + sb.fatCount = sb.heap
      /\ FatBytes(v, 32) <= 512 * sb.fatCount
  BY DEF Fits, CbmStart, UctStart, RootStart, CbmBytes, FatBytes, ClustersMax, FatStart,
     UctBytes, CDiv, RoundUp, DivRoundUp, InitSb, VbrSectors
<1>2. sb.heap + sb.clusters * 32 <= v /\ 4 * (sb.clusters + 2) <= FatBytes(v, 32)
  BY DEF Fits, CbmStart, UctStart, RootStart, CbmBytes, FatBytes, ClustersMax, FatStart,
     UctBytes, CDiv, RoundUp, DivRoundUp, InitSb
<1>3. /\ sb.heap + DivRoundUp(CbmBytes(v, 32), 512) <= UctStart(v, 32)
      /\ UctStart(v, 32) + DivRoundUp(UctBytes, 512) <= RootStart(v, 32)
  BY DEF Fits, CbmStart, UctStart, RootStart, CbmBytes, FatBytes, ClustersMax, FatStart,
     UctBytes, CDiv, RoundUp, DivRoundUp, InitSb
<1>4. CbmBytes(v, 32) = DivRoundUp(sb.clusters, 8)
  BY DEF Fits, CbmStart, UctStart, RootStart, CbmBytes, FatBytes, ClustersMax, FatStart,
     UctBytes, CDiv, RoundUp, DivRoundUp, InitSb
<1>5. 2 + Allocated(v, 32) <= sb.clusters + 2 /\ sb.root = Allocated(v, 32) + 1
  BY DEF Fits, CbmStart, UctStart, RootStart, CbmBytes, FatBytes, ClustersMax, FatStart,
     UctBytes, CDiv, RoundUp, DivRoundUp, InitSb, Allocated, ClustersOf, ClusterAt
<1> QED
  BY <1>1, <1>2, <1>3, <1>4, <1>5 DEF Agrees

\* Clusters of 32 KB.
LEMMA FitsAgrees64 ==
    ASSUME NEW v \in Nat, Fits(v, 64)
    PROVE  Agrees(v, 64)
<1> DEFINE sb == InitSb(v, 64)
<1>1. /\ 2 * VbrSectors <= sb.fatStart /\ sb.fatStart + sb.fatCount = sb.heap
      /\ FatBytes(v, 64) <= 512 * sb.fatCount
  BY DEF Fits, CbmStart, UctStart, RootStart, CbmBytes, FatBytes, ClustersMax, FatStart,
     UctBytes, CDiv, RoundUp, DivRoundUp, InitSb, VbrSectors
<1>2. sb.heap + sb.clusters * 64 <= v /\ 4 * (sb.clusters + 2) <= FatBytes(v, 64)
  BY DEF Fits, CbmStart, UctStart, RootStart, CbmBytes, FatBytes, ClustersMax, FatStart,
     UctBytes, CDiv, RoundUp, DivRoundUp, InitSb
<1>3. /\ sb.heap + DivRoundUp(CbmBytes(v, 64), 512) <= UctStart(v, 64)
      /\ UctStart(v, 64) + DivRoundUp(UctBytes, 512) <= RootStart(v, 64)
  BY DEF Fits, CbmStart, UctStart, RootStart, CbmBytes, FatBytes, ClustersMax, FatStart,
     UctBytes, CDiv, RoundUp, DivRoundUp, InitSb
<1>4. CbmBytes(v, 64) = DivRoundUp(sb.clusters, 8)
  BY DEF Fits, CbmStart, UctStart, RootStart, CbmBytes, FatBytes, ClustersMax, FatStart,
     UctBytes, CDiv, RoundUp, DivRoundUp, InitSb
<1>5. 2 + Allocated(v, 64) <= sb.clusters + 2 /\ sb.root = Allocated(v, 64) + 1
  BY DEF Fits, CbmStart, UctStart, RootStart, CbmBytes, FatBytes, ClustersMax, FatStart,
     UctBytes, CDiv, RoundUp, DivRoundUp, InitSb, Allocated, ClustersOf, ClusterAt
<1> QED
  BY <1>1, <1>2, <1>3, <1>4, <1>5 DEF Agrees

\* Clusters of 64 KB.
LEMMA FitsAgrees128 ==
    ASSUME NEW v \in Nat, Fits(v, 128)
    PROVE  Agrees(v, 128)
<1> DEFINE sb == InitSb(v, 128)
<1>1. /\ 2 * VbrSectors <= sb.fatStart /\ sb.fatStart + sb.fatCount = sb.heap
      /\ FatBytes(v, 128) <= 512 * sb.fatCount
  BY DEF Fits, CbmStart, UctStart, RootStart, CbmBytes, FatBytes, ClustersMax, FatStart,
     UctBytes, CDiv, RoundUp, DivRoundUp, InitSb, VbrSectors
<1>2. sb.heap + sb.clusters * 128 <= v /\ 4 * (sb.clusters + 2) <= FatBytes(v, 128)
  BY DEF Fits, CbmStart, UctStart, RootStart, CbmBytes, FatBytes, ClustersMax, FatStart,
     UctBytes, CDiv, RoundUp, DivRoundUp, InitSb
<1>3. /\ sb.heap + DivRoundUp(CbmBytes(v, 128), 512) <= UctStart(v, 128)
      /\ UctStart(v, 128) + DivRoundUp(UctBytes, 512) <= RootStart(v, 128)
  BY DEF Fits, CbmStart, UctStart, RootStart, CbmBytes, FatBytes, ClustersMax, FatStart,
     UctBytes, CDiv, RoundUp, DivRoundUp, InitSb
<1>4. CbmBytes(v, 128) = DivRoundUp(sb.clusters, 8)
  BY DEF Fits, CbmStart, UctStart, RootStart, CbmBytes, FatBytes, ClustersMax, FatStart,
     UctBytes, CDiv, RoundUp, DivRoundUp, InitSb
<1>5. 2 + Allocated(v, 128) <= sb.clusters + 2 /\ sb.root = Allocated(v, 128) + 1
  BY DEF Fits, CbmStart, UctStart, RootStart, CbmBytes, FatBytes, ClustersMax, FatStart,
     UctBytes, CDiv, RoundUp, DivRoundUp, InitSb, Allocated, ClustersOf, ClusterAt
<1> QED
  BY <1>1, <1>2, <1>3, <1>4, <1>5 DEF Agrees

\* Every choice of the spinner is a power of two already.
LEMMA ClusterOfChoice ==
    ASSUME NEW choice \in Choices, NEW v \in Nat
    PROVE  SectorsPerCluster(choice, v) \in {8, 16, 32, 64, 128}
<1> DEFINE n == choice \div 512
           Powers == {1, 2, 4, 8, 16, 32, 64, 128}
<1>1. n \in {8, 16, 32, 64, 128}
  BY DEF Choices
<1> HIDE DEF n
<1>2. \E p \in Powers : p >= n /\ p < 2 * n
  BY <1>1
<1>3. PICK p \in Powers : p = CHOOSE q \in Powers : q >= n /\ q < 2 * n
  BY <1>2
<1>4. p >= n /\ p < 2 * n
  BY <1>2, <1>3
<1>5. p \in {8, 16, 32, 64, 128}
  BY <1>1, <1>3, <1>4
<1>6. SectorsPerCluster(choice, v) = p
  BY <1>1, <1>3 DEF SectorsPerCluster, n
<1> QED
  BY <1>5, <1>6

\* The volume and its cluster size stay, and only a volume that fits is written.
LayoutInv ==
    /\ volume \in Nat
    /\ spc \in {8, 16, 32, 64, 128}
    /\ pc \in {"io", "fsync"} => Fits(volume, spc)

\* Nothing is laid out at first.
LEMMA LayoutInvInit == Init => LayoutInv
<1> SUFFICES ASSUME Init PROVE LayoutInv
  OBVIOUS
<1>1. PICK chosen \in Volumes :
        volume = chosen[1] /\ spc = SectorsPerCluster(chosen[2], chosen[1])
  BY DEF Init
<1>2. chosen[1] \in Nat /\ chosen[2] \in Choices
  BY <1>1, ExfatAssumption
<1>3. pc = "check"
  BY DEF Init
<1> QED
  BY <1>1, <1>2, <1>3, ClusterOfChoice DEF LayoutInv

\* Only Begin lays a volume out, and only one that fits.
LEMMA LayoutInvNext == LayoutInv /\ [Next]_vars => LayoutInv'
<1> SUFFICES ASSUME LayoutInv, [Next]_vars PROVE LayoutInv'
  OBVIOUS
<1> USE DEF LayoutInv
<1>1. CASE CheckSize
  BY <1>1 DEF CheckSize, Fail, stickVars
<1>2. CASE NoMemory
  BY <1>2 DEF NoMemory, Fail
<1>3. CASE FlushFirst
  BY <1>3 DEF FlushFirst
<1>4. CASE WriteRun
  BY <1>4 DEF WriteRun, Advance
<1>5. CASE WritePart
  BY <1>5 DEF WritePart, Advance, Fail
<1>6. CASE Fsync
  BY <1>6 DEF Fsync
<1>7. CASE FinalSync
  BY <1>7 DEF FinalSync
<1>8. CASE Unplug
  BY <1>8 DEF Unplug
<1>9. CASE UNCHANGED vars
  BY <1>9 DEF vars
<1> QED
  BY <1>1, <1>2, <1>3, <1>4, <1>5, <1>6, <1>7, <1>8, <1>9 DEF Next, Engine

\* For every volume and every choice of the spinner, mkfs (mkexfat.c) erases and
\* writes only where boot record, FAT, bitmap and directory agree on the layout.
THEOREM LayoutAlwaysAgrees == Spec => []LayoutAgrees
<1>1. LayoutInv => LayoutAgrees
  BY FitsAgrees8, FitsAgrees16, FitsAgrees32, FitsAgrees64, FitsAgrees128
     DEF LayoutInv, LayoutAgrees
<1> QED
  BY <1>1, LayoutInvInit, LayoutInvNext, PTL DEF Spec

-----------------------------------------------------------------------------
(* The requests as a list: sequences whatever their elements are.           *)

List(s, m) == Len(s) = m /\ \E S : s \in Seq(S)
IsList(s) == \E m \in Nat : List(s, m)

Joins(r, s, t, m, k) ==
    /\ \A i \in 1 .. m : r[i] = s[i]
    /\ \A i \in 1 .. k : r[m + i] = t[i]

\* A list over a set is one over a larger set.
LEMMA Widened ==
    ASSUME NEW S, NEW T, NEW s \in Seq(S)
    PROVE  s \in Seq(S \cup T) /\ s \in Seq(T \cup S)
  OBVIOUS

\* Two lists over one set joined.
LEMMA JoinedIn ==
    ASSUME NEW S, NEW s \in Seq(S), NEW t \in Seq(S), NEW m \in Nat, NEW k \in Nat,
           Len(s) = m, Len(t) = k
    PROVE  s \o t \in Seq(S) /\ Len(s \o t) = m + k /\ Joins(s \o t, s, t, m, k)
  BY DEF Joins

\* Two lists joined.
LEMMA Joined ==
    ASSUME NEW s, NEW t, NEW m \in Nat, NEW k \in Nat, List(s, m), List(t, k)
    PROVE  List(s \o t, m + k) /\ Joins(s \o t, s, t, m, k)
<1>1. PICK S : s \in Seq(S)
  BY DEF List
<1>2. PICK T : t \in Seq(T)
  BY DEF List
<1>3. s \in Seq(S \cup T) /\ t \in Seq(S \cup T)
  BY <1>1, <1>2, Widened
<1>4. Len(s) = m /\ Len(t) = k
  BY DEF List
<1> DEFINE U == S \cup T
<1>5. s \in Seq(U) /\ t \in Seq(U)
  BY <1>3
<1> HIDE DEF U
<1>6. s \o t \in Seq(U) /\ Len(s \o t) = m + k /\ Joins(s \o t, s, t, m, k)
  BY <1>4, <1>5, JoinedIn
<1> QED
  BY <1>6, Zenon DEF List

\* The same without lengths.
LEMMA JoinedList ==
    ASSUME NEW s, NEW t, IsList(s), IsList(t)
    PROVE  IsList(s \o t)
<1>1. PICK m \in Nat : List(s, m)
  BY DEF IsList
<1>2. PICK k \in Nat : List(t, k)
  BY DEF IsList
<1>3. m + k \in Nat
  OBVIOUS
<1> QED
  BY <1>1, <1>2, <1>3, Joined, Zenon DEF IsList

\* A function on 1 .. m.
LEMMA Enumerated ==
    ASSUME NEW m \in Nat, NEW f, f = [i \in 1 .. m |-> f[i]]
    PROVE  List(f, m)
<1>1. f \in [1 .. m -> {f[i] : i \in 1 .. m}]
  OBVIOUS
<1>2. f \in Seq({f[i] : i \in 1 .. m}) /\ Len(f) = m
  BY <1>1
<1> QED
  BY <1>2, Zenon DEF List

\* What is left after the first request.
LEMMA TailList ==
    ASSUME NEW s, NEW m \in Nat, List(s, m + 1)
    PROVE  /\ List(Tail(s), m) /\ Head(s) = s[1]
           /\ \A i \in 1 .. m : Tail(s)[i] = s[i + 1]
<1>1. PICK S : s \in Seq(S)
  BY DEF List
<1>2. Len(s) = m + 1
  BY DEF List
<1>3. /\ Tail(s) \in Seq(S) /\ Len(Tail(s)) = m /\ Head(s) = s[1]
      /\ \A i \in 1 .. m : Tail(s)[i] = s[i + 1]
  BY <1>1, <1>2
<1> QED
  BY <1>3, Zenon DEF List

\* Lists of up to three elements.
LEMMA Short ==
    ASSUME NEW x, NEW y, NEW z
    PROVE  /\ List(<<>>, 0) /\ List(<<x>>, 1) /\ List(<<x, y>>, 2) /\ List(<<x, y, z>>, 3)
           /\ <<x, y, z>>[3] = z
<1>1. /\ <<>> \in Seq({x, y, z}) /\ <<x>> \in Seq({x, y, z}) /\ <<x, y>> \in Seq({x, y, z})
      /\ <<x, y, z>> \in Seq({x, y, z})
  OBVIOUS
<1>2. Len(<<>>) = 0 /\ Len(<<x>>) = 1 /\ Len(<<x, y>>) = 2 /\ Len(<<x, y, z>>) = 3
  OBVIOUS
<1>3. <<x, y, z>>[3] = z
  OBVIOUS
<1> QED
  BY <1>1, <1>2, <1>3, Zenon DEF List

\* Lists of two and of three elements.
LEMMA Pair ==
    ASSUME NEW x, NEW y
    PROVE  List(<<x, y>>, 2)
  BY Short, Zenon

\* A list and its last element.
EndsIn(list, m, last) == List(list, m) /\ list[m] = last

\* The last of three.
LEMMA Triple ==
    ASSUME NEW x, NEW y, NEW z
    PROVE  EndsIn(<<x, y, z>>, 3, z)
  BY Short, Zenon DEF EndsIn

\* mkfs writes no empty object of a volume that fits.
LEMMA Counts ==
    ASSUME NEW v \in Nat, NEW s \in {8, 16, 32, 64, 128}, Fits(v, s)
    PROVE  /\ CbmStart(v, s) \in Nat /\ UctStart(v, s) \in Nat /\ RootStart(v, s) \in Nat
           /\ FatBytes(v, s) \in Nat /\ CbmBytes(v, s) \in Nat
           /\ ClustersOf(CbmBytes(v, s), s) \in Nat /\ ClustersOf(UctBytes, s) \in Nat
           /\ ClustersOf(512 * s, s) \in Nat /\ Allocated(v, s) \in Nat
<1>1. CASE s = 8
  BY <1>1, SMTT(60) DEF Fits, CbmStart, UctStart, RootStart, CbmBytes, FatBytes, ClustersMax,
     FatStart, UctBytes, CDiv, RoundUp, DivRoundUp, Allocated, ClustersOf
<1>2. CASE s = 16
  BY <1>2, SMTT(60) DEF Fits, CbmStart, UctStart, RootStart, CbmBytes, FatBytes, ClustersMax,
     FatStart, UctBytes, CDiv, RoundUp, DivRoundUp, Allocated, ClustersOf
<1>3. CASE s = 32
  BY <1>3, SMTT(60) DEF Fits, CbmStart, UctStart, RootStart, CbmBytes, FatBytes, ClustersMax,
     FatStart, UctBytes, CDiv, RoundUp, DivRoundUp, Allocated, ClustersOf
<1>4. CASE s = 64
  BY <1>4, SMTT(60) DEF Fits, CbmStart, UctStart, RootStart, CbmBytes, FatBytes, ClustersMax,
     FatStart, UctBytes, CDiv, RoundUp, DivRoundUp, Allocated, ClustersOf
<1>5. CASE s = 128
  BY <1>5, SMTT(60) DEF Fits, CbmStart, UctStart, RootStart, CbmBytes, FatBytes, ClustersMax,
     FatStart, UctBytes, CDiv, RoundUp, DivRoundUp, Allocated, ClustersOf
<1> QED
  BY <1>1, <1>2, <1>3, <1>4, <1>5

\* The requests that store an object.
LEMMA StoredList ==
    ASSUME NEW of, NEW sec \in Int, NEW bytes \in Nat, NEW value
    PROVE  IsList(Stored(of, sec, bytes, value))
<1> DEFINE run == Run(sec, bytes \div 512, Only(Cell(of, "whole", sec, 0), value))
           rest == Part(sec + bytes \div 512, Only(Cell(of, "rest", sec + bytes \div 512, 0), value))
           a == IF bytes >= 512 THEN <<run>> ELSE <<>>
           b == IF bytes % 512 > 0 THEN <<rest>> ELSE <<>>
<1>1. Stored(of, sec, bytes, value) = a \o b
  BY DEF Stored
<1> HIDE DEF run, rest
<1>2. IsList(<<>>) /\ IsList(<<run>>) /\ IsList(<<rest>>)
  BY Short DEF IsList
<1>3. IsList(a) /\ IsList(b)
  BY <1>2
<1> HIDE DEF a, b
<1> QED
  BY <1>1, <1>3, JoinedList

\* The entries of a cluster chain.
LEMMA ChainList ==
    ASSUME NEW c \in Int, NEW bytes, NEW s, ClustersOf(bytes, s) \in Nat
    PROVE  List(Chain(c, bytes, s), ClustersOf(bytes, s))
<1> DEFINE m == ClustersOf(bytes, s)
           f == Chain(c, bytes, s)
<1>1. f = [i \in 1 .. m |-> f[i]]
  BY DEF Chain
<1> HIDE DEF m, f
<1> QED
  BY <1>1, Enumerated DEF m, f

\* The entries of the FAT.
LEMMA FatEntriesList ==
    ASSUME NEW v \in Nat, NEW s \in {8, 16, 32, 64, 128}, Fits(v, s)
    PROVE  IsList(FatEntries(v, s))
<1> DEFINE uct == 2 + ClustersOf(CbmBytes(v, s), s)
           root == uct + ClustersOf(UctBytes, s)
           a == Chain(2, CbmBytes(v, s), s)
           b == Chain(uct, UctBytes, s)
           c == Chain(root, 512 * s, s)
<1>1. uct \in Int /\ root \in Int
  BY Counts
<1>2. IsList(a) /\ IsList(b) /\ IsList(c)
  BY <1>1, Counts, ChainList DEF IsList
<1>3. IsList(<<End, End>>)
  <2>1. 2 \in Nat /\ List(<<End, End>>, 2)
    BY Pair, Zenon
  <2> QED
    BY <2>1 DEF IsList
<1>4. FatEntries(v, s) = <<End, End>> \o a \o b \o c
  BY DEF FatEntries
<1> HIDE DEF a, b, c
<1> QED
  BY <1>2, <1>3, <1>4, JoinedList

\* The requests that write them.
LEMMA FatWriteList ==
    ASSUME NEW v \in Nat, NEW s \in {8, 16, 32, 64, 128}, Fits(v, s)
    PROVE  IsList(FatWrite(v, s))
<1>1. PICK m \in Nat : Len(FatEntries(v, s)) = m
  BY FatEntriesList DEF IsList, List
<1> DEFINE f == FatWrite(v, s)
<1>2. f = [i \in 1 .. m |-> f[i]]
  BY <1>1 DEF FatWrite
<1> HIDE DEF f
<1>3. List(f, m)
  BY <1>2, Enumerated
<1> QED
  BY <1>3 DEF IsList, f

\* The requests that erase an object.
LEMMA EraseObjectList ==
    ASSUME NEW structures, NEW of, NEW sec, NEW bytes \in Nat
    PROVE  IsList(EraseObject(structures, of, sec, bytes))
<1> DEFINE whole == bytes \div 512
           m == DivRoundUp(whole, 2048)
           run(i) == LET lba == sec + 2048 * (i - 1)
                         len == IF whole < 2048 * i THEN whole - 2048 * (i - 1) ELSE 2048
                     IN  Run(lba, len, Zeros(structures, of, lba, len))
           a == [i \in 1 .. m |-> run(i)]
           rest == Part(sec + whole, Zeros(structures, of, sec + whole, 1))
           b == IF bytes % 512 > 0 THEN <<rest>> ELSE <<>>
<1>1. m \in Nat
  BY DEF DivRoundUp
<1>2. EraseObject(structures, of, sec, bytes) = a \o b
  BY DEF EraseObject
<1> HIDE DEF m, rest
<1>3. a = [i \in 1 .. m |-> a[i]]
  OBVIOUS
<1> HIDE DEF a
<1>4. List(a, m)
  BY <1>1, <1>3, Enumerated
<1>5. IsList(b)
  BY Short DEF IsList
<1> HIDE DEF b
<1> QED
  BY <1>1, <1>2, <1>4, <1>5, JoinedList DEF IsList

\* The objects' requests, each a list.
LEMMA EraseList ==
    ASSUME NEW v \in Nat, NEW s \in {8, 16, 32, 64, 128}, Fits(v, s)
    PROVE  IsList(Erase(v, s))
<1> DEFINE er(of, sec, bytes) == EraseObject(CellsOf(Create(v, s)), of, sec, bytes)
           a == er("vbr", 0, 512 * VbrSectors)
           b == er("backup", VbrSectors, 512 * VbrSectors)
           c == er("fat", FatStart, FatBytes(v, s))
           d == er("cbm", CbmStart(v, s), CbmBytes(v, s))
           e == er("uct", UctStart(v, s), UctBytes)
           f == er("rootdir", RootStart(v, s), 512 * s)
<1>1. /\ 512 * VbrSectors \in Nat /\ FatBytes(v, s) \in Nat /\ CbmBytes(v, s) \in Nat
      /\ UctBytes \in Nat /\ 512 * s \in Nat
  BY Counts DEF VbrSectors, UctBytes
<1>2. IsList(a) /\ IsList(b) /\ IsList(c) /\ IsList(d) /\ IsList(e) /\ IsList(f)
  BY <1>1, EraseObjectList
<1>3. Erase(v, s) = a \o b \o c \o d \o e \o f
  BY DEF Erase
<1> HIDE DEF a, b, c, d, e, f
<1>4. IsList(a \o b)
  BY <1>2, JoinedList
<1>5. IsList(a \o b \o c)
  BY <1>2, <1>4, JoinedList
<1>6. IsList(a \o b \o c \o d)
  BY <1>2, <1>5, JoinedList
<1>7. IsList(a \o b \o c \o d \o e)
  BY <1>2, <1>6, JoinedList
<1> QED
  BY <1>2, <1>3, <1>7, JoinedList

\* The last request of a volume that fits, an entry of the root directory, does not
\* fill a sector.
LEMMA RequestsEnd ==
    ASSUME NEW v \in Nat, NEW s \in {8, 16, 32, 64, 128}, Fits(v, s)
    PROVE  \E m \in Nat : List(Requests(v, s), m + 1) /\ ~Requests(v, s)[m + 1].whole
<1> DEFINE er == Erase(v, s)
           a == Vbr(v, s, "vbr", 0)
           b == Vbr(v, s, "backup", VbrSectors)
           c == FatWrite(v, s)
           d == CbmWrite(v, s)
           e == UctWrite(v, s)
           entry(n, to) ==
               Part(RootStart(v, s), Only(Cell("rootdir", "entry", RootStart(v, s), n), Is(to)))
           x == entry(0, 0)
           y == entry(1, 2)
           z == entry(2, ClusterAt(v, s, UctStart(v, s)))
           pre == a \o b \o c \o d \o e
           create == pre \o <<x, y, z>>
<1>1. IsList(er) /\ IsList(c)
  BY EraseList, FatWriteList
<1>2. 512 * VbrSectors \in Nat /\ VbrSectors \in Int /\ 0 \in Int
  BY DEF VbrSectors
<1>3. IsList(a) /\ IsList(b)
  BY <1>2, StoredList DEF Vbr
<1>4. /\ DivRoundUp(Allocated(v, s), 8) \in Nat /\ CbmStart(v, s) \in Int /\ UctStart(v, s) \in Int
      /\ UctBytes \in Nat
  BY Counts DEF DivRoundUp, UctBytes
<1>5. IsList(d) /\ IsList(e)
  BY <1>4, StoredList DEF CbmWrite, UctWrite
<1>6. ~z.whole
  BY DEF Part
<1>7. Requests(v, s) = er \o create
  BY DEF Requests, Create, RootdirWrite
<1> HIDE DEF er, a, b, c, d, e, x, y, z
<1>8. IsList(pre)
  <2>1. IsList(a \o b)
    BY <1>3, JoinedList
  <2>2. IsList(a \o b \o c)
    BY <1>1, <2>1, JoinedList
  <2>3. IsList(a \o b \o c \o d)
    BY <1>5, <2>2, JoinedList
  <2> QED
    BY <1>5, <2>3, JoinedList
<1> HIDE DEF pre
<1>9. PICK k \in Nat : List(pre, k)
  BY <1>8 DEF IsList
<1>10. PICK n \in Nat : List(er, n)
  BY <1>1 DEF IsList
<1>11. 3 \in Nat /\ 3 \in 1 .. 3 /\ List(<<x, y, z>>, 3) /\ <<x, y, z>>[3] = z
  <2>1. EndsIn(<<x, y, z>>, 3, z)
    BY Triple, Zenon
  <2> QED
    BY <2>1 DEF EndsIn
<1>12. List(create, k + 3) /\ create[k + 3] = z
  <2>1. List(create, k + 3) /\ Joins(create, pre, <<x, y, z>>, k, 3)
    BY <1>9, <1>11, Joined
  <2> HIDE DEF create
  <2>2. create[k + 3] = <<x, y, z>>[3]
    BY <1>11, <2>1 DEF Joins
  <2> QED
    BY <1>11, <2>1, <2>2
<1> HIDE DEF create
<1>13. k + 3 \in Nat /\ k + 3 \in 1 .. k + 3 /\ n + k + 2 \in Nat /\ n + (k + 3) = (n + k + 2) + 1
  OBVIOUS
<1> DEFINE r == er \o create
<1>14. List(r, n + (k + 3)) /\ Joins(r, er, create, n, k + 3)
  BY <1>10, <1>12, <1>13, Joined
<1> HIDE DEF r
<1>15. r[n + (k + 3)] = z
  BY <1>12, <1>13, <1>14 DEF Joins
<1>16. List(r, (n + k + 2) + 1) /\ r[(n + k + 2) + 1] = z
  BY <1>13, <1>14, <1>15
<1>17. Requests(v, s) = r
  BY <1>7 DEF r
<1> QED
  BY <1>6, <1>13, <1>16, <1>17

\* While requests are made, the last of them goes past the cache; nobody makes one
\* after it.
EndInv ==
    /\ pc \in {"check", "io", "fsync", "final", "done"}
    /\ pc \in {"check", "io", "fsync"} => result = 0
    /\ pc = "io" => \E m \in Nat : List(todo, m + 1) /\ ~todo[m + 1].whole
    /\ pc = "fsync" \/ (pc = "final" /\ result = 0) => cache = <<>>

\* The list of requests runs out at its last one, a part of a sector.
LEMMA AdvanceEnds ==
    ASSUME NEW m \in Nat, List(todo, m + 1), ~todo[m + 1].whole, Advance, pc = "io"
    PROVE  \/ /\ pc' = "io"
              /\ \E k \in Nat : List(todo', k + 1) /\ ~todo'[k + 1].whole
           \/ pc' = "fsync" /\ ~Request.whole
<1>1. /\ List(Tail(todo), m) /\ Head(todo) = todo[1]
      /\ \A i \in 1 .. m : Tail(todo)[i] = todo[i + 1]
  BY TailList
<1>2. Len(todo) = m + 1
  BY DEF List
<1>3. todo' = Tail(todo) /\ pc' = IF m + 1 > 1 THEN "io" ELSE "fsync"
  BY <1>2 DEF Advance
<1>4. CASE m = 0
  BY <1>1, <1>3, <1>4 DEF Request
<1>5. CASE m > 0
  <2>1. m - 1 \in Nat /\ (m - 1) + 1 = m /\ m \in 1 .. m
    BY <1>5
  <2>2. List(todo', (m - 1) + 1) /\ ~todo'[(m - 1) + 1].whole
    BY <1>1, <1>3, <2>1
  <2> QED
    <3>1. pc' = "io"
      BY <1>3, <1>5
    <3>2. \E k \in Nat : List(todo', k + 1) /\ ~todo'[k + 1].whole
      BY <2>1, <2>2, Zenon
    <3> QED
      BY <3>1, <3>2
<1> QED
  BY <1>4, <1>5

\* Every step keeps the end of the list and the empty cache behind it.
LEMMA NextEnd == LayoutInv /\ EndInv /\ [Next]_vars => EndInv'
<1> SUFFICES ASSUME LayoutInv, EndInv, [Next]_vars PROVE EndInv'
  OBVIOUS
<1>1. CASE CheckSize
  <2>1. CASE Fits(volume, spc) /\ pc' = "io" /\ todo' = Requests(volume, spc) /\ result' = result
    BY <1>1, <2>1, RequestsEnd DEF LayoutInv, EndInv, CheckSize
  <2>2. CASE Fail
    BY <2>2 DEF Fail, EndInv
  <2> QED
    BY <1>1, <2>1, <2>2 DEF CheckSize
<1>2. CASE NoMemory
  BY <1>2 DEF NoMemory, Fail, EndInv
<1>3. CASE FlushFirst
  BY <1>3 DEF FlushFirst, EndInv
<1>4. CASE WriteRun
  <2>1. PICK m \in Nat : List(todo, m + 1) /\ ~todo[m + 1].whole
    BY <1>4 DEF WriteRun, EndInv
  <2>2. pc = "io" /\ Request.whole /\ Advance /\ result' = result
    BY <1>4 DEF WriteRun, Advance
  <2>3. pc' = "io" /\ \E k \in Nat : List(todo', k + 1) /\ ~todo'[k + 1].whole
    BY <2>1, <2>2, AdvanceEnds
  <2> QED
    BY <2>2, <2>3 DEF EndInv
<1>5. CASE WritePart
  <2>1. PICK m \in Nat : List(todo, m + 1) /\ ~todo[m + 1].whole
    BY <1>5 DEF WritePart, EndInv
  <2>2. pc = "io" /\ cache' = <<>>
    BY <1>5 DEF WritePart
  <2>3. CASE Fail
    BY <2>3 DEF Fail, EndInv
  <2>4. CASE Advance
    <3>1. result' = result
      BY <2>4 DEF Advance
    <3>2. \/ pc' = "io" /\ \E k \in Nat : List(todo', k + 1) /\ ~todo'[k + 1].whole
          \/ pc' = "fsync"
      BY <2>1, <2>2, <2>4, AdvanceEnds
    <3> QED
      BY <2>2, <3>1, <3>2 DEF EndInv
  <2> QED
    BY <1>5, <2>3, <2>4 DEF WritePart
<1>6. CASE Fsync
  BY <1>6 DEF Fsync, EndInv, stickVars
<1>7. CASE FinalSync
  BY <1>7 DEF FinalSync, EndInv
<1>8. CASE Unplug
  BY <1>8 DEF Unplug, EndInv, stickVars
<1>9. CASE UNCHANGED vars
  BY <1>9 DEF vars, EndInv, stickVars
<1> QED
  BY <1>1, <1>2, <1>3, <1>4, <1>5, <1>6, <1>7, <1>8, <1>9 DEF Next, Engine

\* exfat_fsync may do nothing (FlushedWhenSaid): for every volume the last request
\* is one that empties the cache first.
THEOREM AlwaysFlushedWhenSaid == Spec => []FlushedWhenSaid
<1>1. Init => EndInv
  BY DEF Init, EndInv
<1>2. LayoutInv /\ EndInv /\ [Next]_vars => EndInv'
  BY NextEnd
<1>3. EndInv => FlushedWhenSaid
  BY DEF EndInv, FlushedWhenSaid
<1> QED
  BY <1>1, <1>2, <1>3, LayoutInvInit, LayoutInvNext, PTL DEF Spec

-----------------------------------------------------------------------------
(* What the requests put where: zeros first, then for every structure the   *)
(* one value it is to have.                                                 *)

\* The value a cell has on a formatted stick.
Want(v, s, c) ==
    IF c.of = "fat" THEN Is(FatEntries(v, s)[c.n + 1])
    ELSE IF c.of = "rootdir" THEN Is(<<0, 2, ClusterAt(v, s, UctStart(v, s))>>[c.n + 1])
    ELSE IF c.of = "cbm" THEN Is(Allocated(v, s))
    ELSE IF c.of = "uct" THEN Is(0)
    ELSE Is(InitSb(v, s).root)

\* A request of erase; one of create, whose runs and parts are of different cells.
Erases(r) ==
    /\ \A c \in DOMAIN r.put : r.put[c] = Zero
    /\ r.lba \in Nat /\ r.len \in Nat /\ r.len > 0
Creates(v, s, r) ==
    \A c \in DOMAIN r.put :
        r.put[c] = Want(v, s, c) /\ c.part # "free" /\ (c.part = "whole" <=> r.whole)

Erasing(list) == \E m \in Nat : List(list, m) /\ \A i \in 1 .. m : Erases(list[i])
Creating(v, s, list) ==
    \E m \in Nat : List(list, m) /\ \A i \in 1 .. m : Creates(v, s, list[i])

\* The cells of two lists.
LEMMA JoinedCells ==
    ASSUME NEW s, NEW t, IsList(s), IsList(t)
    PROVE  CellsOf(s \o t) = CellsOf(s) \cup CellsOf(t)
<1>1. PICK m \in Nat : List(s, m)
  BY DEF IsList
<1>2. PICK k \in Nat : List(t, k)
  BY DEF IsList
<1> DEFINE r == s \o t
<1>3. List(r, m + k) /\ Joins(r, s, t, m, k)
  BY <1>1, <1>2, Joined
<1> HIDE DEF r
<1>4. DOMAIN s = 1 .. m /\ DOMAIN t = 1 .. k /\ DOMAIN r = 1 .. m + k
  BY <1>1, <1>2, <1>3 DEF List
<1>5. ASSUME NEW c \in CellsOf(r) PROVE c \in CellsOf(s) \cup CellsOf(t)
  <2>1. PICK i \in 1 .. m + k : c \in DOMAIN r[i].put
    BY <1>4, <1>5 DEF CellsOf
  <2>2. CASE i <= m
    <3>1. i \in 1 .. m /\ r[i] = s[i]
      BY <1>3, <2>2 DEF Joins
    <3> QED
      BY <1>4, <2>1, <3>1 DEF CellsOf
  <2>3. CASE i > m
    <3>1. i - m \in 1 .. k /\ i = m + (i - m)
      BY <2>3
    <3>2. r[i] = t[i - m]
      BY <1>3, <3>1 DEF Joins
    <3> QED
      BY <1>4, <2>1, <3>1, <3>2 DEF CellsOf
  <2> QED
    BY <2>2, <2>3
<1>6. ASSUME NEW c \in CellsOf(s) PROVE c \in CellsOf(r)
  <2>1. PICK i \in 1 .. m : c \in DOMAIN s[i].put
    BY <1>4, <1>6 DEF CellsOf
  <2>2. i \in 1 .. m + k /\ r[i] = s[i]
    BY <1>3 DEF Joins
  <2> QED
    BY <1>4, <2>1, <2>2 DEF CellsOf
<1>7. ASSUME NEW c \in CellsOf(t) PROVE c \in CellsOf(r)
  <2>1. PICK i \in 1 .. k : c \in DOMAIN t[i].put
    BY <1>4, <1>7 DEF CellsOf
  <2>2. m + i \in 1 .. m + k /\ r[m + i] = t[i]
    BY <1>3 DEF Joins
  <2> QED
    BY <1>4, <2>1, <2>2 DEF CellsOf
<1> QED
  BY <1>5, <1>6, <1>7 DEF r

\* Two lists of requests of erase.
LEMMA JoinedErasing ==
    ASSUME NEW s, NEW t, Erasing(s), Erasing(t)
    PROVE  Erasing(s \o t)
<1>1. PICK m \in Nat : List(s, m) /\ \A i \in 1 .. m : Erases(s[i])
  BY DEF Erasing
<1>2. PICK k \in Nat : List(t, k) /\ \A i \in 1 .. k : Erases(t[i])
  BY DEF Erasing
<1> DEFINE r == s \o t
<1>3. List(r, m + k) /\ Joins(r, s, t, m, k)
  BY <1>1, <1>2, Joined
<1> HIDE DEF r
<1>4. ASSUME NEW i \in 1 .. m + k PROVE Erases(r[i])
  <2>1. CASE i <= m
    BY <1>1, <1>3, <2>1 DEF Joins
  <2>2. CASE i > m
    <3>1. i - m \in 1 .. k /\ i = m + (i - m)
      BY <2>2
    <3> QED
      BY <1>2, <1>3, <3>1 DEF Joins
  <2> QED
    BY <2>1, <2>2
<1>5. m + k \in Nat
  OBVIOUS
<1>6. Erasing(r)
  BY <1>3, <1>4, <1>5, Zenon DEF Erasing
<1> QED
  BY <1>6 DEF r

\* Two lists of requests of create.
LEMMA JoinedCreating ==
    ASSUME NEW v, NEW x, NEW s, NEW t, Creating(v, x, s), Creating(v, x, t)
    PROVE  Creating(v, x, s \o t)
<1>1. PICK m \in Nat : List(s, m) /\ \A i \in 1 .. m : Creates(v, x, s[i])
  BY DEF Creating
<1>2. PICK k \in Nat : List(t, k) /\ \A i \in 1 .. k : Creates(v, x, t[i])
  BY DEF Creating
<1> DEFINE r == s \o t
<1>3. List(r, m + k) /\ Joins(r, s, t, m, k)
  BY <1>1, <1>2, Joined
<1> HIDE DEF r
<1>4. ASSUME NEW i \in 1 .. m + k PROVE Creates(v, x, r[i])
  <2>1. CASE i <= m
    BY <1>1, <1>3, <2>1 DEF Joins
  <2>2. CASE i > m
    <3>1. i - m \in 1 .. k /\ i = m + (i - m)
      BY <2>2
    <3> QED
      BY <1>2, <1>3, <3>1 DEF Joins
  <2> QED
    BY <2>1, <2>2
<1>5. m + k \in Nat
  OBVIOUS
<1>6. Creating(v, x, r)
  BY <1>3, <1>4, <1>5, Zenon DEF Creating
<1> QED
  BY <1>6 DEF r

\* Such lists are lists.
LEMMA KindsAreLists ==
    ASSUME NEW v, NEW s, NEW list
    PROVE  /\ Erasing(list) => IsList(list)
           /\ Creating(v, s, list) => IsList(list)
  BY Zenon DEF Erasing, Creating, IsList

\* A list of one request, or none.
LEMMA OneErasing ==
    ASSUME NEW r
    PROVE  Erasing(<<>>) /\ (Erases(r) => Erasing(<<r>>))
<1>1. List(<<>>, 0) /\ List(<<r>>, 1) /\ <<r>>[1] = r
  BY Short
<1>2. \A i \in 1 .. 0 : Erases(<<>>[i])
  OBVIOUS
<1>3. Erases(r) => \A i \in 1 .. 1 : Erases(<<r>>[i])
  BY <1>1
<1>4. 0 \in Nat /\ 1 \in Nat
  OBVIOUS
<1> QED
  BY <1>1, <1>2, <1>3, <1>4, Zenon DEF Erasing

\* The same for create.
LEMMA OneCreating ==
    ASSUME NEW v, NEW s, NEW r
    PROVE  Creating(v, s, <<>>) /\ (Creates(v, s, r) => Creating(v, s, <<r>>))
<1>1. List(<<>>, 0) /\ List(<<r>>, 1) /\ <<r>>[1] = r
  BY Short
<1>2. \A i \in 1 .. 0 : Creates(v, s, <<>>[i])
  OBVIOUS
<1>3. Creates(v, s, r) => \A i \in 1 .. 1 : Creates(v, s, <<r>>[i])
  BY <1>1
<1>4. 0 \in Nat /\ 1 \in Nat
  OBVIOUS
<1> QED
  BY <1>1, <1>2, <1>3, <1>4, Zenon DEF Creating

\* erase_object writes nothing but zeros.
LEMMA EraseObjectErases ==
    ASSUME NEW structures, NEW of, NEW sec \in Nat, NEW bytes \in Nat
    PROVE  Erasing(EraseObject(structures, of, sec, bytes))
<1> DEFINE whole == bytes \div 512
           m == DivRoundUp(whole, 2048)
           run(i) == LET lba == sec + 2048 * (i - 1)
                         len == IF whole < 2048 * i THEN whole - 2048 * (i - 1) ELSE 2048
                     IN  Run(lba, len, Zeros(structures, of, lba, len))
           a == [i \in 1 .. m |-> run(i)]
           rest == Part(sec + whole, Zeros(structures, of, sec + whole, 1))
           b == IF bytes % 512 > 0 THEN <<rest>> ELSE <<>>
<1>1. m \in Nat
  BY DEF DivRoundUp
<1>2. EraseObject(structures, of, sec, bytes) = a \o b
  BY DEF EraseObject
<1>3. ASSUME NEW lba \in Nat, NEW len \in Nat, len > 0
      PROVE  Erases(Run(lba, len, Zeros(structures, of, lba, len)))
  <2> DEFINE z == Zeros(structures, of, lba, len)
  <2>1. \A c \in DOMAIN z : z[c] = Zero
    BY DEF Zeros
  <2> HIDE DEF z
  <2>2. Run(lba, len, z).put = z /\ Run(lba, len, z).lba = lba /\ Run(lba, len, z).len = len
    BY DEF Run
  <2>3. Erases(Run(lba, len, z))
    BY <1>3, <2>1, <2>2 DEF Erases
  <2> QED
    BY <2>3 DEF z
<1>4. Erases(rest)
  <2> DEFINE z == Zeros(structures, of, sec + whole, 1)
  <2>1. \A c \in DOMAIN z : z[c] = Zero
    BY DEF Zeros
  <2>2. rest = Part(sec + whole, z) /\ sec + whole \in Nat
    OBVIOUS
  <2> HIDE DEF z, rest
  <2>3. rest.put = z /\ rest.lba = sec + whole /\ rest.len = 1
    BY <2>2 DEF Part
  <2> QED
    BY <2>1, <2>2, <2>3 DEF Erases
<1>5. \A i \in 1 .. m : Erases(run(i))
  <2> TAKE i \in 1 .. m
  <2> DEFINE lba == sec + 2048 * (i - 1)
             len == IF whole < 2048 * i THEN whole - 2048 * (i - 1) ELSE 2048
  <2>1. whole \in Nat /\ lba \in Nat
    OBVIOUS
  <2>2. len \in Nat /\ len > 0
    BY <2>1 DEF DivRoundUp
  <2> HIDE DEF lba, len
  <2>3. Erases(Run(lba, len, Zeros(structures, of, lba, len)))
    BY <1>3, <2>1, <2>2
  <2> QED
    BY <2>3 DEF lba, len
<1> HIDE DEF m, rest, run
<1>6. a = [i \in 1 .. m |-> a[i]] /\ \A i \in 1 .. m : Erases(a[i])
  BY <1>5
<1> HIDE DEF a
<1>7. List(a, m)
  BY <1>1, <1>6, Enumerated
<1>8. Erasing(a)
  BY <1>1, <1>6, <1>7, Zenon DEF Erasing
<1>9. Erasing(b)
  BY <1>4, OneErasing
<1> HIDE DEF b
<1> QED
  BY <1>2, <1>8, <1>9, JoinedErasing

\* erase writes nothing but zeros.
LEMMA EraseErases ==
    ASSUME NEW v \in Nat, NEW s \in {8, 16, 32, 64, 128}, Fits(v, s)
    PROVE  Erasing(Erase(v, s))
<1> DEFINE er(of, sec, bytes) == EraseObject(CellsOf(Create(v, s)), of, sec, bytes)
           a == er("vbr", 0, 512 * VbrSectors)
           b == er("backup", VbrSectors, 512 * VbrSectors)
           c == er("fat", FatStart, FatBytes(v, s))
           d == er("cbm", CbmStart(v, s), CbmBytes(v, s))
           e == er("uct", UctStart(v, s), UctBytes)
           f == er("rootdir", RootStart(v, s), 512 * s)
<1>1. /\ 512 * VbrSectors \in Nat /\ FatBytes(v, s) \in Nat /\ CbmBytes(v, s) \in Nat
      /\ UctBytes \in Nat /\ 512 * s \in Nat
  BY Counts DEF VbrSectors, UctBytes
<1> /\ 0 \in Nat /\ VbrSectors \in Nat /\ FatStart \in Nat /\ CbmStart(v, s) \in Nat
    /\ UctStart(v, s) \in Nat /\ RootStart(v, s) \in Nat
  BY Counts DEF VbrSectors, FatStart
<1>2. Erasing(a) /\ Erasing(b) /\ Erasing(c) /\ Erasing(d) /\ Erasing(e) /\ Erasing(f)
  BY <1>1, EraseObjectErases
<1>3. Erase(v, s) = a \o b \o c \o d \o e \o f
  BY DEF Erase
<1> HIDE DEF a, b, c, d, e, f
<1>4. Erasing(a \o b)
  BY <1>2, JoinedErasing
<1>5. Erasing(a \o b \o c)
  BY <1>2, <1>4, JoinedErasing
<1>6. Erasing(a \o b \o c \o d)
  BY <1>2, <1>5, JoinedErasing
<1>7. Erasing(a \o b \o c \o d \o e)
  BY <1>2, <1>6, JoinedErasing
<1> QED
  BY <1>2, <1>3, <1>7, JoinedErasing

\* A run or a part of one cell.
LEMMA OnlyCreates ==
    ASSUME NEW v, NEW s, NEW of, NEW part, NEW sec, NEW n, NEW lba, NEW len, NEW value,
           value = Want(v, s, Cell(of, part, sec, n))
    PROVE  /\ part = "whole" => Creates(v, s, Run(lba, len, Only(Cell(of, part, sec, n), value)))
           /\ part \in {"rest", "entry"} =>
                  Creates(v, s, Part(lba, Only(Cell(of, part, sec, n), value)))
<1> DEFINE c == Cell(of, part, sec, n)
<1>1. c.part = part
  BY DEF Cell
<1> HIDE DEF c
<1>2. DOMAIN Only(c, value) = {c} /\ Only(c, value)[c] = value
  BY DEF Only
<1>3. /\ Run(lba, len, Only(c, value)).put = Only(c, value) /\ Run(lba, len, Only(c, value)).whole = TRUE
      /\ Part(lba, Only(c, value)).put = Only(c, value) /\ Part(lba, Only(c, value)).whole = FALSE
  BY DEF Run, Part
<1>4. value = Want(v, s, c)
  BY DEF c
<1>5. part = "whole" => Creates(v, s, Run(lba, len, Only(c, value)))
  BY <1>1, <1>2, <1>3, <1>4 DEF Creates
<1>6. part \in {"rest", "entry"} => Creates(v, s, Part(lba, Only(c, value)))
  BY <1>1, <1>2, <1>3, <1>4 DEF Creates
<1> QED
  BY <1>5, <1>6 DEF c

\* exfat_write of an object that is one value.
LEMMA StoredCreates ==
    ASSUME NEW v, NEW s, NEW of, NEW sec \in Int, NEW bytes \in Nat, NEW value,
           \A part, at : Want(v, s, Cell(of, part, at, 0)) = value
    PROVE  Creating(v, s, Stored(of, sec, bytes, value))
<1> DEFINE run == Run(sec, bytes \div 512, Only(Cell(of, "whole", sec, 0), value))
           rest == Part(sec + bytes \div 512, Only(Cell(of, "rest", sec + bytes \div 512, 0), value))
           a == IF bytes >= 512 THEN <<run>> ELSE <<>>
           b == IF bytes % 512 > 0 THEN <<rest>> ELSE <<>>
<1>1. Stored(of, sec, bytes, value) = a \o b
  BY DEF Stored
<1>2. Creates(v, s, run) /\ Creates(v, s, rest)
  BY OnlyCreates
<1> HIDE DEF run, rest
<1>3. Creating(v, s, a) /\ Creating(v, s, b)
  BY <1>2, OneCreating
<1> HIDE DEF a, b
<1> QED
  BY <1>1, <1>3, JoinedCreating

\* fat_write.
LEMMA FatWriteCreates ==
    ASSUME NEW v \in Nat, NEW s \in {8, 16, 32, 64, 128}, Fits(v, s)
    PROVE  Creating(v, s, FatWrite(v, s))
<1> DEFINE fat == FatEntries(v, s)
           at(i) == FatStart + (i - 1) \div 128
           part(i) == Part(at(i), Only(Cell("fat", "entry", at(i), i - 1), Is(fat[i])))
           f == FatWrite(v, s)
<1>1. PICK m \in Nat : Len(fat) = m
  BY FatEntriesList DEF IsList, List
<1>2. f = [i \in 1 .. m |-> part(i)]
  BY <1>1 DEF FatWrite
<1>3. ASSUME NEW i \in 1 .. m PROVE Creates(v, s, part(i))
  <2>1. Want(v, s, Cell("fat", "entry", at(i), i - 1)) = Is(FatEntries(v, s)[(i - 1) + 1])
    BY DEF Want, Cell
  <2>2. (i - 1) + 1 = i
    OBVIOUS
  <2>3. Want(v, s, Cell("fat", "entry", at(i), i - 1)) = Is(fat[i])
    BY <2>1, <2>2
  <2> QED
    BY <2>3, OnlyCreates
<1> HIDE DEF part
<1>4. f = [i \in 1 .. m |-> f[i]]
  BY <1>2
<1>5. \A i \in 1 .. m : Creates(v, s, f[i])
  BY <1>2, <1>3
<1> HIDE DEF f
<1>6. List(f, m)
  BY <1>4, Enumerated
<1>7. Creating(v, s, f)
  BY <1>5, <1>6 DEF Creating
<1> QED
  BY <1>7 DEF f

\* Three requests of create.
LEMMA ThreeCreating ==
    ASSUME NEW v, NEW s, NEW x, NEW y, NEW z,
           Creates(v, s, x), Creates(v, s, y), Creates(v, s, z)
    PROVE  Creating(v, s, <<x, y, z>>)
<1>1. List(<<x, y, z>>, 3)
  BY Short, Zenon
<1>2. \A i \in 1 .. 3 : Creates(v, s, <<x, y, z>>[i])
  <2>1. <<x, y, z>>[1] = x /\ <<x, y, z>>[2] = y /\ <<x, y, z>>[3] = z
    OBVIOUS
  <2>2. \A i \in 1 .. 3 : i = 1 \/ i = 2 \/ i = 3
    OBVIOUS
  <2> QED
    BY <2>1, <2>2, Zenon
<1>3. 3 \in Nat
  OBVIOUS
<1> QED
  BY <1>1, <1>2, <1>3, Zenon DEF Creating

\* The three entries of the root directory.
LEMMA RootdirCreates ==
    ASSUME NEW v, NEW s
    PROVE  Creating(v, s, RootdirWrite(v, s))
<1> DEFINE at == RootStart(v, s)
           last == ClusterAt(v, s, UctStart(v, s))
           entry(n, to) == Part(at, Only(Cell("rootdir", "entry", at, n), Is(to)))
<1>1. RootdirWrite(v, s) = <<entry(0, 0), entry(1, 2), entry(2, last)>>
  BY DEF RootdirWrite
<1>2. ASSUME NEW n \in 0 .. 2
      PROVE  Want(v, s, Cell("rootdir", "entry", at, n)) = Is(<<0, 2, last>>[n + 1])
  <2>1. /\ Cell("rootdir", "entry", at, n).of = "rootdir"
        /\ Cell("rootdir", "entry", at, n).n = n
    BY DEF Cell
  <2> QED
    BY <2>1 DEF Want
<1> HIDE DEF last
<1>3. <<0, 2, last>>[0 + 1] = 0 /\ <<0, 2, last>>[1 + 1] = 2 /\ <<0, 2, last>>[2 + 1] = last
  OBVIOUS
<1>4. 0 \in 0 .. 2 /\ 1 \in 0 .. 2 /\ 2 \in 0 .. 2
  OBVIOUS
<1>5. /\ Want(v, s, Cell("rootdir", "entry", at, 0)) = Is(0)
      /\ Want(v, s, Cell("rootdir", "entry", at, 1)) = Is(2)
      /\ Want(v, s, Cell("rootdir", "entry", at, 2)) = Is(last)
  <2>1. Want(v, s, Cell("rootdir", "entry", at, 0)) = Is(<<0, 2, last>>[0 + 1])
    BY <1>2, <1>4
  <2>2. Want(v, s, Cell("rootdir", "entry", at, 1)) = Is(<<0, 2, last>>[1 + 1])
    BY <1>2, <1>4
  <2>3. Want(v, s, Cell("rootdir", "entry", at, 2)) = Is(<<0, 2, last>>[2 + 1])
    BY <1>2, <1>4
  <2> QED
    BY <1>3, <2>1, <2>2, <2>3
<1>6. /\ Creates(v, s, entry(0, 0)) /\ Creates(v, s, entry(1, 2))
      /\ Creates(v, s, entry(2, last))
  <2>1. "entry" \in {"rest", "entry"}
    OBVIOUS
  <2> QED
    BY <1>5, <2>1, OnlyCreates
<1> HIDE DEF entry
<1>7. Creating(v, s, <<entry(0, 0), entry(1, 2), entry(2, last)>>)
  BY <1>6, ThreeCreating
<1> QED
  BY <1>1, <1>7

\* The two records, the bitmap and the upcase table.
LEMMA ObjectsCreate ==
    ASSUME NEW v \in Nat, NEW s \in {8, 16, 32, 64, 128}, Fits(v, s)
    PROVE  /\ Creating(v, s, Vbr(v, s, "vbr", 0))
           /\ Creating(v, s, Vbr(v, s, "backup", VbrSectors))
           /\ Creating(v, s, CbmWrite(v, s)) /\ Creating(v, s, UctWrite(v, s))
<1>1. 512 * VbrSectors \in Nat /\ VbrSectors \in Int /\ 0 \in Int
  BY DEF VbrSectors
<1>2. /\ DivRoundUp(Allocated(v, s), 8) \in Nat /\ CbmStart(v, s) \in Int /\ UctStart(v, s) \in Int
      /\ UctBytes \in Nat
  BY Counts DEF DivRoundUp, UctBytes
<1>3. \A part, at : Want(v, s, Cell("vbr", part, at, 0)) = Is(InitSb(v, s).root)
  BY DEF Want, Cell
<1>4. \A part, at : Want(v, s, Cell("backup", part, at, 0)) = Is(InitSb(v, s).root)
  BY DEF Want, Cell
<1>5. \A part, at : Want(v, s, Cell("cbm", part, at, 0)) = Is(Allocated(v, s))
  BY DEF Want, Cell
<1>6. \A part, at : Want(v, s, Cell("uct", part, at, 0)) = Is(0)
  BY DEF Want, Cell
<1>7. Creating(v, s, Vbr(v, s, "vbr", 0))
  BY <1>1, <1>3, StoredCreates DEF Vbr
<1>8. Creating(v, s, Vbr(v, s, "backup", VbrSectors))
  BY <1>1, <1>4, StoredCreates DEF Vbr
<1>9. Creating(v, s, CbmWrite(v, s))
  BY <1>2, <1>5, StoredCreates DEF CbmWrite
<1>10. Creating(v, s, UctWrite(v, s))
  BY <1>2, <1>6, StoredCreates DEF UctWrite
<1> QED
  BY <1>7, <1>8, <1>9, <1>10

\* create writes to every cell what it is to have; FAT, bitmap and directory are
\* among its cells.
LEMMA CreateCreates ==
    ASSUME NEW v \in Nat, NEW s \in {8, 16, 32, 64, 128}, Fits(v, s)
    PROVE  /\ Creating(v, s, Create(v, s))
           /\ CellsOf(FatWrite(v, s)) \subseteq CellsOf(Create(v, s))
           /\ CellsOf(CbmWrite(v, s)) \subseteq CellsOf(Create(v, s))
           /\ CellsOf(RootdirWrite(v, s)) \subseteq CellsOf(Create(v, s))
<1> DEFINE a == Vbr(v, s, "vbr", 0)
           b == Vbr(v, s, "backup", VbrSectors)
           c == FatWrite(v, s)
           d == CbmWrite(v, s)
           e == UctWrite(v, s)
           f == RootdirWrite(v, s)
           cr(list) == Creating(v, s, list)
<1>1. cr(a) /\ cr(b) /\ cr(c) /\ cr(d) /\ cr(e) /\ cr(f)
  BY ObjectsCreate, FatWriteCreates, RootdirCreates
<1>2. Create(v, s) = a \o b \o c \o d \o e \o f
  BY DEF Create
<1> HIDE DEF a, b, c, d, e, f
<1>3. \A list : cr(list) => IsList(list)
  BY KindsAreLists
<1>4. \A list, more : cr(list) /\ cr(more) => cr(list \o more)
  BY JoinedCreating
<1> HIDE DEF cr
<1>5. \A list, more : cr(list) /\ cr(more) =>
          /\ cr(list \o more)
          /\ CellsOf(list \o more) = CellsOf(list) \cup CellsOf(more)
  BY <1>3, <1>4, JoinedCells
<1>6. cr(a \o b)
  BY <1>1, <1>5
<1>7. cr(a \o b \o c) /\ CellsOf(c) \subseteq CellsOf(a \o b \o c)
  BY <1>1, <1>5, <1>6
<1>8. /\ cr(a \o b \o c \o d) /\ CellsOf(c) \subseteq CellsOf(a \o b \o c \o d)
      /\ CellsOf(d) \subseteq CellsOf(a \o b \o c \o d)
  BY <1>1, <1>5, <1>7
<1>9. /\ cr(a \o b \o c \o d \o e) /\ CellsOf(c) \subseteq CellsOf(a \o b \o c \o d \o e)
      /\ CellsOf(d) \subseteq CellsOf(a \o b \o c \o d \o e)
  BY <1>1, <1>5, <1>8
<1>10. /\ cr(a \o b \o c \o d \o e \o f)
       /\ CellsOf(c) \subseteq CellsOf(a \o b \o c \o d \o e \o f)
       /\ CellsOf(d) \subseteq CellsOf(a \o b \o c \o d \o e \o f)
       /\ CellsOf(f) \subseteq CellsOf(a \o b \o c \o d \o e \o f)
  BY <1>1, <1>5, <1>9
<1> QED
  BY <1>2, <1>10 DEF c, d, f, cr

\* A list whose first request is at sector 0.
AtZero(list) == \E m \in Nat : List(list, m + 1) /\ list[1].lba = 0

\* Joining another list behind it leaves the first request.
LEMMA JoinedAtZero ==
    ASSUME NEW s, NEW t, AtZero(s), IsList(t)
    PROVE  AtZero(s \o t)
<1>1. PICK m \in Nat : List(s, m + 1) /\ s[1].lba = 0
  BY DEF AtZero
<1>2. PICK k \in Nat : List(t, k)
  BY DEF IsList
<1> DEFINE r == s \o t
<1>3. m + 1 \in Nat /\ m + k \in Nat /\ (m + 1) + k = (m + k) + 1 /\ 1 \in 1 .. m + 1
  OBVIOUS
<1>4. List(r, (m + 1) + k) /\ Joins(r, s, t, m + 1, k)
  BY <1>1, <1>2, <1>3, Joined
<1> HIDE DEF r
<1>5. r[1].lba = 0
  BY <1>1, <1>3, <1>4 DEF Joins
<1>6. AtZero(r)
  <2>1. List(r, (m + k) + 1)
    BY <1>3, <1>4
  <2> QED
    BY <1>3, <1>5, <2>1 DEF AtZero
<1> QED
  BY <1>6 DEF r

\* create begins with the boot record.
LEMMA CreateAtZero ==
    ASSUME NEW v \in Nat, NEW s \in {8, 16, 32, 64, 128}, Fits(v, s)
    PROVE  AtZero(Create(v, s))
<1> DEFINE a == Vbr(v, s, "vbr", 0)
           b == Vbr(v, s, "backup", VbrSectors)
           c == FatWrite(v, s)
           d == CbmWrite(v, s)
           e == UctWrite(v, s)
           f == RootdirWrite(v, s)
           put == Only(Cell("vbr", "whole", 0, 0), Is(InitSb(v, s).root))
           run == Run(0, VbrSectors, put)
<1>1. IsList(b) /\ IsList(c) /\ IsList(d) /\ IsList(e) /\ IsList(f)
  BY ObjectsCreate, FatWriteCreates, RootdirCreates, KindsAreLists
<1>2. a = <<run>> \o <<>>
  <2>1. /\ 512 * VbrSectors >= 512 /\ (512 * VbrSectors) \div 512 = VbrSectors
        /\ ~((512 * VbrSectors) % 512 > 0)
    BY DEF VbrSectors
  <2> DEFINE first == IF 512 * VbrSectors >= 512
                      THEN <<Run(0, (512 * VbrSectors) \div 512, put)>> ELSE <<>>
             at == 0 + (512 * VbrSectors) \div 512
             then == IF (512 * VbrSectors) % 512 > 0
                     THEN <<Part(at, Only(Cell("vbr", "rest", at, 0), Is(InitSb(v, s).root)))>>
                     ELSE <<>>
  <2>2. a = first \o then
    BY DEF Vbr, Stored
  <2> HIDE DEF put, a
  <2>3. first = <<run>>
    BY <2>1
  <2>4. then = <<>>
    BY <2>1
  <2> HIDE DEF first, then, run
  <2> QED
    BY <2>2, <2>3, <2>4
<1>3. run.lba = 0
  BY DEF Run
<1>4. Create(v, s) = a \o b \o c \o d \o e \o f
  BY DEF Create
<1> HIDE DEF a, b, c, d, e, f, run
<1>5. AtZero(a)
  <2>1. List(<<>>, 0) /\ List(<<run>>, 1)
    BY Short, Zenon
  <2>2. 0 \in Nat /\ 0 + 1 = 1 /\ <<run>>[1] = run
    OBVIOUS
  <2>3. IsList(<<>>)
    BY <2>1, <2>2, Zenon DEF IsList
  <2>4. AtZero(<<run>>)
    <3> DEFINE one == <<run>>
    <3>1. one[1].lba = 0 /\ List(one, 0 + 1)
      BY <1>3, <2>1, <2>2
    <3> HIDE DEF one
    <3>2. AtZero(one)
      BY <2>2, <3>1, Zenon DEF AtZero
    <3> QED
      BY <3>2 DEF one
  <2> QED
    BY <1>2, <2>3, <2>4, JoinedAtZero
<1>6. AtZero(a \o b)
  BY <1>1, <1>5, JoinedAtZero
<1>7. AtZero(a \o b \o c)
  BY <1>1, <1>6, JoinedAtZero
<1>8. AtZero(a \o b \o c \o d)
  BY <1>1, <1>7, JoinedAtZero
<1>9. AtZero(a \o b \o c \o d \o e)
  BY <1>1, <1>8, JoinedAtZero
<1> QED
  BY <1>1, <1>4, <1>9, JoinedAtZero

\* The first e of the m requests erase, the others create, from sector 0 on.
Plan(v, s, e, m) ==
    LET r == Requests(v, s) IN
    /\ Fits(v, s) /\ e \in Nat /\ m \in Nat /\ e < m /\ List(r, m)
    /\ r[e + 1].lba = 0
    /\ \A j \in 1 .. e : Erases(r[j])
    /\ \A j \in e + 1 .. m : Creates(v, s, r[j])
    /\ \A c \in CellsOf(Erase(v, s)) : \E j \in 1 .. e : c \in DOMAIN r[j].put
    /\ \A c \in CellsOf(Create(v, s)) : \E j \in e + 1 .. m : c \in DOMAIN r[j].put

\* mkfs has such a plan for every volume that fits.
LEMMA PlanExists ==
    ASSUME NEW v \in Nat, NEW s \in {8, 16, 32, 64, 128}, Fits(v, s)
    PROVE  \E e, m \in Nat : Plan(v, s, e, m)
<1> DEFINE er == Erase(v, s)
           cr == Create(v, s)
           r == er \o cr
<1>1. PICK e \in Nat : List(er, e) /\ \A i \in 1 .. e : Erases(er[i])
  BY EraseErases DEF Erasing
<1>2. PICK k \in Nat : List(cr, k) /\ \A i \in 1 .. k : Creates(v, s, cr[i])
  BY CreateCreates DEF Creating
<1>3. Requests(v, s) = r
  BY DEF Requests
<1> HIDE DEF er, cr
<1>4. List(r, e + k) /\ Joins(r, er, cr, e, k)
  BY <1>1, <1>2, Joined
<1> HIDE DEF r
<1>5. e + k \in Nat /\ e < e + k /\ r[e + 1].lba = 0
  <2>1. PICK n \in Nat : List(cr, n + 1) /\ cr[1].lba = 0
    BY CreateAtZero DEF AtZero, cr
  <2>2. k = n + 1
    BY <1>2, <2>1 DEF List
  <2> QED
    BY <1>4, <2>1, <2>2 DEF Joins
<1>6. \A j \in 1 .. e : Erases(r[j])
  BY <1>1, <1>4 DEF Joins
<1>7. ASSUME NEW j \in e + 1 .. e + k PROVE Creates(v, s, r[j])
  <2>1. j - e \in 1 .. k /\ j = e + (j - e)
    OBVIOUS
  <2> QED
    BY <1>2, <1>4, <2>1 DEF Joins
<1>8. DOMAIN er = 1 .. e /\ DOMAIN cr = 1 .. k
  BY <1>1, <1>2 DEF List
<1>9. ASSUME NEW c \in CellsOf(er) PROVE \E j \in 1 .. e : c \in DOMAIN r[j].put
  <2>1. PICK i \in 1 .. e : c \in DOMAIN er[i].put
    BY <1>8, <1>9 DEF CellsOf
  <2> QED
    BY <1>4, <2>1 DEF Joins
<1>10. ASSUME NEW c \in CellsOf(cr) PROVE \E j \in e + 1 .. e + k : c \in DOMAIN r[j].put
  <2>1. PICK i \in 1 .. k : c \in DOMAIN cr[i].put
    BY <1>8, <1>10 DEF CellsOf
  <2>2. e + i \in e + 1 .. e + k /\ r[e + i] = cr[i]
    BY <1>4 DEF Joins
  <2> QED
    BY <2>1, <2>2
<1>11. Plan(v, s, e, e + k)
  BY <1>3, <1>4, <1>5, <1>6, <1>7, <1>9, <1>10 DEF Plan, er, cr
<1> QED
  BY <1>5, <1>11

-----------------------------------------------------------------------------
(* What lands on the stick.                                                 *)

\* A cell after the first k of n runs landed: torn, of one of the runs, or as before.
LEMMA LandedAt ==
    ASSUME NEW runs, NEW n \in Nat, List(runs, n), NEW k \in 0 .. n, disk' = Landed(runs, k),
           NEW c
    PROVE  \/ k < n /\ Content(c)' = Torn /\ c \in DOMAIN runs[k + 1].put
           \/ \E i \in 1 .. k : c \in DOMAIN runs[i].put /\ Content(c)' = runs[i].put[c]
           \/ Content(c)' = Content(c) /\ \A i \in 1 .. k : c \notin DOMAIN runs[i].put
<1> DEFINE new == UNION {DOMAIN runs[i].put : i \in 1 .. k}
           torn == IF k < Len(runs) THEN DOMAIN runs[k + 1].put ELSE {}
           pick == CHOOSE i \in 1 .. k : c \in DOMAIN runs[i].put
<1>1. Len(runs) = n
  BY DEF List
<1>2. /\ DOMAIN disk' = DOMAIN disk \cup new \cup torn
      /\ c \in DOMAIN disk' =>
            disk'[c] = IF c \in torn THEN Torn
                       ELSE IF c \in new THEN runs[pick].put[c] ELSE disk[c]
  BY DEF Landed
<1>3. Content(c)' = IF c \in DOMAIN disk' THEN disk'[c] ELSE Old
  BY DEF Content
<1>4. c \in new <=> \E i \in 1 .. k : c \in DOMAIN runs[i].put
  OBVIOUS
<1>5. c \in torn <=> k < n /\ c \in DOMAIN runs[k + 1].put
  BY <1>1
<1> HIDE DEF new, torn
<1>6. CASE c \in torn
  BY <1>2, <1>3, <1>5, <1>6
<1>7. CASE c \notin torn /\ c \in new
  <2>1. pick \in 1 .. k /\ c \in DOMAIN runs[pick].put
    BY <1>4, <1>7
  <2> HIDE DEF pick
  <2>2. Content(c)' = runs[pick].put[c]
    BY <1>2, <1>3, <1>7
  <2> QED
    BY <2>1, <2>2
<1>8. CASE c \notin torn /\ c \notin new
  BY <1>2, <1>3, <1>4, <1>8 DEF Content
<1> QED
  BY <1>6, <1>7, <1>8

\* The requests from q + 1 to p reach the stick, or are runs that were lost unheard.
Lands(q, p) ==
    LET r == Requests(volume, spc) IN
    /\ lost \subseteq lost'
    /\ \A c :
        \/ \E j \in q + 1 .. p :
              /\ c \in DOMAIN r[j].put
              /\ \/ Content(c)' = r[j].put[c]
                 \/ r[j].whole /\ c \in lost' /\ Content(c)' \in {Torn, Content(c)}
        \/ Content(c)' = Content(c) /\ \A j \in q + 1 .. p : c \notin DOMAIN r[j].put

\* The list is the n requests behind the first ones.
Behind(list, first, n) ==
    List(list, n) /\ \A i \in 1 .. n : list[i] = Requests(volume, spc)[first + i]

\* scsi_flush_cache_internal.
LEMMA FlushLands ==
    ASSUME Flush, NEW q \in Nat, NEW p \in Nat, q <= p, Behind(cache, q, p - q),
           \A i \in 1 .. p - q : cache[i].whole
    PROVE  Lands(q, p) /\ cache' = <<>>
<1> DEFINE r == Requests(volume, spc)
           n == p - q
<1>1. n \in Nat /\ n \in 0 .. n
  OBVIOUS
<1>2. List(cache, n) /\ Len(cache) = n /\ DOMAIN cache = 1 .. n
  BY DEF Behind, List
<1>3. \A i \in 1 .. n : q + i \in q + 1 .. p /\ cache[i] = r[q + i] /\ r[q + i].whole
  BY DEF Behind
<1>4. \A j \in q + 1 .. p : j - q \in 1 .. n /\ r[j] = cache[j - q]
  <2> TAKE j \in q + 1 .. p
  <2>1. j - q \in 1 .. n /\ q + (j - q) = j
    OBVIOUS
  <2> QED
    BY <1>3, <2>1
<1> HIDE DEF n, r
<1> DEFINE in(c, j) == c \in DOMAIN r[j].put
           heard(c, j) == Content(c)' = r[j].put[c]
           unheard(c, j) == r[j].whole /\ c \in lost' /\ Content(c)' \in {Torn, Content(c)}
           goal(c) == \/ \E j \in q + 1 .. p : in(c, j) /\ (heard(c, j) \/ unheard(c, j))
                      \/ Content(c)' = Content(c) /\ \A j \in q + 1 .. p : ~in(c, j)
<1>5. lost \subseteq lost' /\ cache' = <<>>
  BY DEF Flush
<1> SUFFICES ASSUME NEW c PROVE goal(c)
  BY <1>5 DEF Lands, r
<1>6. CASE disk' = Landed(cache, Len(cache)) /\ UNCHANGED lost
  <2>1. \/ \E i \in 1 .. n : c \in DOMAIN cache[i].put /\ Content(c)' = cache[i].put[c]
        \/ Content(c)' = Content(c) /\ \A i \in 1 .. n : c \notin DOMAIN cache[i].put
    BY <1>1, <1>2, <1>6, LandedAt
  <2> QED
    BY <1>3, <1>4, <2>1
<1>7. CASE lost' = lost \cup CellsOf(cache)
           /\ (UNCHANGED disk \/ \E k \in 0 .. Len(cache) - 1 : disk' = Landed(cache, k))
  <2>1. (\E i \in 1 .. n : c \in DOMAIN cache[i].put) => c \in lost'
    BY <1>2, <1>7 DEF CellsOf
  <2>0. ASSUME Content(c)' = Content(c) PROVE goal(c)
    <3>1. CASE \A i \in 1 .. n : c \notin DOMAIN cache[i].put
      BY <1>4, <2>0, <3>1
    <3>2. ASSUME NEW i \in 1 .. n, c \in DOMAIN cache[i].put PROVE goal(c)
      <4>1. q + i \in q + 1 .. p /\ in(c, q + i)
        BY <1>3, <3>2
      <4>2. unheard(c, q + i)
        BY <1>3, <2>0, <2>1, <3>2
      <4> HIDE DEF in, heard, unheard
      <4> QED
        BY <4>1, <4>2
    <3> QED
      BY <3>1, <3>2
  <2>2. CASE UNCHANGED disk
    BY <2>0, <2>2 DEF Content
  <2>3. ASSUME NEW k \in 0 .. Len(cache) - 1, disk' = Landed(cache, k) PROVE goal(c)
    <3>1. k \in 0 .. n /\ k < n /\ k + 1 \in 1 .. n
      BY <1>1, <1>2
    <3>2. \/ Content(c)' = Torn /\ c \in DOMAIN cache[k + 1].put
          \/ \E i \in 1 .. k : c \in DOMAIN cache[i].put /\ Content(c)' = cache[i].put[c]
          \/ Content(c)' = Content(c)
      BY <1>1, <1>2, <2>3, <3>1, LandedAt
    <3>3. CASE Content(c)' = Torn /\ c \in DOMAIN cache[k + 1].put
      BY <1>3, <2>1, <3>1, <3>3
    <3>4. ASSUME NEW i \in 1 .. k, c \in DOMAIN cache[i].put, Content(c)' = cache[i].put[c]
          PROVE  goal(c)
      <4>1. i \in 1 .. n
        BY <1>1, <3>1
      <4> QED
        BY <1>3, <3>4, <4>1
    <3>5. CASE Content(c)' = Content(c)
      BY <2>0, <3>5
    <3> QED
      BY <3>2, <3>3, <3>4, <3>5
  <2> QED
    BY <1>7, <2>2, <2>3
<1> QED
  BY <1>6, <1>7 DEF Flush

\* What the first q requests leave on the stick when the first e of them erase:
\* free space is zero and structures are as they should be, or lost unheard, and
\* no boot record of the new file system is there before create.
Written(e, q) ==
    LET r == Requests(volume, spc) IN
    /\ \A j \in 1 .. q : \A c \in DOMAIN r[j].put :
          c.part = "free" => Content(c) = Zero \/ c \in lost
    /\ \A j \in e + 1 .. q : \A c \in DOMAIN r[j].put :
          Content(c) = Want(volume, spc, c) \/ (c.part = "whole" /\ c \in lost)
    /\ q < e => Content(VbrCell("vbr", 0)) \in {Old, Zero, Torn}

\* Requests that land, all of erase or all of create, leave what their kind writes.
LEMMA LandsWritten ==
    ASSUME NEW e, NEW m, Plan(volume, spc, e, m),
           NEW q \in Nat, NEW p \in Nat, NEW x \in q .. p, p <= m, q >= e \/ p <= e,
           Written(e, q), Lands(q, p), UNCHANGED <<volume, spc>>
    PROVE  Written(e, x)'
<1> DEFINE r == Requests(volume, spc)
<1>1. Requests(volume, spc)' = r /\ \A c : Want(volume, spc, c)' = Want(volume, spc, c)
  OBVIOUS
<1>2. /\ e \in Nat /\ m \in Nat
      /\ \A j \in 1 .. e : Erases(r[j])
      /\ \A j \in e + 1 .. m : Creates(volume, spc, r[j])
  BY DEF Plan
<1>3. lost \subseteq lost'
  BY DEF Lands
<1>4. ASSUME NEW c
      PROVE  \/ \E j \in q + 1 .. p :
                   /\ c \in DOMAIN r[j].put
                   /\ \/ Content(c)' = r[j].put[c]
                      \/ r[j].whole /\ c \in lost' /\ Content(c)' \in {Torn, Content(c)}
             \/ Content(c)' = Content(c) /\ \A j \in q + 1 .. p : c \notin DOMAIN r[j].put
  BY DEF Lands
<1>5. /\ \A j \in 1 .. q : \A c \in DOMAIN r[j].put :
            c.part = "free" => Content(c) = Zero \/ c \in lost
      /\ \A j \in e + 1 .. q : \A c \in DOMAIN r[j].put :
            Content(c) = Want(volume, spc, c) \/ (c.part = "whole" /\ c \in lost)
      /\ q < e => Content(VbrCell("vbr", 0)) \in {Old, Zero, Torn}
  BY DEF Written
<1> HIDE DEF r
<1>6. ASSUME NEW j \in 1 .. x, NEW c \in DOMAIN r[j].put, c.part = "free"
      PROVE  Content(c)' = Zero \/ c \in lost'
  <2>1. ASSUME NEW i \in q + 1 .. p, c \in DOMAIN r[i].put, Content(c)' = r[i].put[c]
        PROVE  Content(c)' = Zero
    <3>1. i \in 1 .. e \/ i \in e + 1 .. m
      BY <1>2
    <3> QED
      BY <1>2, <1>6, <2>1, <3>1 DEF Erases, Creates
  <2>2. CASE Content(c)' = Content(c) /\ \A i \in q + 1 .. p : c \notin DOMAIN r[i].put
    <3>1. j \in 1 .. q
      BY <2>2
    <3> QED
      BY <1>3, <1>5, <1>6, <2>2, <3>1
  <2> QED
    BY <1>4, <2>1, <2>2
<1>7. ASSUME NEW j \in e + 1 .. x, NEW c \in DOMAIN r[j].put
      PROVE  Content(c)' = Want(volume, spc, c) \/ (c.part = "whole" /\ c \in lost')
  <2>1. q >= e
    BY <1>2
  <2>2. ASSUME NEW i \in q + 1 .. p, c \in DOMAIN r[i].put
        PROVE  r[i].put[c] = Want(volume, spc, c) /\ (r[i].whole => c.part = "whole")
    <3>1. i \in e + 1 .. m
      BY <1>2, <2>1
    <3> QED
      BY <1>2, <2>2, <3>1 DEF Creates
  <2>3. CASE Content(c)' = Content(c) /\ \A i \in q + 1 .. p : c \notin DOMAIN r[i].put
    <3>1. j \in e + 1 .. q
      BY <1>2, <2>3
    <3> QED
      BY <1>3, <1>5, <2>3, <3>1
  <2> QED
    BY <1>4, <2>2, <2>3
<1>8. ASSUME x < e PROVE Content(VbrCell("vbr", 0))' \in {Old, Zero, Torn}
  <2> DEFINE c == VbrCell("vbr", 0)
  <2>1. q < e /\ p <= e
    BY <1>2, <1>8
  <2>2. Content(c) \in {Old, Zero, Torn}
    BY <1>5, <2>1
  <2> HIDE DEF c
  <2>3. ASSUME NEW i \in q + 1 .. p, c \in DOMAIN r[i].put
        PROVE  r[i].put[c] = Zero
    <3>1. i \in 1 .. e
      BY <1>2, <2>1
    <3> QED
      BY <1>2, <2>3, <3>1 DEF Erases
  <2>4. Content(c)' \in {Old, Zero, Torn}
    BY <1>4, <2>2, <2>3
  <2> QED
    BY <2>4 DEF c, VbrCell, Cell
<1> QED
  BY <1>1, <1>6, <1>7, <1>8 DEF Written, r

-----------------------------------------------------------------------------
(* The invariant of a format.                                               *)

\* Of the m requests, the first q were made of the stick, those up to p are in the
\* cache and the others are to do.  The cache never holds requests of both kinds.
Placed(e, m, q, p) ==
    /\ Plan(volume, spc, e, m)
    /\ q \in Nat /\ p \in Nat /\ q <= p /\ p <= m /\ (q >= e \/ p <= e)
    /\ Behind(cache, q, p - q) /\ \A i \in 1 .. p - q : cache[i].whole
    /\ pc \in {"io", "fsync", "final", "done"}
    /\ pc = "io" => Behind(todo, p, m - p)
    /\ pc = "fsync" => p = m
    /\ pc \in {"final", "done"} /\ result = 0 => q = m
    /\ Written(e, q)

\* No request was made.
Fresh ==
    /\ cache = <<>> /\ Content(VbrCell("vbr", 0)) = Old
    /\ pc = "check" \/ (pc \in {"final", "done"} /\ result = 1)

FormatInv == Fresh \/ \E e, m, q, p \in Nat : Placed(e, m, q, p)

\* The next request is made.
LEMMA AdvanceBehind ==
    ASSUME NEW p \in Nat, NEW m \in Nat, p <= m, EndInv, pc = "io", Behind(todo, p, m - p), Advance
    PROVE  /\ p + 1 \in Nat /\ p + 1 <= m
           /\ Request = Requests(volume, spc)[p + 1]
           /\ (pc' = "io" /\ Behind(todo, p + 1, m - (p + 1))') \/ (pc' = "fsync" /\ p + 1 = m)
           /\ UNCHANGED <<volume, spc, result>>
<1> DEFINE r == Requests(volume, spc)
           n == m - (p + 1)
<1>1. List(todo, m - p) /\ \A i \in 1 .. m - p : todo[i] = r[p + i]
  BY DEF Behind
<1>2. PICK k \in Nat : List(todo, k + 1)
  BY DEF EndInv
<1>3. m - p = k + 1
  BY <1>1, <1>2 DEF List
<1>4. n \in Nat /\ m - p = n + 1 /\ n = k
  BY <1>3
<1>5. UNCHANGED <<volume, spc, result>> /\ todo' = Tail(todo)
  BY DEF Advance
<1>6. r' = r
  BY <1>5
<1>7. Len(todo) = n + 1
  BY <1>1, <1>4 DEF List
<1> HIDE DEF r, n
<1>8. /\ List(Tail(todo), n) /\ Head(todo) = todo[1]
      /\ \A i \in 1 .. n : Tail(todo)[i] = todo[i + 1]
  BY <1>1, <1>4, TailList
<1>9. Request = r[p + 1]
  BY <1>1, <1>4, <1>8 DEF Request
<1>10. ASSUME NEW i \in 1 .. n PROVE todo'[i] = r[(p + 1) + i]
  <2>1. i + 1 \in 1 .. m - p /\ p + (i + 1) = (p + 1) + i
    BY <1>4
  <2> QED
    BY <1>1, <1>5, <1>8, <2>1
<1>11. List(todo', n)
  BY <1>5, <1>8
<1>12. Behind(todo, p + 1, m - (p + 1))'
  BY <1>6, <1>10, <1>11 DEF Behind, n, r
<1>13. pc' = "io" \/ (pc' = "fsync" /\ n = 0)
  BY <1>4, <1>7 DEF Advance
<1> QED
  BY <1>4, <1>5, <1>9, <1>12, <1>13 DEF n, r

\* A run joins the cache.
LEMMA RunPlaced ==
    ASSUME NEW e \in Nat, NEW m \in Nat, NEW q \in Nat, NEW p \in Nat,
           Placed(e, m, q, p), EndInv, WriteRun
    PROVE  Placed(e, m, q, p + 1)'
<1> DEFINE r == Requests(volume, spc)
           n == p - q
<1>1. /\ Plan(volume, spc, e, m) /\ q <= p /\ p <= m /\ (q >= e \/ p <= e)
      /\ Behind(cache, q, n) /\ (\A i \in 1 .. n : cache[i].whole) /\ Written(e, q)
  BY DEF Placed
<1>2. /\ pc = "io" /\ Advance /\ Behind(todo, p, m - p)
      /\ Request.whole /\ (cache = <<>> \/ CanAdd(Request))
      /\ cache' = Append(cache, Request) /\ UNCHANGED <<disk, lost>>
  BY DEF WriteRun, Placed
<1>3. /\ p + 1 \in Nat /\ p + 1 <= m /\ Request = r[p + 1]
      /\ (pc' = "io" /\ Behind(todo, p + 1, m - (p + 1))') \/ (pc' = "fsync" /\ p + 1 = m)
      /\ UNCHANGED <<volume, spc, result>>
  BY <1>1, <1>2, AdvanceBehind
<1>4. n \in Nat /\ (p + 1) - q = n + 1
  BY <1>1
<1>5. List(cache, n) /\ \A i \in 1 .. n : cache[i] = r[q + i]
  BY <1>1 DEF Behind
<1>6. r' = r /\ Plan(volume, spc, e, m)'
  BY <1>1, <1>3
<1>7. q >= e \/ p + 1 <= e
  <2>1. SUFFICES ASSUME q < e, p = e PROVE FALSE
    BY <1>1
  <2>2. n > 0 /\ n \in 1 .. n /\ 1 \in 1 .. n
    BY <1>4, <2>1
  <2>3. cache # <<>> /\ Len(cache) = n
    BY <1>5, <2>2 DEF List
  <2>4. Request.lba = 0
    BY <1>1, <1>3, <2>1 DEF Plan
  <2>5. q + 1 \in 1 .. e /\ q + n = e /\ e \in 1 .. e
    BY <1>4, <2>1
  <2>6. Erases(r[q + 1]) /\ Erases(r[e])
    BY <1>1, <2>5 DEF Plan
  <2>7. cache[1] = r[q + 1] /\ cache[n] = r[e]
    BY <1>5, <2>2, <2>5
  <2>8. /\ cache[1].lba \in Nat /\ cache[n].lba \in Nat
        /\ cache[n].len \in Nat /\ cache[n].len > 0
    BY <2>6, <2>7 DEF Erases
  <2>9. 0 = cache[1].lba + (cache[n].lba + cache[n].len - cache[1].lba)
    BY <1>2, <2>3, <2>4 DEF CanAdd, CachedSectors
  <2> QED
    BY <2>8, <2>9
<1> HIDE DEF r, n
<1>8. List(cache', n + 1) /\ \A i \in 1 .. n + 1 : cache'[i] = r[q + i] /\ cache'[i].whole
  <2>1. PICK S : cache \in Seq(S)
    BY <1>5 DEF List
  <2>2. Len(cache) = n
    BY <1>5 DEF List
  <2> DEFINE T == S \cup {Request}
  <2>3. cache \in Seq(T) /\ Request \in T
    BY <2>1, Widened
  <2> HIDE DEF T
  <2>4. /\ cache' \in Seq(T) /\ Len(cache') = n + 1 /\ cache'[n + 1] = Request
        /\ \A i \in 1 .. n : cache'[i] = cache[i]
    BY <1>2, <1>4, <2>2, <2>3
  <2>5. List(cache', n + 1)
    BY <2>4 DEF List
  <2>6. q + (n + 1) = p + 1
    BY <1>4 DEF n
  <2>7. cache'[n + 1] = r[q + (n + 1)] /\ cache'[n + 1].whole
    BY <1>2, <1>3, <2>4, <2>6 DEF r
  <2>8. \A i \in 1 .. n : cache'[i] = r[q + i] /\ cache'[i].whole
    BY <1>1, <1>5, <2>4 DEF n
  <2>9. \A i \in 1 .. n + 1 : i \in 1 .. n \/ i = n + 1
    BY <1>4
  <2> QED
    BY <2>5, <2>7, <2>8, <2>9
<1>9. Behind(cache, q, (p + 1) - q)' /\ \A i \in 1 .. (p + 1) - q : cache'[i].whole
  BY <1>4, <1>6, <1>8 DEF Behind, n, r
<1>10. Written(e, q)'
  BY <1>1, <1>2, <1>3 DEF Written, Content, VbrCell, Cell
<1>11. q <= p + 1
  BY <1>1
<1> QED
  BY <1>3, <1>6, <1>7, <1>9, <1>10, <1>11 DEF Placed

\* A cache that is empty holds no requests.
LEMMA EmptyBehind ==
    ASSUME NEW n \in Int, NEW q \in Nat, cache = <<>>, Behind(cache, q, n)
    PROVE  n = 0
<1>1. Len(cache) = n
  BY DEF Behind, List
<1> QED
  BY <1>1

\* An emptied cache is behind any request.
LEMMA NothingBehind ==
    ASSUME NEW q \in Nat, cache' = <<>>
    PROVE  Behind(cache, q, q - q)' /\ \A i \in 1 .. q - q : cache'[i].whole
<1>1. List(<<>>, 0)
  BY Short, Zenon
<1>2. List(cache', 0) /\ q - q = 0
  BY <1>1
<1>3. \A i \in 1 .. 0 : cache'[i] = Requests(volume', spc')[q + i]
  OBVIOUS
<1>4. Behind(cache, q, 0)'
  BY <1>2, <1>3, Zenon DEF Behind
<1> QED
  BY <1>2, <1>4

\* The cache is flushed for the next request, or at the end.
LEMMA FlushPlaced ==
    ASSUME NEW e \in Nat, NEW m \in Nat, NEW q \in Nat, NEW p \in Nat,
           Placed(e, m, q, p), Flush, UNCHANGED <<volume, spc, todo, result>>,
           pc' = pc \/ (pc = "final" /\ pc' = "done")
    PROVE  Placed(e, m, p, p)'
<1>1. /\ Plan(volume, spc, e, m) /\ q <= p /\ p <= m /\ (q >= e \/ p <= e)
      /\ Behind(cache, q, p - q) /\ (\A i \in 1 .. p - q : cache[i].whole) /\ Written(e, q)
  BY DEF Placed
<1>2. Lands(q, p) /\ cache' = <<>>
  BY <1>1, FlushLands
<1>3. p \in q .. p
  BY <1>1
<1>4. Written(e, p)'
  BY <1>1, <1>2, <1>3, LandsWritten
<1>5. Plan(volume, spc, e, m)'
  BY <1>1
<1>6. Behind(cache, p, p - p)' /\ \A i \in 1 .. p - p : cache'[i].whole
  BY <1>2, NothingBehind
<1>7. p >= e \/ p <= e
  BY <1>1 DEF Plan
<1>8. /\ pc' \in {"io", "fsync", "final", "done"}
      /\ pc' = "io" => Behind(todo, p, m - p)'
      /\ pc' = "fsync" => p = m
      /\ pc' \in {"final", "done"} /\ result' = 0 => p = m
  BY <1>1 DEF Placed, Behind
<1> QED
  BY <1>1, <1>4, <1>5, <1>6, <1>7, <1>8 DEF Placed

\* A part of a sector is written, or heard to fail.
LEMMA PartPlaced ==
    ASSUME NEW e \in Nat, NEW m \in Nat, NEW q \in Nat, NEW p \in Nat,
           Placed(e, m, q, p), EndInv, WritePart
    PROVE  Placed(e, m, p, p)' \/ Placed(e, m, p + 1, p + 1)'
<1> DEFINE r == Requests(volume, spc)
<1>1. /\ Plan(volume, spc, e, m) /\ q <= p /\ p <= m
      /\ Behind(cache, q, p - q) /\ Written(e, q)
  BY DEF Placed
<1>2. /\ pc = "io" /\ Behind(todo, p, m - p) /\ cache = <<>> /\ cache' = <<>>
      /\ lost' = lost
  BY DEF WritePart, Placed
<1>3. q = p
  <2>1. p - q \in Int
    OBVIOUS
  <2>2. p - q = 0
    BY <1>1, <1>2, <2>1, EmptyBehind
  <2> QED
    BY <2>2
<1>4. Request = r[p + 1] /\ p + 1 \in Nat /\ p + 1 <= m
  <2>1. PICK k \in Nat : List(todo, k + 1)
    BY <1>2 DEF EndInv
  <2>2. List(todo, m - p) /\ \A i \in 1 .. m - p : todo[i] = r[p + i]
    BY <1>2 DEF Behind
  <2>3. m - p = k + 1 /\ 1 \in 1 .. m - p
    BY <2>1, <2>2 DEF List
  <2>4. Head(todo) = todo[1]
    BY <2>1, TailList
  <2> QED
    BY <2>2, <2>3, <2>4 DEF Request
<1>5. e \in Nat /\ (p >= e \/ p + 1 <= e)
  BY <1>1 DEF Plan
<1>6. UNCHANGED <<volume, spc>> /\ Plan(volume, spc, e, m)'
  <2>1. UNCHANGED <<volume, spc>>
    BY DEF WritePart, Advance, Fail
  <2> QED
    BY <1>1, <2>1
<1> HIDE DEF r
<1>7. ASSUME disk' = Landed(<<Request>>, 1) PROVE Lands(p, p + 1)
  <2> DEFINE one == <<Request>>
  <2>1. List(one, 1)
    BY Short, Zenon
  <2>2. one[1] = Request /\ 1 \in 0 .. 1 /\ 1 \in Nat
    OBVIOUS
  <2>3. disk' = Landed(one, 1)
    BY <1>7
  <2> HIDE DEF one
  <2>4. ASSUME NEW c
        PROVE  \/ c \in DOMAIN Request.put /\ Content(c)' = Request.put[c]
               \/ Content(c)' = Content(c) /\ c \notin DOMAIN Request.put
    BY <2>1, <2>2, <2>3, LandedAt
  <2>5. \A j \in p + 1 .. p + 1 : j = p + 1
    OBVIOUS
  <2>6. p + 1 \in p + 1 .. p + 1
    OBVIOUS
  <2> QED
    BY <1>2, <1>4, <2>4, <2>5, <2>6 DEF Lands, r
<1>8. p \in p .. p + 1 /\ p + 1 \in p .. p + 1
  OBVIOUS
<1>9. CASE Fail
  <2>1. Written(e, p)'
    <3>1. CASE disk' = disk
      BY <1>1, <1>2, <1>3, <1>6, <3>1 DEF Written, Content, VbrCell, Cell
    <3>2. CASE disk' = Landed(<<Request>>, 1)
      BY <1>1, <1>3, <1>4, <1>5, <1>6, <1>7, <1>8, <3>2, LandsWritten
    <3> QED
      BY <3>1, <3>2 DEF WritePart, PartFailed, PartDone
  <2>2. pc' = "final" /\ result' = 1
    BY <1>9 DEF Fail
  <2>3. Behind(cache, p, p - p)' /\ \A i \in 1 .. p - p : cache'[i].whole
    BY <1>2, NothingBehind
  <2>4. p <= p /\ (p >= e \/ p <= e)
    BY <1>5
  <2>5. Placed(e, m, p, p)'
    BY <1>1, <1>6, <2>1, <2>2, <2>3, <2>4 DEF Placed
  <2> QED
    BY <2>5
<1>10. CASE PartDone /\ Advance
  <2>1. /\ (pc' = "io" /\ Behind(todo, p + 1, m - (p + 1))') \/ (pc' = "fsync" /\ p + 1 = m)
        /\ UNCHANGED <<volume, spc, result>>
    BY <1>1, <1>2, <1>10, AdvanceBehind DEF Plan
  <2>2. Written(e, p + 1)'
    BY <1>1, <1>3, <1>4, <1>5, <1>6, <1>7, <1>8, <1>10, LandsWritten DEF PartDone
  <2>3. /\ Behind(cache, p + 1, (p + 1) - (p + 1))'
        /\ \A i \in 1 .. (p + 1) - (p + 1) : cache'[i].whole
    BY <1>2, <1>4, NothingBehind
  <2>4. p + 1 <= p + 1 /\ (p + 1 >= e \/ p + 1 <= e)
    BY <1>5
  <2>5. Placed(e, m, p + 1, p + 1)'
    BY <1>4, <1>6, <2>1, <2>2, <2>3, <2>4 DEF Placed
  <2> QED
    BY <2>5
<1> QED
  BY <1>9, <1>10 DEF WritePart

\* A format begins.
LEMMA CheckPlaced ==
    ASSUME LayoutInv, Fresh, CheckSize
    PROVE  FormatInv'
<1>1. /\ cache' = <<>> /\ Content(VbrCell("vbr", 0))' = Old
      /\ UNCHANGED <<volume, spc, disk, cache, lost>>
  BY DEF Fresh, CheckSize, Fail, stickVars, Content, VbrCell, Cell
<1>2. CASE Fail
  BY <1>1, <1>2 DEF Fail, Fresh, FormatInv
<1>3. CASE Fits(volume, spc) /\ pc' = "io" /\ todo' = Requests(volume, spc)
  <2>1. PICK e \in Nat, m \in Nat : Plan(volume, spc, e, m)
    BY <1>3, PlanExists DEF LayoutInv
  <2>2. Plan(volume, spc, e, m)' /\ Requests(volume', spc') = todo'
    BY <1>1, <1>3, <2>1
  <2>3. List(todo', m) /\ m - 0 = m
    BY <1>3, <2>1 DEF Plan
  <2>4. Behind(todo, 0, m - 0)'
    <3>1. \A i \in 1 .. m : 0 + i = i
      OBVIOUS
    <3> QED
      BY <2>2, <2>3, <3>1 DEF Behind
  <2>5. Behind(cache, 0, 0 - 0)' /\ \A i \in 1 .. 0 - 0 : cache'[i].whole
    <3>1. 0 \in Nat
      OBVIOUS
    <3> QED
      BY <1>1, <3>1, NothingBehind
  <2>6. Written(e, 0)'
    <3>1. \A j \in 1 .. 0 : FALSE
      OBVIOUS
    <3>2. \A j \in e + 1 .. 0 : FALSE
      OBVIOUS
    <3> QED
      BY <1>1, <3>1, <3>2 DEF Written
  <2>7. 0 \in Nat /\ 0 <= 0 /\ 0 <= m /\ 0 <= e
    OBVIOUS
  <2>8. Placed(e, m, 0, 0)'
    BY <1>3, <2>2, <2>4, <2>5, <2>6, <2>7 DEF Placed
  <2> QED
    BY <2>7, <2>8 DEF FormatInv
<1> QED
  BY <1>2, <1>3 DEF CheckSize

\* Before any request there is nothing to lose.
LEMMA FreshFlush ==
    ASSUME Fresh, Flush
    PROVE  cache' = <<>> /\ Content(VbrCell("vbr", 0))' = Old
<1> DEFINE c == VbrCell("vbr", 0)
<1>1. cache = <<>> /\ Content(c) = Old
  BY DEF Fresh
<1>2. cache' = <<>> /\ disk' = Landed(cache, Len(cache))
  BY <1>1 DEF Flush
<1>3. List(cache, 0) /\ Len(cache) = 0 /\ 0 \in Nat /\ 0 \in 0 .. 0
  <2>1. List(<<>>, 0)
    BY Short, Zenon
  <2> QED
    BY <1>1, <2>1
<1> HIDE DEF c
<1>4. Content(c)' = Content(c)
  BY <1>2, <1>3, LandedAt
<1>5. Content(c)' = Old
  BY <1>1, <1>4
<1> QED
  BY <1>2, <1>5 DEF c, VbrCell, Cell

\* A step that only stops or moves on.
LEMMA KeepsPlaced ==
    ASSUME NEW e \in Nat, NEW m \in Nat, NEW q \in Nat, NEW p \in Nat,
           Placed(e, m, q, p), UNCHANGED <<volume, spc, todo, disk, cache, lost>>,
           \/ pc' = pc /\ result' = result
           \/ pc' = "final" /\ result' = 1
           \/ pc = "fsync" /\ pc' = "final" /\ q = m
    PROVE  Placed(e, m, q, p)'
<1>1. /\ Plan(volume, spc, e, m)'
      /\ Behind(cache, q, p - q)' /\ \A i \in 1 .. p - q : cache'[i].whole
  BY DEF Placed, Behind
<1>2. Written(e, q)'
  BY DEF Placed, Written, Content, VbrCell, Cell
<1>3. /\ pc' \in {"io", "fsync", "final", "done"}
      /\ pc' = "io" => Behind(todo, p, m - p)'
      /\ pc' = "fsync" => p = m
      /\ pc' \in {"final", "done"} /\ result' = 0 => q = m
  BY DEF Placed, Behind
<1> QED
  BY <1>1, <1>2, <1>3 DEF Placed

\* Every step leaves the requests where they belong.
LEMMA NextFormat == LayoutInv /\ EndInv /\ FormatInv /\ [Next]_vars => FormatInv'
<1> SUFFICES ASSUME LayoutInv, EndInv, FormatInv, [Next]_vars PROVE FormatInv'
  OBVIOUS
<1>1. CASE Fresh
  <2>1. CASE CheckSize
    BY <1>1, <2>1, CheckPlaced
  <2>2. CASE FinalSync
    BY <1>1, <2>2, FreshFlush DEF FinalSync, Fresh, FormatInv
  <2>3. CASE Unplug
    BY <1>1, <2>3 DEF Unplug, Fresh, FormatInv, stickVars, Content, VbrCell, Cell
  <2>4. CASE UNCHANGED vars
    BY <1>1, <2>4 DEF vars, Fresh, FormatInv, stickVars, Content, VbrCell, Cell
  <2>5. CASE NoMemory \/ FlushFirst \/ WriteRun \/ WritePart \/ Fsync
    BY <1>1, <2>5 DEF Fresh, NoMemory, FlushFirst, WriteRun, WritePart, Fsync
  <2> QED
    BY <2>1, <2>2, <2>3, <2>4, <2>5 DEF Next, Engine
<1>2. ASSUME NEW e \in Nat, NEW m \in Nat, NEW q \in Nat, NEW p \in Nat, Placed(e, m, q, p)
      PROVE  FormatInv'
  <2>0. p + 1 \in Nat /\ pc # "check"
    BY <1>2 DEF Placed
  <2>1. CASE FlushFirst
    <3>1. Placed(e, m, p, p)'
      BY <1>2, <2>1, FlushPlaced DEF FlushFirst
    <3> QED
      BY <3>1 DEF FormatInv
  <2>2. CASE FinalSync
    <3>1. Placed(e, m, p, p)'
      BY <1>2, <2>2, FlushPlaced DEF FinalSync
    <3> QED
      BY <3>1 DEF FormatInv
  <2>3. CASE WriteRun
    <3>1. Placed(e, m, q, p + 1)'
      BY <1>2, <2>3, RunPlaced
    <3> QED
      BY <2>0, <3>1 DEF FormatInv
  <2>4. CASE WritePart
    <3>1. Placed(e, m, p, p)' \/ Placed(e, m, p + 1, p + 1)'
      BY <1>2, <2>4, PartPlaced
    <3> QED
      BY <2>0, <3>1 DEF FormatInv
  <2>5. CASE NoMemory \/ Unplug \/ UNCHANGED vars
    <3>1. /\ UNCHANGED <<volume, spc, todo, disk, cache, lost>>
          /\ (pc' = pc /\ result' = result) \/ (pc' = "final" /\ result' = 1)
      BY <2>5 DEF NoMemory, Unplug, vars, stickVars, Fail
    <3>2. Placed(e, m, q, p)'
      BY <1>2, <3>1, KeepsPlaced
    <3> QED
      BY <3>2 DEF FormatInv
  <2>6. CASE Fsync
    <3>1. /\ UNCHANGED <<volume, spc, todo, disk, cache, lost>>
          /\ pc = "fsync" /\ pc' = "final" /\ cache = <<>>
      BY <2>6 DEF Fsync, stickVars, EndInv
    <3>2. p = m /\ Behind(cache, q, p - q) /\ p - q \in Int
      BY <1>2, <3>1 DEF Placed
    <3>3. q = m
      <4>1. p - q = 0
        BY <3>1, <3>2, EmptyBehind
      <4> QED
        BY <3>2, <4>1
    <3>4. Placed(e, m, q, p)'
      BY <1>2, <3>1, <3>3, KeepsPlaced
    <3> QED
      BY <3>4 DEF FormatInv
  <2>7. CASE CheckSize
    BY <2>0, <2>7 DEF CheckSize
  <2> QED
    BY <2>1, <2>2, <2>3, <2>4, <2>5, <2>6, <2>7 DEF Next, Engine
<1> QED
  BY <1>1, <1>2 DEF FormatInv

\* Whatever fails and whenever the stick is pulled, it holds what the requests made
\* of it leave there.
THEOREM FormatInvariance == Spec => [](LayoutInv /\ EndInv /\ FormatInv)
<1>1. Init => EndInv
  BY DEF Init, EndInv
<1>2. Init => FormatInv
  BY DEF Init, FormatInv, Fresh, Content
<1> QED
  BY <1>1, <1>2, NextEnd, NextFormat, LayoutInvInit, LayoutInvNext, PTL DEF Spec

\* For every volume, a stick pulled out during mkfs (mkexfat.c) has no new boot
\* record in front of an old file system (ErasedBeforeBoot).
THEOREM AlwaysErasedBeforeBoot == Spec => []ErasedBeforeBoot
<1>1. FormatInv => ErasedBeforeBoot
  <2> SUFFICES ASSUME FormatInv, Content(VbrCell("vbr", 0)) = Is(InitSb(volume, spc).root),
                      NEW c \in FreeCells(volume, spc)
               PROVE  Content(c) = Zero \/ c \in lost
    BY DEF ErasedBeforeBoot
  <2>1. Content(VbrCell("vbr", 0)) \notin {Old, Zero, Torn}
    BY DEF Is, Old, Zero, Torn
  <2>2. PICK e \in Nat, m \in Nat, q \in Nat, p \in Nat : Placed(e, m, q, p)
    BY <2>1 DEF FormatInv, Fresh
  <2>3. Plan(volume, spc, e, m) /\ Written(e, q)
    BY <2>2 DEF Placed
  <2>4. q >= e
    BY <2>1, <2>3 DEF Written
  <2>5. c \in CellsOf(Erase(volume, spc)) /\ c.part = "free"
    BY DEF FreeCells
  <2>6. PICK j \in 1 .. e : c \in DOMAIN Requests(volume, spc)[j].put
    BY <2>3, <2>5 DEF Plan
  <2>7. j \in 1 .. q
    BY <2>4
  <2> QED
    BY <2>3, <2>5, <2>6, <2>7 DEF Written
<1> QED
  BY <1>1, FormatInvariance, PTL

-----------------------------------------------------------------------------
(* What a formatted stick says of itself.                                   *)

\* Clusters of the objects, from their sectors and from their sizes.
Places(v, s) ==
    LET a == ClustersOf(CbmBytes(v, s), s)
        b == ClustersOf(UctBytes, s)
    IN  /\ a \in Nat /\ b \in Nat /\ a > 0 /\ b > 0
        /\ ClusterAt(v, s, CbmStart(v, s)) = 2
        /\ (UctStart(v, s) - CbmStart(v, s)) \div s = a
        /\ ClusterAt(v, s, UctStart(v, s)) = 2 + a
        /\ (RootStart(v, s) - UctStart(v, s)) \div s = b
        /\ ClusterAt(v, s, RootStart(v, s)) = 2 + a + b
        /\ ((RootStart(v, s) + s) - RootStart(v, s)) \div s = 1 /\ ClustersOf(512 * s, s) = 1
        /\ (RootStart(v, s) + s - CbmStart(v, s)) \div s = Allocated(v, s)

\* For each cluster size these agree.
LEMMA FitsPlaces ==
    ASSUME NEW v \in Nat, NEW s \in {8, 16, 32, 64, 128}, Fits(v, s)
    PROVE  Places(v, s)
<1>1. CASE s = 8
  BY <1>1, SMTT(60) DEF Places, Fits, CbmStart, UctStart, RootStart, CbmBytes, FatBytes,
     ClustersMax, FatStart, UctBytes, CDiv, RoundUp, DivRoundUp, Allocated, ClustersOf, ClusterAt
<1>2. CASE s = 16
  BY <1>2, SMTT(60) DEF Places, Fits, CbmStart, UctStart, RootStart, CbmBytes, FatBytes,
     ClustersMax, FatStart, UctBytes, CDiv, RoundUp, DivRoundUp, Allocated, ClustersOf, ClusterAt
<1>3. CASE s = 32
  BY <1>3, SMTT(60) DEF Places, Fits, CbmStart, UctStart, RootStart, CbmBytes, FatBytes,
     ClustersMax, FatStart, UctBytes, CDiv, RoundUp, DivRoundUp, Allocated, ClustersOf, ClusterAt
<1>4. CASE s = 64
  BY <1>4, SMTT(60) DEF Places, Fits, CbmStart, UctStart, RootStart, CbmBytes, FatBytes,
     ClustersMax, FatStart, UctBytes, CDiv, RoundUp, DivRoundUp, Allocated, ClustersOf, ClusterAt
<1>5. CASE s = 128
  BY <1>5, SMTT(60) DEF Places, Fits, CbmStart, UctStart, RootStart, CbmBytes, FatBytes,
     ClustersMax, FatStart, UctBytes, CDiv, RoundUp, DivRoundUp, Allocated, ClustersOf, ClusterAt
<1> QED
  BY <1>1, <1>2, <1>3, <1>4, <1>5

\* From entry c on, n entries of the FAT are the chain of an object in cluster c.
Chained(fat, c, n) == \A i \in 1 .. n : fat[c + i] = IF i < n THEN c + i ELSE End

\* Entries and the chain of an object of n clusters behind them.
Extended(r, list, c, bytes, s, n) ==
    ClustersOf(bytes, s) = n /\ r = list \o Chain(c, bytes, s)
Kept(r, list, c) == \A i \in 1 .. c : r[i] = list[i]

\* A chain behind other entries.
LEMMA ChainBehind ==
    ASSUME NEW list, NEW c \in Nat, List(list, c), NEW bytes, NEW s, NEW n \in Nat,
           NEW r, Extended(r, list, c, bytes, s, n)
    PROVE  List(r, c + n) /\ Chained(r, c, n) /\ Kept(r, list, c)
<1>0. ClustersOf(bytes, s) = n /\ r = list \o Chain(c, bytes, s)
  BY DEF Extended
<1> DEFINE chain == Chain(c, bytes, s)
<1>1. \A i \in 1 .. n : chain[i] = IF i < n THEN c + i ELSE End
  BY <1>0 DEF Chain
<1>2. List(chain, n)
  BY <1>0, ChainList
<1> HIDE DEF chain
<1>3. List(r, c + n) /\ Joins(r, list, chain, c, n)
  BY <1>0, <1>2, Joined DEF chain
<1> QED
  BY <1>1, <1>3 DEF Joins, Chained, Kept

\* Entries in front of a list keep their chains.
LEMMA ChainKept ==
    ASSUME NEW fat, NEW more, NEW k \in Nat, Kept(more, fat, k),
           NEW c \in Nat, NEW n \in Nat, c + n <= k, Chained(fat, c, n)
    PROVE  Chained(more, c, n)
<1>1. \A i \in 1 .. n : c + i \in 1 .. k
  OBVIOUS
<1> QED
  BY <1>1 DEF Chained, Kept

\* The FAT is three chains behind two entries.
LEMMA FatChains ==
    ASSUME NEW v \in Nat, NEW s \in {8, 16, 32, 64, 128}, Fits(v, s),
           NEW a, NEW b, a = ClustersOf(CbmBytes(v, s), s), b = ClustersOf(UctBytes, s)
    PROVE  /\ Len(FatEntries(v, s)) = 2 + a + b + 1
           /\ Chained(FatEntries(v, s), 2, a) /\ Chained(FatEntries(v, s), 2 + a, b)
           /\ Chained(FatEntries(v, s), 2 + a + b, 1)
<1> DEFINE f0 == <<End, End>>
           f1 == f0 \o Chain(2, CbmBytes(v, s), s)
           f2 == f1 \o Chain(2 + a, UctBytes, s)
           f3 == f2 \o Chain(2 + a + b, 512 * s, s)
<1>1. a \in Nat /\ b \in Nat /\ ClustersOf(512 * s, s) = 1
  BY FitsPlaces DEF Places
<1>2. FatEntries(v, s) = f3
  BY DEF FatEntries
<1>3. List(f0, 2)
  BY Pair, Zenon
<1>4. 2 \in Nat /\ 2 + a \in Nat /\ 2 + a + b \in Nat /\ 1 \in Nat
  BY <1>1
<1>5. /\ Extended(f1, f0, 2, CbmBytes(v, s), s, a)
      /\ Extended(f2, f1, 2 + a, UctBytes, s, b)
      /\ Extended(f3, f2, 2 + a + b, 512 * s, s, 1)
  BY <1>1 DEF Extended
<1> HIDE DEF f0, f1, f2, f3
<1>6. List(f1, 2 + a) /\ Chained(f1, 2, a)
  BY <1>1, <1>3, <1>4, <1>5, ChainBehind, SMTT(20)
<1>7. List(f2, 2 + a + b) /\ Chained(f2, 2 + a, b) /\ Kept(f2, f1, 2 + a)
  BY <1>1, <1>4, <1>5, <1>6, ChainBehind, SMTT(20)
<1>8. /\ List(f3, 2 + a + b + 1) /\ Chained(f3, 2 + a + b, 1)
      /\ Kept(f3, f2, 2 + a + b)
  BY <1>1, <1>4, <1>5, <1>7, ChainBehind, SMTT(20)
<1>9. 2 + a <= 2 + a /\ 2 + a <= 2 + a + b /\ 2 + a + b <= 2 + a + b
  BY <1>1
<1>10. Chained(f2, 2, a)
  BY <1>1, <1>4, <1>6, <1>9, <1>7, ChainKept, SMTT(20)
<1>11. Chained(f3, 2, a) /\ Chained(f3, 2 + a, b)
  BY <1>1, <1>4, <1>8, <1>9, <1>10, <1>7, ChainKept, SMTT(20)
<1>12. Len(f3) = 2 + a + b + 1
  BY <1>8 DEF List
<1> QED
  BY <1>2, <1>8, <1>11, <1>12

\* A cell of each entry of the FAT is written.
LEMMA FatCells ==
    ASSUME NEW v \in Nat, NEW s \in {8, 16, 32, 64, 128}, Fits(v, s),
           NEW k \in 0 .. Len(FatEntries(v, s)) - 1
    PROVE  FatCell(k) \in CellsOf(Create(v, s))
<1> DEFINE f == FatWrite(v, s)
           fat == FatEntries(v, s)
           at(i) == FatStart + (i - 1) \div 128
           c(i) == Cell("fat", "entry", at(i), i - 1)
<1>0. Len(fat) \in Nat
  BY FatEntriesList DEF IsList, List
<1>1. k + 1 \in 1 .. Len(fat) /\ (k + 1) - 1 = k
  BY <1>0
<1>2. f = [i \in 1 .. Len(fat) |-> Part(at(i), Only(c(i), Is(fat[i])))]
  BY DEF FatWrite
<1>3. FatCell(k) = c(k + 1)
  BY <1>1 DEF FatCell
<1> HIDE DEF c, f, at, fat
<1>4. f[k + 1] = Part(at(k + 1), Only(c(k + 1), Is(fat[k + 1]))) /\ DOMAIN f = 1 .. Len(fat)
  BY <1>1, <1>2
<1>5. DOMAIN f[k + 1].put = {c(k + 1)}
  BY <1>4 DEF Part, Only
<1>6. FatCell(k) \in CellsOf(f)
  BY <1>1, <1>3, <1>4, <1>5 DEF CellsOf
<1> QED
  BY <1>6, CreateCreates DEF f

\* The entries that name bitmap and upcase table are written.
LEMMA DirCells ==
    ASSUME NEW v \in Nat, NEW s \in {8, 16, 32, 64, 128}, Fits(v, s), NEW n \in {1, 2}
    PROVE  Cell("rootdir", "entry", RootStart(v, s), n) \in CellsOf(Create(v, s))
<1> DEFINE at == RootStart(v, s)
           last == ClusterAt(v, s, UctStart(v, s))
           c(i) == Cell("rootdir", "entry", at, i)
           entry(i, to) == Part(at, Only(c(i), Is(to)))
           x == entry(0, 0)
           y == entry(1, 2)
           z == entry(2, last)
           f == <<x, y, z>>
<1>1. RootdirWrite(v, s) = f
  BY DEF RootdirWrite
<1>2. DOMAIN y.put = {c(1)} /\ DOMAIN z.put = {c(2)}
  BY DEF Part, Only
<1> HIDE DEF x, y, z
<1>3. f[2] = y /\ f[3] = z /\ DOMAIN f = 1 .. 3 /\ 2 \in 1 .. 3 /\ 3 \in 1 .. 3
  OBVIOUS
<1> HIDE DEF f, c
<1>4. c(1) \in CellsOf(f) /\ c(2) \in CellsOf(f)
  BY <1>2, <1>3 DEF CellsOf
<1>5. c(n) \in CellsOf(f)
  BY <1>4
<1> QED
  BY <1>1, <1>5, CreateCreates DEF c

\* All cells of an object that is one value are of that object.
LEMMA StoredCells ==
    ASSUME NEW of, NEW sec \in Int, NEW bytes \in Nat, NEW value,
           NEW c \in CellsOf(Stored(of, sec, bytes, value))
    PROVE  c.of = of
<1> DEFINE at == sec + bytes \div 512
           run == Run(sec, bytes \div 512, Only(Cell(of, "whole", sec, 0), value))
           rest == Part(at, Only(Cell(of, "rest", at, 0), value))
           a == IF bytes >= 512 THEN <<run>> ELSE <<>>
           b == IF bytes % 512 > 0 THEN <<rest>> ELSE <<>>
<1>1. Stored(of, sec, bytes, value) = a \o b
  BY DEF Stored
<1>2. \A x \in DOMAIN run.put : x.of = of
  BY DEF Run, Only, Cell
<1>3. \A x \in DOMAIN rest.put : x.of = of
  BY DEF Part, Only, Cell
<1> HIDE DEF run, rest
<1>4. IsList(<<>>) /\ IsList(<<run>>) /\ IsList(<<rest>>)
  BY Short DEF IsList
<1>5. \A x \in CellsOf(<<>>) : x.of = of
  BY DEF CellsOf
<1>6. \A x \in CellsOf(<<run>>) : x.of = of
  BY <1>2 DEF CellsOf
<1>7. \A x \in CellsOf(<<rest>>) : x.of = of
  BY <1>3 DEF CellsOf
<1>8. /\ IsList(a) /\ IsList(b)
      /\ \A x \in CellsOf(a) : x.of = of
      /\ \A x \in CellsOf(b) : x.of = of
  BY <1>4, <1>5, <1>6, <1>7
<1> HIDE DEF a, b
<1>9. CellsOf(a \o b) = CellsOf(a) \cup CellsOf(b)
  BY <1>8, JoinedCells
<1> QED
  BY <1>1, <1>8, <1>9

\* A FAT on the stick leads along a chain of its entries.
LEMMA ChainLeads ==
    ASSUME NEW fat, NEW k \in Nat,
           \A x \in 0 .. k - 1 : Content(FatCell(x)) = Is(fat[x + 1]),
           NEW c \in Nat, NEW n \in Nat, n > 0, c + n <= k, Chained(fat, c, n)
    PROVE  Leads(c, n)
<1>1. ASSUME NEW i \in 0 .. n - 2 PROVE Content(FatCell(c + i)) = Is(c + i + 1)
  <2>1. /\ c + i \in 0 .. k - 1 /\ i + 1 \in 1 .. n /\ i + 1 < n
        /\ (c + i) + 1 = c + (i + 1)
    OBVIOUS
  <2>2. fat[c + (i + 1)] = c + (i + 1)
    BY <2>1 DEF Chained
  <2>3. Content(FatCell(c + i)) = Is(fat[(c + i) + 1])
    BY <2>1
  <2> QED
    BY <2>1, <2>2, <2>3
<1>2. Content(FatCell(c + n - 1)) = Is(End)
  <2>1. /\ c + n - 1 \in 0 .. k - 1 /\ n \in 1 .. n /\ ~(n < n)
        /\ (c + n - 1) + 1 = c + n
    OBVIOUS
  <2>2. fat[c + n] = End
    BY <2>1 DEF Chained
  <2>3. Content(FatCell(c + n - 1)) = Is(fat[(c + n - 1) + 1])
    BY <2>1
  <2> QED
    BY <2>1, <2>2, <2>3
<1> QED
  BY <1>1, <1>2 DEF Leads

\* When all requests were made the stick links its structures.
LEMMA WrittenLinked ==
    ASSUME LayoutInv, NEW e, NEW m, Plan(volume, spc, e, m), Written(e, m)
    PROVE  LET v == volume s == spc IN
           /\ LeadsFrom(CbmStart(v, s), UctStart(v, s))
           /\ LeadsFrom(UctStart(v, s), RootStart(v, s))
           /\ LeadsFrom(RootStart(v, s), RootStart(v, s) + s)
           /\ Content(DirCell(1)) = Is(ClusterAt(v, s, CbmStart(v, s)))
           /\ Content(DirCell(2)) = Is(ClusterAt(v, s, UctStart(v, s)))
           /\ \A c \in BitCells :
                 \/ Content(c) = Is((RootStart(v, s) + s - CbmStart(v, s)) \div s)
                 \/ c.part = "whole" /\ c \in lost
<1> DEFINE v == volume
           s == spc
           a == ClustersOf(CbmBytes(v, s), s)
           b == ClustersOf(UctBytes, s)
           fat == FatEntries(v, s)
           k == 2 + a + b + 1
<1>1. v \in Nat /\ s \in {8, 16, 32, 64, 128} /\ Fits(v, s)
  BY DEF LayoutInv, Plan
<1>2. ASSUME NEW c \in CellsOf(Create(v, s))
      PROVE  Content(c) = Want(v, s, c) \/ (c.part = "whole" /\ c \in lost)
  <2>1. PICK j \in e + 1 .. m : c \in DOMAIN Requests(v, s)[j].put
    BY <1>2 DEF Plan
  <2> QED
    BY <2>1 DEF Written
<1>3. Places(v, s)
  BY <1>1, FitsPlaces
<1>4. /\ Len(fat) = k /\ Chained(fat, 2, a) /\ Chained(fat, 2 + a, b)
      /\ Chained(fat, 2 + a + b, 1)
  BY <1>1, FatChains
<1>5. /\ a \in Nat /\ b \in Nat /\ a > 0 /\ b > 0
      /\ ClusterAt(v, s, CbmStart(v, s)) = 2
      /\ (UctStart(v, s) - CbmStart(v, s)) \div s = a
      /\ ClusterAt(v, s, UctStart(v, s)) = 2 + a
      /\ (RootStart(v, s) - UctStart(v, s)) \div s = b
      /\ ClusterAt(v, s, RootStart(v, s)) = 2 + a + b
      /\ ((RootStart(v, s) + s) - RootStart(v, s)) \div s = 1
      /\ (RootStart(v, s) + s - CbmStart(v, s)) \div s = Allocated(v, s)
  BY <1>3 DEF Places
<1>6. ASSUME NEW x \in 0 .. k - 1 PROVE Content(FatCell(x)) = Is(fat[x + 1])
  <2>1. FatCell(x) \in CellsOf(Create(v, s))
    BY <1>1, <1>4, FatCells
  <2>2. FatCell(x).part = "entry" /\ FatCell(x).of = "fat" /\ FatCell(x).n = x
    BY DEF FatCell, Cell
  <2>3. Want(v, s, FatCell(x)) = Is(fat[x + 1])
    BY <2>2 DEF Want
  <2> QED
    BY <1>2, <2>1, <2>2, <2>3
<1> HIDE DEF a, b, fat
<1>7. /\ k \in Nat /\ 2 \in Nat /\ 2 + a \in Nat /\ 2 + a + b \in Nat /\ 1 \in Nat /\ 1 > 0
      /\ 2 + a <= k /\ 2 + a + b <= k /\ 2 + a + b + 1 <= k
  BY <1>5
<1> HIDE DEF k
<1>8. Leads(2, a) /\ Leads(2 + a, b) /\ Leads(2 + a + b, 1)
  BY <1>4, <1>5, <1>6, <1>7, ChainLeads
<1>9. /\ LeadsFrom(CbmStart(v, s), UctStart(v, s))
      /\ LeadsFrom(UctStart(v, s), RootStart(v, s))
      /\ LeadsFrom(RootStart(v, s), RootStart(v, s) + s)
  <2>1. LeadsFrom(CbmStart(v, s), UctStart(v, s))
    BY <1>5, <1>8, Zenon DEF LeadsFrom
  <2>2. LeadsFrom(UctStart(v, s), RootStart(v, s))
    BY <1>5, <1>8, Zenon DEF LeadsFrom
  <2>3. LeadsFrom(RootStart(v, s), RootStart(v, s) + s)
    BY <1>5, <1>8, Zenon DEF LeadsFrom
  <2> QED
    BY <2>1, <2>2, <2>3
<1>10. ASSUME NEW n \in {1, 2}
       PROVE  Content(DirCell(n)) = Is(<<0, 2, ClusterAt(v, s, UctStart(v, s))>>[n + 1])
  <2>1. DirCell(n) \in CellsOf(Create(v, s))
    BY <1>1, DirCells DEF DirCell
  <2>2. DirCell(n).part = "entry" /\ DirCell(n).of = "rootdir" /\ DirCell(n).n = n
    BY DEF DirCell, Cell
  <2>3. Want(v, s, DirCell(n)) = Is(<<0, 2, ClusterAt(v, s, UctStart(v, s))>>[n + 1])
    BY <2>2 DEF Want
  <2> QED
    BY <1>2, <2>1, <2>2, <2>3
<1>11. /\ Content(DirCell(1)) = Is(ClusterAt(v, s, CbmStart(v, s)))
       /\ Content(DirCell(2)) = Is(ClusterAt(v, s, UctStart(v, s)))
  <2> DEFINE last == ClusterAt(v, s, UctStart(v, s))
  <2>1. /\ Content(DirCell(1)) = Is(<<0, 2, last>>[1 + 1])
        /\ Content(DirCell(2)) = Is(<<0, 2, last>>[2 + 1])
    BY <1>10
  <2> HIDE DEF last
  <2>2. <<0, 2, last>>[1 + 1] = 2 /\ <<0, 2, last>>[2 + 1] = last
    OBVIOUS
  <2> QED
    BY <1>5, <2>1, <2>2 DEF last
<1>12. ASSUME NEW c \in BitCells
       PROVE  \/ Content(c) = Is((RootStart(v, s) + s - CbmStart(v, s)) \div s)
              \/ c.part = "whole" /\ c \in lost
  <2>1. c \in CellsOf(Create(v, s))
    BY <1>1, CreateCreates DEF BitCells
  <2>2. CbmStart(v, s) \in Int /\ DivRoundUp(Allocated(v, s), 8) \in Nat
    BY <1>1, Counts DEF DivRoundUp
  <2>3. c.of = "cbm"
    BY <2>2, StoredCells DEF BitCells, CbmWrite
  <2>4. Want(v, s, c) = Is(Allocated(v, s))
    BY <2>3 DEF Want
  <2> QED
    BY <1>2, <1>5, <2>1, <2>4
<1> QED
  BY <1>9, <1>11, <1>12

\* For every volume and every failing command, a format of mkfs (mkexfat.c) that
\* reports success has linked FAT, bitmap and directory (SuccessMeansLinked).
THEOREM SuccessAlwaysLinked == Spec => []SuccessMeansLinked
<1>1. LayoutInv /\ FormatInv => SuccessMeansLinked
  <2> SUFFICES ASSUME LayoutInv, FormatInv, pc = "done", result = 0 PROVE SuccessMeansLinked
    BY DEF SuccessMeansLinked
  <2>1. PICK e \in Nat, m \in Nat, q \in Nat, p \in Nat : Placed(e, m, q, p)
    BY DEF FormatInv, Fresh
  <2>2. Plan(volume, spc, e, m) /\ Written(e, m)
    BY <2>1 DEF Placed
  <2> QED
    BY <2>2, WrittenLinked DEF SuccessMeansLinked
<1> QED
  BY <1>1, FormatInvariance, PTL

=============================================================================
