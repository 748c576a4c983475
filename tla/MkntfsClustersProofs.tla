------------------------ MODULE MkntfsClustersProofs ------------------------
(***************************************************************************)
(* What mkntfs gives away and what it marks, for every size of partition   *)
(* of 1 MB and more, every cluster size and every sequence of faults.      *)
(***************************************************************************)
EXTENDS MkntfsClusters, TLAPS, SequenceTheorems, FiniteSetTheorems, WellFoundedInduction

RunSet == [lcn : Nat, length : Nat]

\* The clusters of one run, and those of a list of runs.
ClustersOf(run) == run.lcn .. End(run) - 1
Covered(list) == UNION {ClustersOf(list[i]) : i \in 1 .. Len(list)}

\* The runs of g_allocation: none is empty, each ends before the next begins.
Sorted(list) ==
    /\ \A i \in 1 .. Len(list) : list[i].length > 0
    /\ \A i, j \in 1 .. Len(list) : i < j => End(list[i]) <= list[j].lcn

-----------------------------------------------------------------------------
(* The list of allocated runs.                                              *)

\* A set of natural numbers that is not empty has a least one.
LEMMA Least ==
    ASSUME NEW T \in SUBSET Nat, T # {}
    PROVE  \E x \in T : \A y \in T : x <= y
<1>1. \E x \in T : \A y \in T : ~ (<<y, x>> \in OpToRel(<, Nat))
    BY WFMin, NatLessThanWellFounded
<1>2. PICK x \in T : \A y \in T : ~ (<<y, x>> \in OpToRel(<, Nat))
    BY <1>1
<1>3. ASSUME NEW y \in T PROVE x <= y
    <2>1. ~ (y < x)
        BY <1>2 DEF OpToRel
    <2> QED BY <2>1
<1> QED BY <1>3

\* What a run is made of.
LEMMA RunFields ==
    ASSUME NEW run \in RunSet
    PROVE  /\ run.lcn \in Nat /\ run.length \in Nat
           /\ End(run) \in Nat /\ End(run) = run.lcn + run.length
           /\ \A c : c \in ClustersOf(run) <=> c \in Nat /\ run.lcn <= c /\ c < End(run)
<1>1. run.lcn \in Nat /\ run.length \in Nat
    BY DEF RunSet
<1>2. End(run) = run.lcn + run.length /\ End(run) \in Nat
    BY <1>1 DEF End
<1> QED BY <1>1, <1>2 DEF ClustersOf

\* A new run.
LEMMA NewRun ==
    ASSUME NEW lcn \in Nat, NEW length \in Nat
    PROVE  /\ Run(lcn, length) \in RunSet
           /\ Run(lcn, length).lcn = lcn /\ Run(lcn, length).length = length
           /\ End(Run(lcn, length)) = lcn + length
BY DEF Run, RunSet, End

\* The elements of a list of runs.
LEMMA ListRuns ==
    ASSUME NEW list \in Seq(RunSet)
    PROVE  /\ Len(list) \in Nat /\ \A i \in 1 .. Len(list) : list[i] \in RunSet
           /\ \A c : c \in Covered(list) <=> \E i \in 1 .. Len(list) : c \in ClustersOf(list[i])
           /\ Covered(list) \subseteq Nat
<1>1. Len(list) \in Nat /\ \A i \in 1 .. Len(list) : list[i] \in RunSet
    BY ElementOfSeq, LenProperties
<1>2. \A c : c \in Covered(list) <=> \E i \in 1 .. Len(list) : c \in ClustersOf(list[i])
    BY DEF Covered
<1>3. \A i \in 1 .. Len(list) : ClustersOf(list[i]) \subseteq Nat
    BY <1>1, RunFields
<1> QED BY <1>1, <1>2, <1>3

\* The search for the place of a cluster in a sorted list.
LEMMA UpToIs ==
    ASSUME NEW list \in Seq(RunSet), Sorted(list), NEW lcn \in Nat
    PROVE  /\ UpTo(list, lcn) \in 0 .. Len(list)
           /\ \A i \in 1 .. Len(list) : list[i].lcn <= lcn <=> i <= UpTo(list, lcn)
<1> DEFINE beyond == {i \in 1 .. Len(list) : list[i].lcn > lcn}
           first == CHOOSE i \in beyond : \A j \in beyond : i <= j
<1>0. /\ Len(list) \in Nat
      /\ \A i \in 1 .. Len(list) :
            /\ list[i].lcn \in Nat /\ list[i].length \in Nat
            /\ End(list[i]) = list[i].lcn + list[i].length
    BY ListRuns, RunFields
<1>1. UpTo(list, lcn) = IF beyond = {} THEN Len(list) ELSE first - 1
    BY DEF UpTo
<1>2. CASE beyond = {}
    <2>1. UpTo(list, lcn) = Len(list)
        BY <1>1, <1>2
    <2>2. \A i \in 1 .. Len(list) : list[i].lcn <= lcn
        BY <1>0, <1>2, SMTT(30)
    <2> QED BY <1>0, <2>1, <2>2
<1>3. CASE beyond # {}
    <2>1. \E i \in beyond : \A j \in beyond : i <= j
        <3>1. beyond \in SUBSET Nat
            BY <1>0
        <3> QED BY <1>3, <3>1, Least
    <2>2. first \in beyond /\ \A j \in beyond : first <= j
        BY <2>1
    <2> HIDE DEF first
    <2>3. UpTo(list, lcn) = first - 1 /\ first \in 1 .. Len(list) /\ list[first].lcn > lcn
        BY <1>1, <1>3, <2>2
    <2>4. \A i \in 1 .. Len(list) : i < first => list[i].lcn <= lcn
        BY <1>0, <2>2, <2>3
    <2>5. \A i \in 1 .. Len(list) : i > first => list[first].lcn < list[i].lcn
        <3>1. list[first].length > 0 /\ \A i \in 1 .. Len(list) :
                 i > first => list[first].lcn + list[first].length <= list[i].lcn
            BY <1>0, <2>3 DEF Sorted
        <3> QED BY <1>0, <2>3, <3>1
    <2>6. \A i \in 1 .. Len(list) : list[i].lcn <= lcn <=> i < first
        BY <1>0, <2>3, <2>4, <2>5
    <2> QED BY <1>0, <2>3, <2>6
<1> QED BY <1>2, <1>3

\* bitmap_get_and_set looks at one run only, and yet finds every allocated cluster.
LEMMA BitExact ==
    ASSUME NEW list \in Seq(RunSet), Sorted(list), NEW lcn \in Nat
    PROVE  Bit(list, lcn) <=> lcn \in Covered(list)
<1> DEFINE k == UpTo(list, lcn)
<1>0. /\ Len(list) \in Nat
      /\ \A i \in 1 .. Len(list) :
            /\ list[i].lcn \in Nat /\ End(list[i]) \in Nat
            /\ (lcn \in ClustersOf(list[i]) <=> list[i].lcn <= lcn /\ lcn < End(list[i]))
    BY ListRuns, RunFields
<1>1. k \in 0 .. Len(list) /\ \A i \in 1 .. Len(list) : list[i].lcn <= lcn <=> i <= k
    BY UpToIs
<1>2. Bit(list, lcn) <=> k > 0 /\ End(list[k]) > lcn
    BY DEF Bit
<1> HIDE DEF k
<1>3. ASSUME k > 0, End(list[k]) > lcn PROVE lcn \in Covered(list)
    <2>1. k \in 1 .. Len(list) /\ lcn \in ClustersOf(list[k])
        BY <1>0, <1>1, <1>3
    <2> QED BY <2>1, ListRuns
<1>4. ASSUME lcn \in Covered(list) PROVE k > 0 /\ End(list[k]) > lcn
    <2>1. PICK i \in 1 .. Len(list) : lcn \in ClustersOf(list[i])
        BY <1>4, ListRuns
    <2>2. list[i].lcn <= lcn /\ lcn < End(list[i]) /\ i <= k
        BY <1>0, <1>1, <2>1
    <2>3. i < k => End(list[i]) <= list[k].lcn
        BY <1>0, <1>1 DEF Sorted
    <2>4. k \in 1 .. Len(list) /\ list[k].lcn <= lcn
        BY <1>0, <1>1, <2>2
    <2> QED BY <1>0, <2>2, <2>3, <2>4
<1> QED BY <1>2, <1>3, <1>4
\* new is the list s with the run e put in at place i.
Inserted(new, s, i, e) ==
    /\ new \in Seq(RunSet) /\ Len(new) = Len(s) + 1
    /\ \A j \in 1 .. Len(s) + 1 :
          new[j] = IF j < i THEN s[j] ELSE IF j = i THEN e ELSE s[j - 1]

\* A run put into a list.
LEMMA InsertIs ==
    ASSUME NEW s \in Seq(RunSet), NEW i \in 1 .. Len(s) + 1, NEW e \in RunSet
    PROVE  Inserted(InsertAt(s, i, e), s, i, e)
<1> DEFINE a == SubSeq(s, 1, i - 1)
           b == SubSeq(s, i, Len(s))
           ae == Append(a, e)
<1>0. Len(s) \in Nat /\ i \in Nat /\ \A j \in 1 .. Len(s) : s[j] \in RunSet
    BY LenProperties, ElementOfSeq
<1>1. /\ a \in Seq(RunSet) /\ Len(a) = i - 1 /\ \A j \in 1 .. i - 1 : a[j] = s[j]
    BY <1>0, SubSeqProperties
<1>2. b \in Seq(RunSet) /\ Len(b) = Len(s) - i + 1 /\ \A j \in 1 .. Len(s) - i + 1 : b[j] = s[i + j - 1]
    BY <1>0, SubSeqProperties
<1> HIDE DEF a, b
<1>3. /\ ae \in Seq(RunSet) /\ Len(ae) = i /\ ae[i] = e
      /\ \A j \in 1 .. i - 1 : ae[j] = s[j]
    BY <1>0, <1>1, AppendProperties
<1>4. InsertAt(s, i, e) = ae \o b
    BY <1>1, AppendIsConcat DEF InsertAt, a, b
<1> HIDE DEF ae
<1>5. /\ ae \o b \in Seq(RunSet) /\ Len(ae \o b) = Len(s) + 1
      /\ \A j \in 1 .. Len(s) + 1 : (ae \o b)[j] = IF j <= i THEN ae[j] ELSE b[j - i]
    <2>1. /\ ae \o b \in Seq(RunSet) /\ Len(ae \o b) = Len(ae) + Len(b)
          /\ \A j \in 1 .. Len(ae) + Len(b) :
                (ae \o b)[j] = IF j <= Len(ae) THEN ae[j] ELSE b[j - Len(ae)]
        BY <1>2, <1>3, ConcatProperties, Zenon
    <2>2. Len(ae) + Len(b) = Len(s) + 1
        BY <1>0, <1>2, <1>3
    <2> QED BY <1>3, <2>1, <2>2, Zenon
<1>6. ASSUME NEW j \in 1 .. Len(s) + 1
      PROVE  (ae \o b)[j] = IF j < i THEN s[j] ELSE IF j = i THEN e ELSE s[j - 1]
    <2>1. CASE j < i
        BY <1>0, <1>3, <1>5, <2>1
    <2>2. CASE j = i
        BY <1>0, <1>3, <1>5, <2>2
    <2>3. CASE j > i
        <3>1. j - i \in 1 .. Len(s) - i + 1 /\ i + (j - i) - 1 = j - 1
            BY <1>0, <2>3
        <3> QED BY <1>0, <1>2, <1>5, <2>3, <3>1
    <2>4. j < i \/ j = i \/ j > i
        BY <1>0
    <2> QED BY <2>1, <2>2, <2>3, <2>4, Zenon
<1> QED BY <1>4, <1>5, <1>6 DEF Inserted

\* Clusters that are free lie between two runs of the list.
LEMMA FreeGap ==
    ASSUME NEW list \in Seq(RunSet), Sorted(list), NEW lcn \in Nat, NEW length \in Nat \ {0},
           \A c \in lcn .. lcn + length - 1 : c \notin Covered(list)
    PROVE  \A i \in 1 .. Len(list) :
              /\ i <= UpTo(list, lcn) => End(list[i]) <= lcn
              /\ i > UpTo(list, lcn) => lcn + length <= list[i].lcn
<1> SUFFICES ASSUME NEW i \in 1 .. Len(list)
             PROVE  /\ i <= UpTo(list, lcn) => End(list[i]) <= lcn
                    /\ i > UpTo(list, lcn) => lcn + length <= list[i].lcn
    OBVIOUS
<1>0. /\ list[i].lcn \in Nat /\ list[i].length \in Nat /\ list[i].length > 0
      /\ End(list[i]) = list[i].lcn + list[i].length
      /\ UpTo(list, lcn) \in Int /\ i \in Int
    <2>1. list[i] \in RunSet /\ Len(list) \in Nat
        BY ListRuns
    <2>2. UpTo(list, lcn) \in 0 .. Len(list)
        BY UpToIs
    <2> QED BY <2>1, <2>2, RunFields DEF Sorted
<1>1. \A c \in Nat : list[i].lcn <= c /\ c < End(list[i]) => c \in Covered(list)
    BY ListRuns, RunFields
<1>2. list[i].lcn <= lcn <=> i <= UpTo(list, lcn)
    BY UpToIs
<1>3. ASSUME i <= UpTo(list, lcn) PROVE End(list[i]) <= lcn
    <2>1. lcn \in lcn .. lcn + length - 1
        OBVIOUS
    <2> QED BY <1>0, <1>1, <1>2, <1>3, <2>1
<1>4. ASSUME i > UpTo(list, lcn) PROVE lcn + length <= list[i].lcn
    <2>1. list[i].lcn > lcn
        BY <1>0, <1>2, <1>4
    <2>2. list[i].lcn \in Covered(list)
        BY <1>0, <1>1
    <2> QED BY <1>0, <2>1, <2>2
<1> QED BY <1>3, <1>4

\* bitmap_allocate of free clusters: the list stays sorted and marks just them in
\* addition, whether a run grows or a new one is put in.
LEMMA MarkedExact ==
    ASSUME NEW list \in Seq(RunSet), Sorted(list), NEW lcn \in Nat, NEW length \in Nat \ {0},
           \A c \in lcn .. lcn + length - 1 : c \notin Covered(list)
    PROVE  /\ Marked(list, lcn, length) \in Seq(RunSet)
           /\ Sorted(Marked(list, lcn, length))
           /\ Covered(Marked(list, lcn, length)) = Covered(list) \cup (lcn .. lcn + length - 1)
<1> DEFINE k == UpTo(list, lcn)
           new == Marked(list, lcn, length)
<1>0. /\ Len(list) \in Nat /\ k \in 0 .. Len(list)
      /\ \A i \in 1 .. Len(list) :
            /\ list[i] \in RunSet /\ list[i].lcn \in Nat /\ list[i].length \in Nat
            /\ list[i].length > 0 /\ End(list[i]) = list[i].lcn + list[i].length
            /\ i <= k => End(list[i]) <= lcn
            /\ i > k => lcn + length <= list[i].lcn
    BY ListRuns, RunFields, UpToIs, FreeGap DEF Sorted
<1>00. \A i, j \in 1 .. Len(list) : i < j => End(list[i]) <= list[j].lcn
    BY DEF Sorted
<1>1. CASE Extends(list, lcn)
    <2>1. k \in 1 .. Len(list) /\ End(list[k]) = lcn
        BY <1>0, <1>1 DEF Extends
    <2>2. new = [list EXCEPT ![k].length = @ + length]
        BY <1>1 DEF Marked
    <2> HIDE DEF k, new
    <2> DEFINE r == [list[k] EXCEPT !.length = @ + length]
    <2>3. r \in RunSet /\ r.lcn = list[k].lcn /\ r.length = list[k].length + length
        <3>1. list[k] \in RunSet /\ list[k].length + length \in Nat
            BY <1>0, <2>1
        <3> QED BY <3>1 DEF RunSet
    <2>4. new = [list EXCEPT ![k] = r]
        BY <1>0, <2>1, <2>2, LenProperties
    <2> HIDE DEF r
    <2>5. /\ new \in Seq(RunSet) /\ Len(new) = Len(list)
          /\ \A j \in 1 .. Len(list) : new[j] = IF j = k THEN r ELSE list[j]
        BY <2>1, <2>3, <2>4, ExceptSeq
    <2>6. End(r) = lcn + length
        <3> DEFINE first == list[k].lcn
                   old == list[k].length
                   more == r.length
        <3>1. End(r) = first + more /\ more = old + length
            BY <2>3 DEF End
        <3>2. first \in Nat /\ old \in Nat /\ lcn = first + old
            BY <1>0, <2>1
        <3> HIDE DEF first, old, more
        <3> QED BY <3>1, <3>2
    <2>7. Sorted(new)
        <3>1. \A i \in 1 .. Len(new) : new[i].length > 0
            BY <1>0, <2>1, <2>3, <2>5
        <3>2. \A i, j \in 1 .. Len(new) : i < j => End(new[i]) <= new[j].lcn
            BY <1>0, <1>00, <2>1, <2>3, <2>5, <2>6
        <3> QED BY <3>1, <3>2 DEF Sorted
    <2>8. ASSUME NEW c PROVE c \in ClustersOf(r) <=> c \in ClustersOf(list[k]) \cup (lcn .. lcn + length - 1)
        BY <1>0, <2>1, <2>3, <2>6, SMTT(30) DEF ClustersOf
    <2>9. Covered(new) = Covered(list) \cup (lcn .. lcn + length - 1)
        BY <2>1, <2>5, <2>8, ZenonT(40) DEF Covered
    <2> QED BY <2>5, <2>7, <2>9 DEF new
<1>2. CASE ~Extends(list, lcn)
    <2> DEFINE r == Run(lcn, length)
    <2>1. new = InsertAt(list, k + 1, r)
        BY <1>2 DEF Marked
    <2>2. r \in RunSet /\ r.lcn = lcn /\ r.length = length /\ End(r) = lcn + length
        BY NewRun
    <2> HIDE DEF k, new, r
    <2>3. k + 1 \in 1 .. Len(list) + 1
        BY <1>0
    <2>4. /\ new \in Seq(RunSet) /\ Len(new) = Len(list) + 1
          /\ \A j \in 1 .. Len(list) + 1 :
                new[j] = IF j < k + 1 THEN list[j] ELSE IF j = k + 1 THEN r ELSE list[j - 1]
        <3>1. Inserted(new, list, k + 1, r)
            BY <2>1, <2>2, <2>3, InsertIs
        <3> QED BY <3>1 DEF Inserted
    <2>5. ASSUME NEW j \in 1 .. Len(new)
          PROVE  \/ j < k + 1 /\ j \in 1 .. Len(list) /\ j <= k /\ new[j] = list[j]
                 \/ j = k + 1 /\ new[j] = r
                 \/ j > k + 1 /\ j - 1 \in 1 .. Len(list) /\ j - 1 > k /\ new[j] = list[j - 1]
        BY <1>0, <2>4
    <2>6. Sorted(new)
        <3>1. \A i \in 1 .. Len(new) : new[i].length > 0
            <4>1. r.length > 0 /\ \A i \in 1 .. Len(list) : list[i].length > 0
                BY <1>0, <2>2
            <4>2. \A i \in 1 .. Len(new) : new[i] = r \/ \E j \in 1 .. Len(list) : new[i] = list[j]
                BY <2>5
            <4> QED BY <4>1, <4>2
        <3>2. ASSUME NEW i \in 1 .. Len(new), NEW j \in 1 .. Len(new), i < j
              PROVE  End(new[i]) <= new[j].lcn
            <4>0. i \in Int /\ j \in Int /\ k \in Int
                BY <1>0, <2>4
            <4>1. CASE j < k + 1
                <5>1. i < k + 1
                    BY <3>2, <4>0, <4>1
                <5> QED BY <1>00, <2>5, <3>2, <4>0, <4>1, <5>1
            <4>2. CASE j = k + 1
                <5>1. i < k + 1
                    BY <3>2, <4>2
                <5>2. i \in 1 .. Len(list) /\ i <= k /\ new[i] = list[i] /\ new[j] = r
                    BY <2>5, <4>0, <4>2, <5>1
                <5> QED BY <1>0, <2>2, <5>2
            <4>3. CASE j > k + 1
                <5>1. j - 1 \in 1 .. Len(list) /\ j - 1 > k /\ new[j] = list[j - 1]
                    BY <2>5, <4>0, <4>3
                <5>2. CASE i < k + 1
                    <6>1. i \in 1 .. Len(list) /\ new[i] = list[i] /\ i < j - 1
                        BY <2>5, <4>0, <5>1, <5>2
                    <6> QED BY <1>00, <5>1, <6>1
                <5>3. CASE i = k + 1
                    <6>1. new[i] = r
                        BY <2>5, <4>0, <5>3
                    <6> QED BY <1>0, <2>2, <5>1, <6>1
                <5>4. CASE i > k + 1
                    <6>1. i - 1 \in 1 .. Len(list) /\ new[i] = list[i - 1] /\ i - 1 < j - 1
                        BY <2>5, <3>2, <4>0, <5>4
                    <6> QED BY <1>00, <5>1, <6>1
                <5> QED BY <4>0, <5>2, <5>3, <5>4
            <4> QED BY <4>0, <4>1, <4>2, <4>3
        <3> QED BY <3>1, <3>2 DEF Sorted
    <2>7. ClustersOf(r) = lcn .. lcn + length - 1
        BY <2>2 DEF ClustersOf
    <2>8. ASSUME NEW c
          PROVE  c \in Covered(new) <=> c \in Covered(list) \/ c \in ClustersOf(r)
        <3>1. ASSUME NEW i \in 1 .. Len(new), c \in ClustersOf(new[i])
              PROVE  c \in Covered(list) \/ c \in ClustersOf(r)
            <4>1. new[i] = r \/ \E j \in 1 .. Len(list) : new[i] = list[j]
                BY <2>5
            <4> QED BY <3>1, <4>1, ListRuns
        <3>2. ASSUME NEW i \in 1 .. Len(list), c \in ClustersOf(list[i])
              PROVE  c \in Covered(new)
            <4>1. CASE i <= k
                <5>1. i \in 1 .. Len(new) /\ new[i] = list[i]
                    BY <1>0, <2>4, <4>1
                <5> QED BY <2>4, <3>2, <5>1, ListRuns
            <4>2. CASE i > k
                <5>1. i + 1 \in 1 .. Len(new) /\ (i + 1) - 1 = i /\ new[i + 1] = list[i]
                    BY <1>0, <2>4, <4>2
                <5> QED BY <2>4, <3>2, <5>1, ListRuns
            <4> QED BY <1>0, <4>1, <4>2
        <3>3. k + 1 \in 1 .. Len(new) /\ new[k + 1] = r
            BY <1>0, <2>3, <2>4
        <3> QED BY <2>4, <3>1, <3>2, <3>3, ListRuns
    <2> QED BY <2>4, <2>6, <2>7, <2>8 DEF new
<1> QED BY <1>1, <1>2

-----------------------------------------------------------------------------
(* The layout of a volume of 1 MB or more.                                  *)

ClusterSizes == {8, 16, 32, 64, 128}

\* The places of the files that get one run each, one behind the other.
Placed(n, s) ==
    /\ NrClusters(n, s) \in Nat /\ NrClusters(n, s) >= 16
    /\ BitmapBits(n, s) \in Nat /\ NrClusters(n, s) <= BitmapBits(n, s) /\ BitmapBits(n, s) >= 64
    /\ BootClusters(s) \in Nat /\ BootClusters(s) > 0 /\ MftBmpLcn(s) = BootClusters(s)
    /\ MftLcn(s) \in Nat /\ MftBmpLcn(s) + 1 <= MftLcn(s)
    /\ MftClusters(s) \in Nat /\ MftClusters(s) > 0
    /\ MirrLcn(n, s) \in Nat /\ MftLcn(s) + MftClusters(s) <= MirrLcn(n, s)
    /\ MirrClusters(s) \in Nat /\ MirrClusters(s) > 0
    /\ LogLcn(n, s) = MirrLcn(n, s) + MirrClusters(s)
    /\ LogLcn(n, s) + 1 < NrClusters(n, s)
    /\ NrClusters(n, s) \div 8 + MftLcn(s) <= NrClusters(n, s)

\* Boot sector, MFT bitmap, MFT and its mirror do not meet on such a volume.
LEMMA Places ==
    ASSUME NEW n \in Nat, n >= 2048, NEW s \in ClusterSizes
    PROVE  Placed(n, s)
<1> USE DEF Placed, NrClusters, BitmapBits, BootClusters, MftBmpLcn, MftLcn, MftClusters,
            MirrLcn, MirrClusters, LogLcn, Ceil
<1>1. CASE s = 8
    BY <1>1
<1>2. CASE s = 16
    BY <1>2
<1>3. CASE s = 32
    BY <1>3
<1>4. CASE s = 64
    BY <1>4
<1>5. CASE s = 128
    BY <1>5
<1> QED BY <1>1, <1>2, <1>3, <1>4, <1>5 DEF ClusterSizes

\* The log file ends before the volume does: halved often enough, it fits.
LEMMA LogPlaced ==
    ASSUME NEW n \in Nat, n >= 2048, NEW s \in ClusterSizes
    PROVE  /\ LogSize(n, s) \in Nat
           /\ LogLcn(n, s) + LogSize(n, s) \div s < NrClusters(n, s)
<1> DEFINE size(d) == LogStandard(n, s) \div d
           Halvings == {1, 2, 4, 8, 16, 32, 64, 128, 256, 512}
           fitting == {d \in Halvings : LogFits(n, s, size(d))}
<1>0. Placed(n, s)
    BY Places
<1>1. LogStandard(n, s) \in Nat /\ LogFits(n, s, size(512))
    <2>1. CASE s = 8
        BY <2>1 DEF LogStandard, LogFits, LogLcn, MirrLcn, MirrClusters, NrClusters, Ceil
    <2>2. CASE s = 16
        BY <2>2 DEF LogStandard, LogFits, LogLcn, MirrLcn, MirrClusters, NrClusters, Ceil
    <2>3. CASE s = 32
        BY <2>3 DEF LogStandard, LogFits, LogLcn, MirrLcn, MirrClusters, NrClusters, Ceil
    <2>4. CASE s = 64
        BY <2>4 DEF LogStandard, LogFits, LogLcn, MirrLcn, MirrClusters, NrClusters, Ceil
    <2>5. CASE s = 128
        BY <2>5 DEF LogStandard, LogFits, LogLcn, MirrLcn, MirrClusters, NrClusters, Ceil
    <2> QED BY <2>1, <2>2, <2>3, <2>4, <2>5 DEF ClusterSizes
<1>2. fitting # {} /\ fitting \in SUBSET Nat
    BY <1>1
<1>3. PICK d \in fitting : \A e \in fitting : d <= e
    BY <1>2, Least
<1>4. \E m \in Halvings : LogFits(n, s, size(m)) /\ \A e \in Halvings : e < m => ~LogFits(n, s, size(e))
    <2>1. d \in Halvings /\ d \in Nat /\ LogFits(n, s, size(d))
        BY <1>3
    <2>2. ASSUME NEW e \in Halvings, e < d PROVE ~LogFits(n, s, size(e))
        <3>1. e \in Nat
            OBVIOUS
        <3> QED BY <1>3, <2>1, <2>2, <3>1
    <2> QED BY <2>1, <2>2
<1>5. PICK m \in Halvings : LogSize(n, s) = size(m) /\ LogFits(n, s, size(m))
    BY <1>4 DEF LogSize
<1>6. LogSize(n, s) \in Nat
    BY <1>1, <1>5
<1> QED BY <1>5, <1>6 DEF LogFits

-----------------------------------------------------------------------------
(* What the scan is asked for, and the runlist it makes.                    *)

\* The attributes are five, with names of their own.
LEMMA Names ==
    /\ Len(Scattered) = 5
    /\ \A i \in 1 .. 5 : Scattered[i] \in {"root", "attrdef", "bitmap", "sds", "upcase"}
    /\ \A i, j \in 1 .. 5 : Scattered[i] = Scattered[j] => i = j
<1>1. Len(Scattered) = 5
    BY DEF Scattered
<1>2. /\ Scattered[1] = "root" /\ Scattered[2] = "attrdef" /\ Scattered[3] = "bitmap"
      /\ Scattered[4] = "sds" /\ Scattered[5] = "upcase"
    BY DEF Scattered
<1>3. \A i \in 1 .. 5 : i \in {1, 2, 3, 4, 5}
    OBVIOUS
<1>4. \A i \in 1 .. 5 : Scattered[i] \in {"root", "attrdef", "bitmap", "sds", "upcase"}
    BY <1>2, <1>3
<1>5. \A i, j \in {1, 2, 3, 4, 5} : Scattered[i] = Scattered[j] => i = j
    BY <1>2
<1> QED BY <1>1, <1>3, <1>4, <1>5

\* Every attribute needs a cluster at least.
LEMMA Needs ==
    ASSUME NEW n \in Nat, n >= 2048, NEW s \in ClusterSizes, NEW i \in 1 .. 5
    PROVE  ScatteredClusters(n, s, i) \in Nat /\ ScatteredClusters(n, s, i) > 0
<1> DEFINE bits == Ceil(BitmapBits(n, s), 4096)
           units == <<8, 5, bits, 513, 256>>
<1>1. BitmapBits(n, s) \in Nat /\ BitmapBits(n, s) >= 64
    BY Places DEF Placed
<1>2. bits \in Nat /\ bits > 0
    BY <1>1 DEF Ceil
<1>3. i \in {1, 2, 3, 4, 5}
    OBVIOUS
<1>4. ScatteredClusters(n, s, i) = Ceil(units[i], s)
    BY DEF ScatteredClusters
<1> HIDE DEF bits
<1>5. units[i] \in Nat /\ units[i] > 0
    BY <1>2, <1>3
<1> HIDE DEF units
<1>6. Ceil(units[i], s) \in Nat /\ Ceil(units[i], s) > 0
    <2>1. CASE s = 8
        BY <1>5, <2>1 DEF Ceil
    <2>2. CASE s = 16
        BY <1>5, <2>2 DEF Ceil
    <2>3. CASE s = 32
        BY <1>5, <2>3 DEF Ceil
    <2>4. CASE s = 64
        BY <1>5, <2>4 DEF Ceil
    <2>5. CASE s = 128
        BY <1>5, <2>5 DEF Ceil
    <2> QED BY <2>1, <2>2, <2>3, <2>4, <2>5 DEF ClusterSizes
<1> QED BY <1>4, <1>6

\* What Extended makes of list: the last run grows, or one is put behind it.
Grown(new, list, c) ==
    /\ Len(new) = Len(list)
    /\ \E k \in 1 .. Len(list) :
          /\ End(list[k]) = c /\ new[k].lcn = list[k].lcn /\ new[k].length = list[k].length + 1
          /\ \A j \in 1 .. Len(list) : j # k => new[j] = list[j]

Longer(new, list, c) ==
    /\ Len(new) = Len(list) + 1 /\ new[Len(list) + 1] = Run(c, 1)
    /\ \A j \in 1 .. Len(list) : new[j] = list[j]

\* The runlist with one more cluster.
LEMMA ExtendedIs ==
    ASSUME NEW list \in Seq(RunSet), NEW c \in Nat
    PROVE  /\ Extended(list, c) \in Seq(RunSet)
           /\ Grown(Extended(list, c), list, c) \/ Longer(Extended(list, c), list, c)
<1> DEFINE k == Len(list)
           new == Extended(list, c)
<1>1. CASE list # <<>> /\ End(list[k]) = c
    <2>1. k \in 1 .. Len(list) /\ list[k] \in RunSet
        BY <1>1, EmptySeq, ListRuns
    <2>2. new = [list EXCEPT ![k].length = @ + 1]
        BY <1>1 DEF Extended
    <2> HIDE DEF new, k
    <2> DEFINE r == [list[k] EXCEPT !.length = @ + 1]
    <2>3. r \in RunSet /\ r.lcn = list[k].lcn /\ r.length = list[k].length + 1
        <3>1. list[k] \in RunSet /\ list[k].length + 1 \in Nat
            BY <2>1, RunFields
        <3> QED BY <3>1 DEF RunSet
    <2>4. new = [list EXCEPT ![k] = r]
        BY <2>1, <2>2, LenProperties
    <2> HIDE DEF r
    <2>5. /\ new \in Seq(RunSet) /\ Len(new) = Len(list)
          /\ \A j \in 1 .. Len(list) : new[j] = IF j = k THEN r ELSE list[j]
        BY <2>1, <2>3, <2>4, ExceptSeq
    <2>6. Grown(new, list, c)
        BY <1>1, <2>1, <2>3, <2>5 DEF Grown
    <2> QED BY <2>5, <2>6 DEF new
<1>2. CASE ~(list # <<>> /\ End(list[k]) = c)
    <2>1. new = Append(list, Run(c, 1)) /\ Run(c, 1) \in RunSet
        BY <1>2, NewRun DEF Extended
    <2>2. new \in Seq(RunSet) /\ Longer(new, list, c)
        BY <2>1, AppendProperties DEF Longer
    <2> QED BY <2>2
<1> QED BY <1>1, <1>2

\* It covers one more cluster.
LEMMA ExtendedCovers ==
    ASSUME NEW list \in Seq(RunSet), NEW c \in Nat
    PROVE  Covered(Extended(list, c)) = Covered(list) \cup {c}
<1> DEFINE new == Extended(list, c)
<1>0. /\ new \in Seq(RunSet) /\ Len(list) \in Nat /\ Len(new) \in Nat
      /\ \A j \in 1 .. Len(list) : list[j].lcn \in Nat /\ list[j].length \in Nat
    BY ExtendedIs, ListRuns, RunFields
<1>1. ASSUME Grown(new, list, c) PROVE Covered(new) = Covered(list) \cup {c}
    <2>1. PICK k \in 1 .. Len(list) :
             /\ End(list[k]) = c /\ new[k].lcn = list[k].lcn
             /\ new[k].length = list[k].length + 1
             /\ \A j \in 1 .. Len(list) : j # k => new[j] = list[j]
        BY <1>1 DEF Grown
    <2>2. ClustersOf(new[k]) = ClustersOf(list[k]) \cup {c}
        <3>1. list[k].lcn \in Nat /\ list[k].length \in Nat /\ c = list[k].lcn + list[k].length
            BY <1>0, <2>1 DEF End
        <3>2. End(new[k]) = c + 1
            BY <2>1, <3>1 DEF End
        <3>3. list[k].lcn .. (c + 1) - 1 = (list[k].lcn .. c - 1) \cup {c}
            BY <3>1
        <3> QED BY <2>1, <3>2, <3>3 DEF ClustersOf
    <2>3. Len(new) = Len(list)
        BY <1>1 DEF Grown
    <2> HIDE DEF new
    <2> QED BY <2>1, <2>2, <2>3 DEF Covered
<1>2. ASSUME Longer(new, list, c) PROVE Covered(new) = Covered(list) \cup {c}
    <2>1. ClustersOf(Run(c, 1)) = {c}
        <3>1. Run(c, 1).lcn = c /\ End(Run(c, 1)) = c + 1
            BY NewRun
        <3> QED BY <3>1 DEF ClustersOf
    <2>2. \A j \in 1 .. Len(new) : j \in 1 .. Len(list) \/ j = Len(list) + 1
        BY <1>0, <1>2 DEF Longer
    <2>3. \A j \in 1 .. Len(list) : j \in 1 .. Len(new)
        BY <1>0, <1>2 DEF Longer
    <2>4. Len(list) + 1 \in 1 .. Len(new)
        BY <1>0, <1>2 DEF Longer
    <2> HIDE DEF new
    <2> QED BY <1>2, <2>1, <2>2, <2>3, <2>4 DEF Covered, Longer
<1> QED BY <1>1, <1>2, ExtendedIs

-----------------------------------------------------------------------------
(* The inductive invariant.                                                 *)

Labels == {"idle", "params", "tail", "mftbmp", "mft", "mirr", "log", "boot", "attribute",
           "scatter", "sync", "cleanup"}
Given == {"attribute", "scatter", "sync"}   \* every single run has been given away
Ended == {"idle", "cleanup"}

\* Types; a volume that is too small was refused; the scan starts afresh.
Types ==
    /\ num \in Nat /\ spc \in ClusterSizes /\ pc \in Labels /\ inProcess \in Nat
    /\ mftLcn \in Nat /\ zoneEnd \in Nat /\ want \in 0 .. 5 /\ left \in Int
    /\ at \in Nat /\ end \in Nat /\ rl \in Seq(RunSet)
    /\ pc \notin Ended \cup {"params"} => num >= 2048
    /\ pc \notin Given \cup {"cleanup"} => want = 0 /\ rl = <<>>
    /\ pc = "scatter" => want # 0
    /\ pc = "sync" => want = 5

\* The clusters that a file has of what has been given away.
Holds(given, file) == UNION {ClustersOf(o.run) : o \in {x \in given : x.file = file}}

Finished == IF pc = "scatter" THEN want - 1 ELSE want

\* The scan never comes back to a cluster it has taken: what it has lies above the
\* zone it looks at, or in that zone behind it.  It counts what it takes.
Scan ==
    pc = "scatter" =>
        /\ left > 0 /\ zoneEnd <= at
        /\ \A c \in Covered(rl) : zoneEnd <= c /\ (c < at \/ end <= c)
        /\ IsFiniteSet(Covered(rl))
        /\ Cardinality(Covered(rl)) + left = ScatteredClusters(num, spc, want)

\* An attribute that has been served has what it needs, the others have nothing.
Counted ==
    pc \notin Ended => \A i \in 1 .. 5 :
        IF i <= Finished THEN Cardinality(Holds(owned, Scattered[i])) = ScatteredClusters(num, spc, i)
        ELSE \A o \in owned : o.file # Scattered[i]

\* The first call finds the list and g_mft_lcn as the process began with them.
Fresh ==
    /\ inProcess = 0 => pc = "idle" /\ alloc = <<>> /\ mftLcn = 0
    /\ inProcess = 1 /\ pc \in {"params", "tail"} => alloc = <<>>
    /\ inProcess = 1 /\ pc \in {"params", "tail", "mftbmp", "mft"} => mftLcn = 0

\* The bits behind the volume, what has been given away, what the scan has in hand.
Behind == Nr .. BitmapBits(num, spc) - 1
Taken(given) == UNION {ClustersOf(o.run) : o \in given}
InHand == IF pc = "scatter" THEN Covered(rl) ELSE {}

\* The list marks just these.
Exact ==
    Undisturbed /\ pc \notin Ended \cup {"params", "tail"} =>
        /\ alloc \in Seq(RunSet) /\ Sorted(alloc)
        /\ Covered(alloc) = Behind \cup Taken(owned) \cup InHand

\* The single runs are given away one behind the other, the boot sector at last.
Rising ==
    Undisturbed =>
        /\ pc \in {"params", "tail", "mftbmp"} => owned = {}
        /\ pc \notin Ended \cup Given => \A o \in owned :
              /\ BootClusters(spc) <= o.run.lcn
              /\ pc = "mft" => End(o.run) <= MftLcn(spc)
              /\ pc = "mirr" => End(o.run) <= MirrLcn(num, spc)
              /\ pc = "log" => End(o.run) <= LogLcn(num, spc)

\* Files do not meet, nor does the runlist in the making; no zone lies behind the
\* volume.
Private ==
    /\ \A o \in owned : o.run \in RunSet
    /\ Undisturbed =>
        /\ \A a, b \in owned : a # b => Apart(a.run, b.run)
        /\ \A o \in owned : End(o.run) <= Nr
        /\ pc \notin Ended => \A o \in owned : o.run.length > 0
        /\ pc \in Given \cup {"mirr", "log", "boot"} => zoneEnd <= Nr
        /\ pc = "scatter" =>
              /\ end <= Nr
              /\ \A i \in 1 .. Len(rl) :
                    /\ rl[i].length > 0 /\ End(rl[i]) <= Nr
                    /\ \A j \in 1 .. Len(rl) : i # j => Apart(rl[i], rl[j])
                    /\ \A o \in owned : Apart(o.run, rl[i])

MkInv == Types /\ Scan /\ Counted /\ Fresh /\ Exact /\ Rising /\ Private

-----------------------------------------------------------------------------
(* Types.                                                                   *)

\* What a step on one run leaves alone, and where it goes.
LEMMA AllocateFrame ==
    ASSUME NEW file, NEW run, NEW checked \in BOOLEAN, NEW next,
           BitmapAllocate(file, run, checked, next)
    PROVE  /\ UNCHANGED <<num, spc, want, left, at, end, rl, result, inProcess, runs>>
           /\ pc' = next \/ pc' = "cleanup"
           /\ file = "" => owned' = owned
           /\ file # "" => owned' = owned \cup {[file |-> file, run |-> run]}
           /\ \A o \in owned' : o \in owned \/ (file # "" /\ o.file = file /\ o.run = run)
           /\ ~oom' => ~oom /\ alloc' = Marked(alloc, run.lcn, run.length)
<1> DEFINE new == [file |-> file, run |-> run]
<1>1. /\ UNCHANGED <<num, spc, want, left, at, end, rl, result, inProcess, runs>>
      /\ owned' = owned \cup (IF file = "" THEN {} ELSE {new})
    BY DEF BitmapAllocate, volVars, scanVars, callVars
<1>2. pc' = next \/ pc' = "cleanup"
    BY Zenon DEF BitmapAllocate, Goto
<1>3. ~oom' => ~oom /\ alloc' = Marked(alloc, run.lcn, run.length)
    BY Zenon DEF BitmapAllocate
<1>4. new.file = file /\ new.run = run
    OBVIOUS
<1> HIDE DEF new
<1>5. /\ file = "" => owned' = owned
      /\ file # "" => owned' = owned \cup {new}
      /\ \A o \in owned' : o \in owned \/ (file # "" /\ o.file = file /\ o.run = run)
    BY <1>1, <1>4
<1> QED BY <1>1, <1>2, <1>3, <1>5, Zenon DEF new

\* The steps on one run.
Single == BitmapTail \/ MftBitmap \/ Mft \/ MftMirr \/ LogFile \/ Boot

\* What they have in common.
LEMMA SingleFrame ==
    ASSUME Types, Single
    PROVE  /\ UNCHANGED <<num, spc, want, left, at, end, rl, inProcess>>
           /\ pc \in {"tail", "mftbmp", "mft", "mirr", "log", "boot"}
           /\ \/ pc' = "cleanup"
              \/ pc = "tail" /\ pc' = "mftbmp"
              \/ pc = "mftbmp" /\ pc' = "mft"
              \/ pc = "mft" /\ pc' = "mirr"
              \/ pc = "mirr" /\ pc' = "log"
              \/ pc = "log" /\ pc' = "boot"
              \/ pc = "boot" /\ pc' = "attribute"
           /\ pc # "mft" => UNCHANGED <<mftLcn, zoneEnd>>
           /\ owned \subseteq owned'
           /\ \A o \in owned' : o \in owned \/ o.file \in {"mftbmp", "mft", "mirr", "log", "boot"}
<1>1. CASE BitmapTail
    <2> DEFINE run == Run(Nr, BitmapBits(num, spc) - Nr)
    <2>1. /\ pc = "tail" /\ UNCHANGED <<mftLcn, zoneEnd>>
          /\ BitmapAllocate("", run, TRUE, "mftbmp")
        BY <1>1 DEF BitmapTail
    <2> HIDE DEF run
    <2> QED BY <2>1, AllocateFrame
<1>2. CASE MftBitmap
    <2> DEFINE run == Run(MftBmpLcn(spc), 1)
    <2>1. /\ pc = "mftbmp" /\ UNCHANGED <<mftLcn, zoneEnd>>
          /\ BitmapAllocate("mftbmp", run, TRUE, "mft")
        BY <1>2 DEF MftBitmap
    <2> HIDE DEF run
    <2> QED BY <2>1, AllocateFrame
<1>3. CASE Mft
    <2> DEFINE run == Run(mftLcn', MftClusters(spc))
    <2>1. /\ pc = "mft"
          /\ BitmapAllocate("mft", run, FALSE, "mirr")
        BY <1>3 DEF Mft
    <2> HIDE DEF run
    <2> QED BY <2>1, AllocateFrame
<1>4. CASE MftMirr
    <2> DEFINE run == Run(MirrLcn(num, spc), MirrClusters(spc))
    <2>1. /\ pc = "mirr" /\ UNCHANGED <<mftLcn, zoneEnd>>
          /\ BitmapAllocate("mirr", run, TRUE, "log")
        BY <1>4 DEF MftMirr
    <2> HIDE DEF run
    <2> QED BY <2>1, AllocateFrame
<1>5. CASE LogFile
    <2> DEFINE large == Ceil(LogSize(num, spc), spc) * spc >= 512
               run == Run(LogLcn(num, spc), IF large THEN LogClusters(num, spc) ELSE 0)
               next == IF large THEN "boot" ELSE "cleanup"
    <2>1. /\ pc = "log" /\ UNCHANGED <<mftLcn, zoneEnd>>
          /\ BitmapAllocate("log", run, TRUE, next)
        BY <1>5 DEF LogFile
    <2>2. next \in {"boot", "cleanup"}
        OBVIOUS
    <2> HIDE DEF run, next
    <2> QED BY <2>1, <2>2, AllocateFrame
<1>6. CASE Boot
    <2> DEFINE run == Run(0, BootClusters(spc))
    <2>1. /\ pc = "boot" /\ UNCHANGED <<mftLcn, zoneEnd>>
          /\ BitmapAllocate("boot", run, TRUE, "attribute")
        BY <1>6 DEF Boot
    <2> HIDE DEF run
    <2> QED BY <2>1, AllocateFrame
<1> QED BY <1>1, <1>2, <1>3, <1>4, <1>5, <1>6 DEF Single

\* The step to the next attribute.
LEMMA AttributeIs ==
    ASSUME Types, Attribute
    PROVE  /\ pc = "attribute"
           /\ UNCHANGED <<num, spc, alloc, mftLcn, zoneEnd, owned, oom, inProcess>>
           /\ \/ /\ want < 5 /\ want' = want + 1
                 /\ left' = ScatteredClusters(num, spc, want')
                 /\ at' = zoneEnd /\ end' = Nr /\ rl' = <<>> /\ pc' = "scatter"
              \/ want = 5 /\ pc' = "sync" /\ UNCHANGED <<want, left, at, end, rl>>
<1>1. Len(Scattered) = 5
    BY Names
<1> QED BY <1>1 DEF Attribute, Goto, volVars, callVars, scanVars

\* Types are kept.
LEMMA NextTypes == Types /\ [Next]_vars => Types'
<1> SUFFICES ASSUME Types, [Next]_vars PROVE Types'
    OBVIOUS
<1> USE DEF Labels, Given, Ended
<1>1. CASE Begin
    <2>1. num' \in Nat /\ spc' \in ClusterSizes
        BY <1>1, MkntfsAssumption DEF Begin, ClusterSizes
    <2>2. inProcess' \in Nat /\ pc' = "params" /\ pc = "idle"
        BY <1>1 DEF Begin, Goto, Types
    <2> QED BY <1>1, <2>1, <2>2 DEF Begin, scanVars, Types
<1>2. CASE Restart
    BY <1>2 DEF Restart, scanVars, Types, ClusterSizes
<1>3. CASE Single
    <2>1. mftLcn' \in Nat /\ zoneEnd' \in Nat
        <3>1. CASE pc # "mft"
            BY <1>3, <3>1, SingleFrame DEF Types
        <3>2. CASE pc = "mft"
            <4>1. MftLcn(spc) \in Nat /\ Nr \in Nat
                BY <3>2, Places DEF Types, Placed, Nr
            <4>2. /\ mftLcn' = IF mftLcn = 0 THEN MftLcn(spc) ELSE mftLcn
                  /\ zoneEnd' = Nr \div 8 + mftLcn'
                BY <1>3, <3>2 DEF Single, BitmapTail, MftBitmap, Mft, MftMirr, LogFile, Boot
            <4>3. mftLcn' \in Nat
                BY <4>1, <4>2 DEF Types
            <4> QED BY <4>1, <4>2, <4>3
        <3> QED BY <3>1, <3>2
    <2> QED BY <1>3, <2>1, SingleFrame DEF Types
<1>4. CASE Attribute
    <2>1. Nr \in Nat /\ \A i \in 1 .. 5 : ScatteredClusters(num, spc, i) \in Nat
        BY <1>4, Places, Needs, AttributeIs DEF Types, Placed, Nr
    <2>2. /\ pc = "attribute" /\ UNCHANGED <<num, spc, mftLcn, zoneEnd, inProcess>>
          /\ \/ /\ want < 5 /\ want' = want + 1
                /\ left' = ScatteredClusters(num, spc, want')
                /\ at' = zoneEnd /\ end' = Nr /\ rl' = <<>> /\ pc' = "scatter"
             \/ want = 5 /\ pc' = "sync" /\ UNCHANGED <<want, left, at, end, rl>>
        BY <1>4, AttributeIs
    <2>3. want' \in 0 .. 5 /\ (pc' = "scatter" => want' \in 1 .. 5)
        BY <2>2 DEF Types
    <2>4. left' \in Int /\ at' \in Nat /\ end' \in Nat /\ rl' \in Seq(RunSet)
        <3>1. <<>> \in Seq(RunSet)
            BY EmptySeq
        <3>2. pc' = "scatter" => ScatteredClusters(num, spc, want') \in Nat
            BY <2>1, <2>3
        <3>3. zoneEnd \in Nat /\ left \in Int /\ at \in Nat /\ end \in Nat /\ rl \in Seq(RunSet)
            BY DEF Types
        <3>4. rl' \in Seq(RunSet)
            BY <2>2, <3>1, <3>3, Zenon
        <3>5. left' \in Int
            BY <2>2, <3>2, <3>3
        <3> QED BY <2>1, <2>2, <3>3, <3>4, <3>5
    <2> QED BY <2>2, <2>3, <2>4 DEF Types
<1>5. CASE TakeCluster
    <2>1. Extended(rl, at) \in Seq(RunSet)
        BY ExtendedIs DEF Types
    <2>2. /\ pc = "scatter" /\ pc' \in {"scatter", "attribute"}
          /\ rl' = Extended(rl, at) /\ left' = left - 1 /\ at' = at + 1
          /\ UNCHANGED <<num, spc, mftLcn, zoneEnd, want, end, inProcess>>
        BY <1>5 DEF TakeCluster, Goto, volVars, callVars
    <2> QED BY <2>1, <2>2 DEF Types
<1>6. CASE SkipCluster \/ NextZone
    <2>1. /\ pc' = pc /\ UNCHANGED <<num, spc, mftLcn, want, left, rl, inProcess>>
        BY <1>6 DEF SkipCluster, NextZone, volVars, callVars
    <2>2. at' \in Nat /\ end' \in Nat /\ zoneEnd' \in Nat
        BY <1>6 DEF SkipCluster, NextZone, Types
    <2> QED BY <2>1, <2>2 DEF Types
<1>7. CASE ScatterFails
    <2>1. /\ pc = "scatter" /\ pc' = "cleanup" /\ zoneEnd' \in {0, zoneEnd}
          /\ UNCHANGED <<num, spc, mftLcn, want, left, at, end, rl, inProcess>>
        BY <1>7 DEF ScatterFails, Goto, volVars, callVars, scanVars
    <2> QED BY <2>1 DEF Types
<1>8. CASE OverrideVolParams
    BY <1>8 DEF OverrideVolParams, Goto, volVars, callVars, scanVars, Types
<1>9. CASE Sync \/ IoFails
    BY <1>9, SMTT(30) DEF Sync, IoFails, Goto, volVars, callVars, scanVars, Types
<1>10. CASE Cleanup
    BY <1>10, EmptySeq DEF Cleanup, Goto, volVars, callVars, Types
<1>11. CASE UNCHANGED vars
    BY <1>11 DEF vars, volVars, callVars, scanVars, Types
<1> QED BY <1>1, <1>2, <1>3, <1>4, <1>5, <1>6, <1>7, <1>8, <1>9, <1>10, <1>11
       DEF Next, Step, Single

-----------------------------------------------------------------------------
(* The scan counts its clusters.                                            *)

\* What the scan takes in one step.
LEMMA TakeIs ==
    ASSUME Types, TakeCluster
    PROVE  /\ pc = "scatter" /\ at < end
           /\ rl' = Extended(rl, at) /\ left' = left - 1 /\ at' = at + 1
           /\ UNCHANGED <<num, spc, mftLcn, zoneEnd, want, end, inProcess>>
           /\ want \in 1 .. 5
           /\ \/ /\ left' = 0 /\ pc' = "attribute"
                 /\ owned' = owned \cup {[file |-> Scattered[want], run |-> rl'[i]] :
                                            i \in 1 .. Len(rl')}
              \/ left' # 0 /\ pc' = "scatter" /\ owned' = owned
<1>1. pc = "scatter" /\ want \in 1 .. 5 /\ rl \in Seq(RunSet) /\ at \in Nat
    BY DEF Types, TakeCluster
<1>2. rl' = Extended(rl, at)
    BY DEF TakeCluster
<1>3. DOMAIN rl' = 1 .. Len(rl')
    BY <1>1, <1>2, ExtendedIs, LenProperties
<1>4. /\ at < end /\ left' = left - 1 /\ at' = at + 1
      /\ UNCHANGED <<num, spc, mftLcn, zoneEnd, want, end, inProcess>>
    BY DEF TakeCluster, volVars, callVars
<1>5. \/ /\ left' = 0 /\ pc' = "attribute"
         /\ owned' = owned \cup {[file |-> Scattered[want], run |-> rl'[i]] : i \in DOMAIN rl'}
      \/ left' # 0 /\ pc' = pc /\ owned' = owned
    BY Zenon DEF TakeCluster, Goto
<1> QED BY <1>1, <1>2, <1>3, <1>4, <1>5, Zenon

\* What owned says of a runlist.
Listed(file, list) == {[file |-> file, run |-> list[i]] : i \in 1 .. Len(list)}

\* The clusters that an attribute gets are those of its runlist.
LEMMA RunlistHeld ==
    ASSUME NEW given, NEW file, NEW list, \A o \in given : o.file # file
    PROVE  /\ Holds(given \cup Listed(file, list), file) = Covered(list)
           /\ \A f : f # file => Holds(given \cup Listed(file, list), f) = Holds(given, f)
           /\ \A o \in given \cup Listed(file, list) : o \in given \/ o.file = file
<1> DEFINE new == Listed(file, list)
           after == given \cup new
<1>1. \A o \in new : o.file = file /\ \E i \in 1 .. Len(list) : o.run = list[i]
    BY DEF Listed
<1>2. \A i \in 1 .. Len(list) : \E o \in new : o.file = file /\ o.run = list[i]
    <2>1. ASSUME NEW i \in 1 .. Len(list)
          PROVE  \E o \in new : o.file = file /\ o.run = list[i]
        <3>1. /\ [file |-> file, run |-> list[i]] \in new
              /\ [file |-> file, run |-> list[i]].file = file
              /\ [file |-> file, run |-> list[i]].run = list[i]
            BY DEF Listed
        <3> QED BY <3>1
    <2> QED BY <2>1
<1> HIDE DEF new
<1>4. Holds(after, file) = Covered(list)
    <2>1. {x \in after : x.file = file} = new
        BY <1>1
    <2>2. UNION {ClustersOf(o.run) : o \in new} = UNION {ClustersOf(list[i]) : i \in 1 .. Len(list)}
        BY <1>1, <1>2
    <2> QED BY <2>1, <2>2 DEF Holds, Covered
<1>5. ASSUME NEW f, f # file PROVE Holds(after, f) = Holds(given, f)
    <2>1. {x \in after : x.file = f} = {x \in given : x.file = f}
        BY <1>1, <1>5
    <2> QED BY <2>1 DEF Holds
<1>6. \A o \in after : o \in given \/ o.file = file
    BY <1>1
<1> QED BY <1>4, <1>5, <1>6 DEF new

\* One more cluster is counted.
LEMMA TakeCounted ==
    ASSUME Types, Scan, Counted, TakeCluster
    PROVE  Scan' /\ Counted'
<1>1. /\ pc = "scatter" /\ left > 0 /\ left \in Int /\ rl \in Seq(RunSet) /\ at \in Nat
      /\ \A c \in Covered(rl) : zoneEnd <= c /\ (c < at \/ end <= c)
      /\ IsFiniteSet(Covered(rl)) /\ zoneEnd <= at /\ zoneEnd \in Nat /\ end \in Nat
      /\ Cardinality(Covered(rl)) + left = ScatteredClusters(num, spc, want)
    BY TakeIs DEF Types, Scan
<1>2. at < end /\ left' = left - 1 /\ at' = at + 1 /\ want \in 1 .. 5
      /\ UNCHANGED <<num, spc, zoneEnd, want, end>>
    BY TakeIs
<1>3. at \notin Covered(rl)
    BY <1>1, <1>2
<1>4. Covered(rl') = Covered(rl) \cup {at}
    BY <1>1, TakeIs, ExtendedCovers
<1>5. IsFiniteSet(Covered(rl')) /\ Cardinality(Covered(rl')) = Cardinality(Covered(rl)) + 1
    BY <1>1, <1>3, <1>4, FS_AddElement
<1>6. Cardinality(Covered(rl)) \in Nat
    BY <1>1, FS_CardinalityType
<1>7. Cardinality(Covered(rl')) + left' = ScatteredClusters(num, spc, want)
    BY <1>1, <1>2, <1>5, <1>6
<1>8. Finished = want - 1
    BY <1>1 DEF Finished
<1>9. \A i \in 1 .. 5 :
        IF i <= want - 1 THEN Cardinality(Holds(owned, Scattered[i])) = ScatteredClusters(num, spc, i)
        ELSE \A o \in owned : o.file # Scattered[i]
    BY <1>1, <1>8 DEF Counted, Ended
<1>10. CASE left' = 0 /\ pc' = "attribute"
    <2>1. /\ Holds(owned', Scattered[want]) = Covered(rl')
          /\ \A f : f # Scattered[want] => Holds(owned', f) = Holds(owned, f)
          /\ \A o \in owned' : o \in owned \/ o.file = Scattered[want]
        <3>1. owned' = owned \cup Listed(Scattered[want], rl')
            BY <1>10, TakeIs DEF Listed
        <3>2. \A o \in owned : o.file # Scattered[want]
            BY <1>2, <1>9
        <3>3. /\ Holds(owned \cup Listed(Scattered[want], rl'), Scattered[want]) = Covered(rl')
              /\ \A f : f # Scattered[want] =>
                    Holds(owned \cup Listed(Scattered[want], rl'), f) = Holds(owned, f)
              /\ \A o \in owned \cup Listed(Scattered[want], rl') :
                    o \in owned \/ o.file = Scattered[want]
            BY <3>2, RunlistHeld, Zenon
        <3> QED BY <3>1, <3>3, Zenon
    <2>2. Finished' = want
        BY <1>2, <1>10 DEF Finished
    <2>3. ASSUME NEW i \in 1 .. 5
          PROVE  IF i <= want
                 THEN Cardinality(Holds(owned', Scattered[i])) = ScatteredClusters(num, spc, i)
                 ELSE \A o \in owned' : o.file # Scattered[i]
        <3>1. CASE i = want
            BY <1>2, <1>6, <1>7, <1>10, <2>1, <3>1, <1>5
        <3>2. CASE i # want
            <4>1. Scattered[i] # Scattered[want]
                BY <1>2, <3>2, Names
            <4>2. i <= want <=> i <= want - 1
                BY <1>2, <3>2
            <4> QED BY <1>9, <2>1, <4>1, <4>2
        <3> QED BY <3>1, <3>2
    <2>4. Counted'
        BY <1>2, <2>2, <2>3 DEF Counted
    <2> QED BY <1>10, <2>4 DEF Scan
<1>11. CASE left' # 0 /\ pc' = "scatter" /\ owned' = owned
    <2>1. Finished' = want - 1
        BY <1>2, <1>11 DEF Finished
    <2>2. Counted'
        BY <1>2, <1>9, <1>11, <2>1 DEF Counted, Ended
    <2>3. Scan'
        <3>1. left' > 0 /\ zoneEnd' <= at'
            BY <1>1, <1>2, <1>11
        <3>2. \A c \in Covered(rl') : zoneEnd <= c /\ (c < at + 1 \/ end <= c)
            <4>1. ASSUME NEW c \in Covered(rl) PROVE zoneEnd <= c /\ (c < at + 1 \/ end <= c)
                <5>1. c \in Nat
                    BY <1>1, ListRuns, RunFields
                <5> QED BY <1>1, <5>1
            <4> QED BY <1>1, <1>4, <4>1
        <3> QED BY <1>2, <1>5, <1>7, <3>1, <3>2 DEF Scan
    <2> QED BY <2>2, <2>3
<1> QED BY <1>10, <1>11, TakeIs

\* Nothing else disturbs the counts.
LEMMA NextCounted ==
    ASSUME Types, Types', Scan, Counted, [Next]_vars
    PROVE  Scan' /\ Counted'
<1> USE DEF Given, Ended
<1>1. CASE Begin
    <2>1. pc' = "params" /\ owned' = {} /\ want' = 0
        BY <1>1 DEF Begin, Goto, scanVars, Types
    <2>2. Finished' = 0
        BY <2>1 DEF Finished
    <2> QED BY <2>1, <2>2 DEF Scan, Counted
<1>2. CASE Single
    <2>1. /\ want = 0 /\ want' = 0 /\ pc \notin Ended /\ pc' # "scatter" /\ pc # "scatter"
          /\ UNCHANGED <<num, spc>>
        BY <1>2, SingleFrame DEF Types
    <2>2. Finished = 0 /\ Finished' = 0
        BY <2>1 DEF Finished
    <2>3. ASSUME NEW i \in 1 .. 5, NEW o \in owned' PROVE o.file # Scattered[i]
        <3>1. \A x \in owned : x.file # Scattered[i]
            BY <2>1, <2>2 DEF Counted
        <3>2. Scattered[i] \in {"root", "attrdef", "bitmap", "sds", "upcase"}
            BY Names
        <3>3. o \in owned \/ o.file \in {"mftbmp", "mft", "mirr", "log", "boot"}
            BY <1>2, SingleFrame
        <3> QED BY <3>1, <3>2, <3>3
    <2> QED BY <2>1, <2>2, <2>3 DEF Scan, Counted
<1>3. CASE Attribute
    <2>1. Finished' = Finished /\ UNCHANGED <<num, spc, owned>> /\ pc = "attribute"
        <3>1. want \in 0 .. 5
            BY DEF Types
        <3> QED BY <1>3, <3>1, AttributeIs DEF Finished
    <2>2. Counted'
        BY <2>1 DEF Counted
    <2>3. ASSUME pc' = "scatter" PROVE Scan'
        <3>1. /\ left' = ScatteredClusters(num, spc, want') /\ at' = zoneEnd /\ rl' = <<>>
              /\ UNCHANGED <<num, spc, zoneEnd>> /\ want' \in 1 .. 5 /\ zoneEnd \in Nat
            BY <1>3, <2>3, AttributeIs DEF Types
        <3>2. left' \in Nat /\ left' > 0
            BY <2>1, <3>1, Needs, SMTT(30) DEF Types
        <3>3. Covered(<<>>) = {}
            <4>1. Len(<<>>) = 0 /\ <<>> \in Seq(RunSet)
                BY EmptySeq
            <4>2. \A i : i \notin 1 .. 0
                OBVIOUS
            <4> QED BY <4>1, <4>2 DEF Covered
        <3>4. Covered(rl') = {} /\ IsFiniteSet(Covered(rl')) /\ Cardinality(Covered(rl')) = 0
            BY <3>1, <3>3, FS_EmptySet, Zenon
        <3>5. Cardinality(Covered(rl')) + left' = ScatteredClusters(num', spc', want')
            BY <3>1, <3>2, <3>4
        <3> QED BY <3>1, <3>2, <3>4, <3>5 DEF Scan
    <2>4. pc' # "scatter" => Scan'
        BY DEF Scan
    <2> QED BY <2>2, <2>3, <2>4
<1>4. CASE TakeCluster
    BY <1>4, TakeCounted
<1>5. CASE SkipCluster \/ NextZone
    <2>1. /\ pc = "scatter" /\ pc' = "scatter"
          /\ UNCHANGED <<num, spc, owned, want, left, rl>>
          /\ \/ at' = at + 1 /\ UNCHANGED <<zoneEnd, end>>
             \/ end' = zoneEnd /\ zoneEnd' = zoneEnd \div 2 /\ at' = zoneEnd'
        BY <1>5 DEF SkipCluster, NextZone, volVars
    <2>2. Counted'
        BY <2>1 DEF Counted, Finished
    <2>3. zoneEnd \in Nat /\ at \in Nat /\ end \in Nat /\ \A c \in Covered(rl) : c \in Nat
        <3>1. rl \in Seq(RunSet)
            BY DEF Types
        <3> QED BY <3>1, ListRuns DEF Types
    <2>4. zoneEnd' <= at' /\ \A c \in Covered(rl) : zoneEnd' <= c /\ (c < at' \/ end' <= c)
        BY <2>1, <2>3 DEF Scan
    <2>5. Covered(rl') = Covered(rl)
        BY <2>1
    <2> QED BY <2>1, <2>2, <2>4, <2>5 DEF Scan
<1>6. CASE OverrideVolParams
    <2>1. pc = "params" /\ pc' \in {"tail", "cleanup"} /\ UNCHANGED <<num, spc, owned, want>>
        BY <1>6 DEF OverrideVolParams, Goto, volVars, scanVars
    <2> QED BY <2>1 DEF Scan, Counted, Finished
<1>7. CASE Restart \/ ScatterFails \/ Sync \/ IoFails \/ Cleanup
    <2>1. pc' \in Ended
        BY <1>7 DEF Restart, ScatterFails, Sync, IoFails, Cleanup, Goto
    <2> QED BY <2>1 DEF Scan, Counted
<1>8. CASE UNCHANGED vars
    BY <1>8 DEF vars, volVars, scanVars, Scan, Counted, Finished
<1> QED BY <1>1, <1>2, <1>3, <1>4, <1>5, <1>6, <1>7, <1>8 DEF Next, Step, Single

\* The first call of a process starts from its initial values.
LEMMA NextFresh ==
    ASSUME Types, Fresh, [Next]_vars
    PROVE  Fresh'
<1>1. CASE Begin
    <2>1. pc' = "params" /\ inProcess' = inProcess + 1 /\ UNCHANGED <<alloc, mftLcn>>
        BY <1>1 DEF Begin, Goto
    <2>2. inProcess \in Nat
        BY DEF Types
    <2>3. inProcess' = 1 => inProcess = 0
        BY <2>1, <2>2
    <2>4. inProcess' # 0
        BY <2>1, <2>2
    <2> QED BY <2>1, <2>3, <2>4 DEF Fresh
<1>2. CASE Restart
    BY <1>2 DEF Restart, Fresh
<1>3. CASE Single
    <2>1. pc' = "mftbmp" => pc = "tail"
        BY <1>3, SingleFrame
    <2>2. pc' = "mft" => pc = "mftbmp"
        BY <1>3, SingleFrame
    <2>3. pc' \notin {"params", "tail", "idle"} /\ pc # "idle" /\ inProcess' = inProcess
        BY <1>3, SingleFrame
    <2>4. pc # "mft" => mftLcn' = mftLcn
        BY <1>3, SingleFrame
    <2> QED BY <2>1, <2>2, <2>3, <2>4 DEF Fresh
<1>4. CASE OverrideVolParams
    BY <1>4 DEF OverrideVolParams, Goto, volVars, callVars, Fresh
<1>5. CASE Attribute
    BY <1>5, AttributeIs DEF Fresh
<1>6. CASE TakeCluster
    BY <1>6, TakeIs DEF Fresh
<1>7. CASE SkipCluster \/ NextZone \/ ScatterFails \/ Sync \/ IoFails \/ Cleanup
    <2>1. /\ pc # "idle" /\ inProcess' = inProcess
          /\ pc' \notin {"params", "tail", "mftbmp", "mft"}
        BY <1>7 DEF SkipCluster, NextZone, ScatterFails, Sync, IoFails, Cleanup, Goto, callVars
    <2> QED BY <2>1 DEF Fresh
<1>8. CASE UNCHANGED vars
    BY <1>8 DEF vars, callVars, Fresh
<1> QED BY <1>1, <1>2, <1>3, <1>4, <1>5, <1>6, <1>7, <1>8 DEF Next, Step, Single

-----------------------------------------------------------------------------
(* Files do not meet, and the list marks what they have.                    *)

\* Runs that are apart have no cluster in common.
LEMMA ApartRuns ==
    ASSUME NEW r \in RunSet, NEW s \in RunSet, Apart(r, s), NEW c \in ClustersOf(r)
    PROVE  c \notin ClustersOf(s)
<1>1. c \in Nat /\ r.lcn <= c /\ c < End(r) /\ r.lcn \in Nat /\ End(r) \in Nat
    BY RunFields
<1>2. s.lcn \in Nat /\ End(s) \in Nat /\ (c \in ClustersOf(s) => s.lcn <= c /\ c < End(s))
    BY RunFields
<1> QED BY <1>1, <1>2 DEF Apart

\* Apart is symmetric.
LEMMA ApartSym == \A r, s : Apart(r, s) <=> Apart(s, r)
BY DEF Apart

\* list marks just what lies behind a volume of n clusters and what has been given away.
Marks(list, n, behind, given) ==
    /\ list \in Seq(RunSet) /\ Sorted(list)
    /\ n \in Nat /\ behind \in SUBSET Nat /\ \A c \in behind : n <= c
    /\ \A o \in given : o.run \in RunSet
    /\ Covered(list) = behind \cup Taken(given)

\* A run inside the volume and beside what has been given away.
Beside(run, n, given) ==
    /\ run \in RunSet /\ run.length > 0 /\ End(run) <= n
    /\ \A o \in given : Apart(o.run, run)

\* The list that bitmap_allocate makes marks the run in addition.
MarksToo(list, behind, given, run) ==
    /\ Marked(list, run.lcn, run.length) \in Seq(RunSet)
    /\ Sorted(Marked(list, run.lcn, run.length))
    /\ Covered(Marked(list, run.lcn, run.length)) = behind \cup Taken(given) \cup ClustersOf(run)

\* It does so for a run beside the others.
LEMMA GiveRun ==
    ASSUME NEW list, NEW n, NEW behind, NEW given, NEW run,
           Marks(list, n, behind, given), Beside(run, n, given)
    PROVE  MarksToo(list, behind, given, run)
<1> USE DEF Marks, Beside
<1>1. /\ run.lcn \in Nat /\ run.length \in Nat \ {0} /\ End(run) = run.lcn + run.length
      /\ End(run) \in Nat
    BY RunFields
<1>2. ClustersOf(run) = run.lcn .. run.lcn + run.length - 1
    BY <1>1 DEF ClustersOf
<1>3. ASSUME NEW c \in ClustersOf(run) PROVE c \notin Covered(list)
    <2>1. c \in Nat /\ c < End(run)
        BY RunFields
    <2>2. c \notin behind
        BY <1>1, <2>1
    <2>3. ASSUME NEW o \in given PROVE c \notin ClustersOf(o.run)
        BY ApartRuns, ApartSym
    <2>4. c \notin Taken(given)
        BY <2>3 DEF Taken
    <2> QED BY <2>2, <2>4
<1> DEFINE lcn == run.lcn
           length == run.length
<1>4. lcn \in Nat /\ length \in Nat \ {0} /\ ClustersOf(run) = lcn .. lcn + length - 1
    BY <1>1, <1>2
<1>5. \A c \in lcn .. lcn + length - 1 : c \notin Covered(list)
    BY <1>3, <1>4
<1> HIDE DEF lcn, length
<1>6. /\ Marked(list, lcn, length) \in Seq(RunSet)
      /\ Sorted(Marked(list, lcn, length))
      /\ Covered(Marked(list, lcn, length)) = Covered(list) \cup (lcn .. lcn + length - 1)
    BY <1>4, <1>5, MarkedExact
<1>7. Covered(Marked(list, lcn, length)) = behind \cup Taken(given) \cup ClustersOf(run)
    BY <1>4, <1>6
<1> QED BY <1>6, <1>7 DEF lcn, length, MarksToo

\* The bits behind the volume.
LEMMA BehindIs ==
    ASSUME NEW n \in Nat, NEW bits \in Nat
    PROVE  n .. bits - 1 \in SUBSET Nat /\ \A c \in n .. bits - 1 : n <= c
OBVIOUS

\* The places of the volume at hand.
LEMMA PlacesNow ==
    ASSUME Types, pc \notin Ended \cup {"params"}
    PROVE  /\ Placed(num, spc) /\ LogSize(num, spc) \in Nat
           /\ LogLcn(num, spc) + LogClusters(num, spc) < Nr
           /\ Nr = NrClusters(num, spc) /\ Nr \in Nat /\ BitmapBits(num, spc) \in Nat
           /\ Nr <= BitmapBits(num, spc)
<1>1. num \in Nat /\ num >= 2048 /\ spc \in ClusterSizes
    BY DEF Types
<1>2. Placed(num, spc)
    BY <1>1, Places
<1>3. /\ LogSize(num, spc) \in Nat
      /\ LogLcn(num, spc) + LogSize(num, spc) \div spc < NrClusters(num, spc)
    BY <1>1, LogPlaced
<1>4. Nr = NrClusters(num, spc)
    BY DEF Nr
<1>5. /\ NrClusters(num, spc) \in Nat /\ BitmapBits(num, spc) \in Nat
      /\ NrClusters(num, spc) <= BitmapBits(num, spc)
    BY <1>2 DEF Placed
<1> QED BY <1>2, <1>3, <1>4, <1>5 DEF LogClusters

\* A step that gives one run away, beside those given away before.
LEMMA GiveStep ==
    ASSUME Types, Exact, Private, NEW file, file # "", NEW run \in RunSet,
           NEW checked \in BOOLEAN, NEW next, BitmapAllocate(file, run, checked, next),
           Undisturbed', pc \in {"mftbmp", "mft", "mirr", "log", "boot"},
           End(run) <= Nr, \A o \in owned : Apart(o.run, run)
    PROVE  /\ Undisturbed
           /\ \A a, b \in owned' : a # b => Apart(a.run, b.run)
           /\ \A o \in owned' : End(o.run) <= Nr'
           /\ run.length > 0 =>
                 /\ alloc' \in Seq(RunSet) /\ Sorted(alloc')
                 /\ Covered(alloc') = Behind' \cup Taken(owned')
                 /\ \A o \in owned' : o.run.length > 0
<1>1. /\ UNCHANGED <<num, spc, inProcess>>
      /\ owned' = owned \cup {[file |-> file, run |-> run]}
      /\ \A o \in owned' : o \in owned \/ o.run = run
      /\ ~oom' => ~oom /\ alloc' = Marked(alloc, run.lcn, run.length)
    <2>1. UNCHANGED <<num, spc, inProcess>>
        BY DEF BitmapAllocate, volVars, callVars
    <2>2. owned' = owned \cup {[file |-> file, run |-> run]}
        BY Zenon DEF BitmapAllocate
    <2>3. \A o \in owned' : o \in owned \/ o.run = run
        <3> DEFINE new == [file |-> file, run |-> run]
        <3>1. new.run = run /\ owned' = owned \cup {new}
            BY <2>2, Zenon
        <3> HIDE DEF new
        <3> QED BY <3>1, Zenon
    <2>4. ~oom' => ~oom /\ alloc' = Marked(alloc, run.lcn, run.length)
        BY Zenon DEF BitmapAllocate
    <2> QED BY <2>1, <2>2, <2>3, <2>4
<1>2. Undisturbed /\ ~oom'
    BY <1>1 DEF Undisturbed
<1>3. /\ Nr' = Nr /\ Behind' = Behind
    BY <1>1 DEF Nr, Behind
<1>4. \A o \in owned' : o \notin owned => o = [file |-> file, run |-> run]
    BY <1>1
<1>5. \A a, b \in owned' : a # b => Apart(a.run, b.run)
    <2>1. ASSUME NEW a \in owned', NEW b \in owned', a # b PROVE Apart(a.run, b.run)
        <3>1. CASE a \in owned /\ b \in owned
            BY <1>2, <2>1, <3>1 DEF Private
        <3>2. CASE a \in owned /\ b \notin owned
            BY <1>1, <3>2
        <3>3. CASE a \notin owned /\ b \in owned
            BY <1>1, <3>3, ApartSym
        <3>4. CASE a \notin owned /\ b \notin owned
            BY <1>4, <2>1, <3>4
        <3> QED BY <3>1, <3>2, <3>3, <3>4
    <2> QED BY <2>1
<1>6. \A o \in owned' : End(o.run) <= Nr'
    BY <1>1, <1>2, <1>3 DEF Private
<1>7. ASSUME run.length > 0
      PROVE  /\ alloc' \in Seq(RunSet) /\ Sorted(alloc')
             /\ Covered(alloc') = Behind' \cup Taken(owned')
             /\ \A o \in owned' : o.run.length > 0
    <2>1. /\ alloc \in Seq(RunSet) /\ Sorted(alloc) /\ Covered(alloc) = Behind \cup Taken(owned)
        <3>1. pc \notin Ended \cup {"params", "tail"} /\ pc # "scatter"
            BY DEF Ended
        <3> QED BY <1>2, <3>1 DEF Exact, InHand
    <2>2. Nr \in Nat /\ BitmapBits(num, spc) \in Nat
        <3>1. pc \notin Ended \cup {"params"}
            BY DEF Ended
        <3> QED BY <3>1, PlacesNow
    <2>3. Behind \in SUBSET Nat /\ \A c \in Behind : Nr <= c
        BY <2>2, BehindIs DEF Behind
    <2>4. \A o \in owned : o.run \in RunSet
        BY DEF Private
    <2>5. /\ Marked(alloc, run.lcn, run.length) \in Seq(RunSet)
          /\ Sorted(Marked(alloc, run.lcn, run.length))
          /\ Covered(Marked(alloc, run.lcn, run.length)) =
                Behind \cup Taken(owned) \cup ClustersOf(run)
        <3>1. Marks(alloc, Nr, Behind, owned)
            BY <2>1, <2>2, <2>3, <2>4 DEF Marks
        <3>2. Beside(run, Nr, owned)
            BY <1>7 DEF Beside
        <3>3. MarksToo(alloc, Behind, owned, run)
            BY <3>1, <3>2, GiveRun, Zenon
        <3> QED BY <3>3 DEF MarksToo
    <2>6. Taken(owned') = Taken(owned) \cup ClustersOf(run)
        <3> DEFINE new == [file |-> file, run |-> run]
        <3>1. new.run = run /\ owned' = owned \cup {new}
            BY <1>1
        <3> HIDE DEF new
        <3> QED BY <3>1 DEF Taken
    <2>7. alloc' = Marked(alloc, run.lcn, run.length)
        BY <1>1, <1>2
    <2>8. \A o \in owned' : o.run.length > 0
        BY <1>1, <1>2, <1>7 DEF Private, Ended
    <2> QED BY <1>3, <2>5, <2>6, <2>7, <2>8
<1> QED BY <1>2, <1>5, <1>6, <1>7

\* What the run must meet for the invariant to be kept.
Fitting(run) ==
    /\ End(run) <= Nr /\ \A o \in owned : Apart(o.run, run)
    /\ run.length > 0 \/ pc' \in Ended
    /\ pc' \in Given \cup {"mirr", "log", "boot"} => zoneEnd' <= Nr

\* It is kept, and nothing but the run is new.
LEMMA GiveExact ==
    ASSUME Types, Exact, Private, NEW file, file # "", NEW run \in RunSet,
           NEW checked \in BOOLEAN, NEW next, BitmapAllocate(file, run, checked, next),
           pc \in {"mftbmp", "mft", "mirr", "log", "boot"}, pc' # "scatter",
           Undisturbed' => Fitting(run)
    PROVE  /\ Exact' /\ Private'
           /\ num' = num /\ spc' = spc
           /\ Undisturbed' => Undisturbed
           /\ \A o \in owned' : o \in owned \/ o.run = run
<1>1. /\ UNCHANGED <<num, spc, inProcess>>
      /\ owned' = owned \cup {[file |-> file, run |-> run]}
      /\ ~oom' => ~oom
    <2>1. UNCHANGED <<num, spc, inProcess>>
        BY DEF BitmapAllocate, volVars, callVars
    <2>2. owned' = owned \cup {[file |-> file, run |-> run]}
        BY Zenon DEF BitmapAllocate
    <2>3. ~oom' => ~oom
        BY Zenon DEF BitmapAllocate
    <2> QED BY <2>1, <2>2, <2>3
<1>2. \A o \in owned' : o \in owned \/ o.run = run
    <2> DEFINE new == [file |-> file, run |-> run]
    <2>1. new.run = run /\ owned' = owned \cup {new}
        BY <1>1, Zenon
    <2> HIDE DEF new
    <2> QED BY <2>1, Zenon
<1>3. Undisturbed' => Undisturbed
    BY <1>1 DEF Undisturbed
<1>4. \A o \in owned' : o.run \in RunSet
    BY <1>2 DEF Private
<1>5. Nr' = Nr
    BY <1>1 DEF Nr
<1>6. ASSUME Undisturbed'
      PROVE  /\ \A a, b \in owned' : a # b => Apart(a.run, b.run)
             /\ \A o \in owned' : End(o.run) <= Nr'
             /\ run.length > 0 =>
                   /\ alloc' \in Seq(RunSet) /\ Sorted(alloc')
                   /\ Covered(alloc') = Behind' \cup Taken(owned')
                   /\ \A o \in owned' : o.run.length > 0
    <2>1. End(run) <= Nr /\ \A o \in owned : Apart(o.run, run)
        BY <1>6 DEF Fitting
    <2> QED BY <1>6, <2>1, GiveStep
<1>7. Exact'
    <2>1. ASSUME Undisturbed', pc' \notin Ended \cup {"params", "tail"}
          PROVE  /\ alloc' \in Seq(RunSet) /\ Sorted(alloc')
                 /\ Covered(alloc') = Behind' \cup Taken(owned') \cup InHand'
        <3>1. run.length > 0
            BY <2>1 DEF Fitting
        <3>2. InHand' = {}
            BY DEF InHand
        <3> QED BY <1>6, <2>1, <3>1, <3>2
    <2> QED BY <2>1 DEF Exact
<1>8. Private'
    <2>1. ASSUME Undisturbed', pc' \notin Ended PROVE \A o \in owned' : o.run.length > 0
        <3>1. run.length > 0
            BY <2>1 DEF Fitting
        <3> QED BY <1>6, <2>1, <3>1
    <2>2. ASSUME Undisturbed', pc' \in Given \cup {"mirr", "log", "boot"} PROVE zoneEnd' <= Nr'
        BY <1>5, <2>2 DEF Fitting
    <2> QED BY <1>4, <1>6, <2>1, <2>2 DEF Private
<1> QED BY <1>1, <1>2, <1>3, <1>7, <1>8

\* Where the single runs lie.
LEMMA RoomNow ==
    ASSUME Types, pc \notin Ended \cup {"params"}
    PROVE  /\ Nr \in Nat /\ BootClusters(spc) \in Nat /\ BootClusters(spc) > 0
           /\ MftBmpLcn(spc) = BootClusters(spc)
           /\ MftLcn(spc) \in Nat /\ MftBmpLcn(spc) + 1 <= MftLcn(spc)
           /\ MftClusters(spc) \in Nat /\ MftClusters(spc) > 0
           /\ MirrLcn(num, spc) \in Nat /\ MftLcn(spc) + MftClusters(spc) <= MirrLcn(num, spc)
           /\ MirrClusters(spc) \in Nat /\ MirrClusters(spc) > 0
           /\ LogLcn(num, spc) = MirrLcn(num, spc) + MirrClusters(spc) /\ LogLcn(num, spc) \in Nat
           /\ LogLcn(num, spc) < Nr /\ Nr \div 8 + MftLcn(spc) <= Nr
<1>1. Placed(num, spc) /\ Nr = NrClusters(num, spc)
    BY PlacesNow
<1> QED BY <1>1 DEF Placed

\* Where the steps on one run go, and what they leave alone.
LEMMA SingleGoes ==
    ASSUME NEW file, NEW run, NEW checked \in BOOLEAN, NEW next,
           BitmapAllocate(file, run, checked, next)
    PROVE  /\ pc' \in {next, "cleanup"} /\ num' = num /\ spc' = spc
           /\ Undisturbed' => Undisturbed
<1>1. UNCHANGED <<num, spc, inProcess>>
    BY DEF BitmapAllocate, volVars, callVars
<1>2. ~oom' => ~oom
    BY Zenon DEF BitmapAllocate
<1>3. pc' \in {next, "cleanup"}
    BY Zenon DEF BitmapAllocate, Goto
<1> QED BY <1>1, <1>2, <1>3 DEF Undisturbed

\* The bitmap of the MFT.
LEMMA MftBitmapPrivate ==
    ASSUME Types, Exact, Rising, Private, MftBitmap
    PROVE  Exact' /\ Rising' /\ Private'
<1> DEFINE run == Run(MftBmpLcn(spc), 1)
<1>1. pc = "mftbmp" /\ BitmapAllocate("mftbmp", run, TRUE, "mft")
    BY DEF MftBitmap
<1>2. /\ MftBmpLcn(spc) = BootClusters(spc) /\ BootClusters(spc) \in Nat /\ Nr \in Nat
      /\ BootClusters(spc) + 1 <= MftLcn(spc) /\ BootClusters(spc) + 1 <= Nr
    BY <1>1, RoomNow DEF Ended
<1>3. run \in RunSet /\ run.length = 1 /\ run.lcn = BootClusters(spc) /\ End(run) = BootClusters(spc) + 1
    BY <1>2, NewRun
<1> HIDE DEF run
<1>4. pc' \in {"mft", "cleanup"} /\ num' = num /\ spc' = spc
    BY <1>1, SingleGoes, Zenon
<1>5. Undisturbed' => Undisturbed
    BY <1>1, SingleGoes, Zenon
<1>6. Undisturbed' => owned = {}
    BY <1>1, <1>5 DEF Rising
<1>7. Undisturbed' => Fitting(run)
    BY <1>2, <1>3, <1>4, <1>6 DEF Fitting, Ended, Given
<1>8. Exact' /\ Private' /\ \A o \in owned' : o \in owned \/ o.run = run
    BY <1>1, <1>3, <1>4, <1>7, GiveExact
<1>9. ASSUME Undisturbed', NEW o \in owned'
      PROVE  BootClusters(spc) <= o.run.lcn /\ End(o.run) <= MftLcn(spc)
    <2>1. o.run = run
        BY <1>6, <1>8, <1>9
    <2> QED BY <1>2, <1>3, <2>1
<1>10. Rising'
    BY <1>4, <1>9 DEF Rising, Ended, Given
<1> QED BY <1>8, <1>10

\* The MFT; its zone ends inside the volume.
LEMMA MftPrivate ==
    ASSUME Types, Types', Fresh, Exact, Rising, Private, Mft
    PROVE  Exact' /\ Rising' /\ Private'
<1> DEFINE run == Run(mftLcn', MftClusters(spc))
<1>1. /\ pc = "mft" /\ BitmapAllocate("mft", run, FALSE, "mirr")
      /\ mftLcn' = (IF mftLcn = 0 THEN MftLcn(spc) ELSE mftLcn) /\ zoneEnd' = Nr \div 8 + mftLcn'
    BY DEF Mft
<1>2. /\ MftClusters(spc) \in Nat /\ MftClusters(spc) > 0 /\ MftLcn(spc) \in Nat /\ Nr \in Nat
      /\ BootClusters(spc) \in Nat /\ BootClusters(spc) <= MftLcn(spc)
      /\ MirrLcn(num, spc) \in Nat /\ MftLcn(spc) + MftClusters(spc) <= MirrLcn(num, spc)
      /\ MftLcn(spc) + MftClusters(spc) <= Nr /\ Nr \div 8 + MftLcn(spc) <= Nr
    BY <1>1, RoomNow DEF Ended
<1>3. mftLcn' \in Nat
    BY DEF Types
<1>4. /\ run \in RunSet /\ run.length = MftClusters(spc) /\ run.lcn = mftLcn'
      /\ End(run) = mftLcn' + MftClusters(spc)
    BY <1>2, <1>3, NewRun
<1> HIDE DEF run
<1>5. pc' \in {"mirr", "cleanup"} /\ num' = num /\ spc' = spc
    BY <1>1, SingleGoes, Zenon
<1>6. Undisturbed' => Undisturbed
    BY <1>1, SingleGoes, Zenon
<1>7. ASSUME Undisturbed'
      PROVE  /\ run.lcn = MftLcn(spc) /\ End(run) = MftLcn(spc) + MftClusters(spc)
             /\ zoneEnd' <= Nr
             /\ \A o \in owned : BootClusters(spc) <= o.run.lcn /\ End(o.run) <= MftLcn(spc)
    <2>1. mftLcn = 0
        BY <1>1, <1>6, <1>7 DEF Fresh, Undisturbed
    <2>2. \A o \in owned : BootClusters(spc) <= o.run.lcn /\ End(o.run) <= MftLcn(spc)
        BY <1>1, <1>6, <1>7 DEF Rising, Ended, Given
    <2> QED BY <1>1, <1>2, <1>4, <2>1, <2>2
<1>8. Undisturbed' => Fitting(run)
    <2>1. ASSUME Undisturbed' PROVE \A o \in owned : Apart(o.run, run)
        BY <1>7, <2>1 DEF Apart
    <2> QED BY <1>2, <1>4, <1>7, <2>1 DEF Fitting
<1>9. Exact' /\ Private' /\ \A o \in owned' : o \in owned \/ o.run = run
    BY <1>1, <1>4, <1>5, <1>8, GiveExact
<1>10. ASSUME Undisturbed', NEW o \in owned'
       PROVE  BootClusters(spc) <= o.run.lcn /\ End(o.run) <= MirrLcn(num, spc)
    <2>1. CASE o \in owned
        <3>1. o.run \in RunSet /\ End(o.run) <= MftLcn(spc) /\ BootClusters(spc) <= o.run.lcn
            BY <1>7, <1>10, <2>1 DEF Private
        <3>2. End(o.run) \in Nat
            BY <3>1, RunFields
        <3> QED BY <1>2, <3>1, <3>2
    <2>2. CASE o.run = run
        BY <1>2, <1>7, <1>10, <2>2
    <2> QED BY <1>9, <2>1, <2>2
<1>11. Rising'
    BY <1>5, <1>10 DEF Rising, Ended, Given
<1> QED BY <1>9, <1>11

\* The copy of its first records.
LEMMA MftMirrPrivate ==
    ASSUME Types, Exact, Rising, Private, MftMirr
    PROVE  Exact' /\ Rising' /\ Private'
<1> DEFINE run == Run(MirrLcn(num, spc), MirrClusters(spc))
<1>1. /\ pc = "mirr" /\ BitmapAllocate("mirr", run, TRUE, "log") /\ zoneEnd' = zoneEnd
    BY DEF MftMirr
<1>2. /\ MirrLcn(num, spc) \in Nat /\ MirrClusters(spc) \in Nat /\ MirrClusters(spc) > 0
      /\ LogLcn(num, spc) = MirrLcn(num, spc) + MirrClusters(spc) /\ LogLcn(num, spc) \in Nat
      /\ Nr \in Nat /\ LogLcn(num, spc) < Nr
      /\ BootClusters(spc) \in Nat /\ BootClusters(spc) <= MirrLcn(num, spc)
    BY <1>1, RoomNow DEF Ended
<1>3. /\ run \in RunSet /\ run.length = MirrClusters(spc) /\ run.lcn = MirrLcn(num, spc)
      /\ End(run) = LogLcn(num, spc)
    BY <1>2, NewRun
<1> HIDE DEF run
<1>4. pc' \in {"log", "cleanup"} /\ num' = num /\ spc' = spc
    BY <1>1, SingleGoes, Zenon
<1>5. Undisturbed' => Undisturbed
    BY <1>1, SingleGoes, Zenon
<1>6. ASSUME Undisturbed'
      PROVE  /\ zoneEnd <= Nr
             /\ \A o \in owned : BootClusters(spc) <= o.run.lcn /\ End(o.run) <= MirrLcn(num, spc)
    <2>1. zoneEnd <= Nr
        BY <1>1, <1>5, <1>6 DEF Private
    <2>2. \A o \in owned : BootClusters(spc) <= o.run.lcn /\ End(o.run) <= MirrLcn(num, spc)
        BY <1>1, <1>5, <1>6 DEF Rising, Ended, Given
    <2> QED BY <2>1, <2>2
<1>7. Undisturbed' => Fitting(run)
    <2>1. ASSUME Undisturbed' PROVE \A o \in owned : Apart(o.run, run)
        BY <1>3, <1>6, <2>1 DEF Apart
    <2> QED BY <1>1, <1>2, <1>3, <1>6, <2>1 DEF Fitting
<1>8. Exact' /\ Private' /\ \A o \in owned' : o \in owned \/ o.run = run
    BY <1>1, <1>3, <1>4, <1>7, GiveExact
<1>9. ASSUME Undisturbed', NEW o \in owned'
      PROVE  BootClusters(spc) <= o.run.lcn /\ End(o.run) <= LogLcn(num, spc)
    <2>1. CASE o \in owned
        <3>1. o.run \in RunSet /\ End(o.run) <= MirrLcn(num, spc) /\ BootClusters(spc) <= o.run.lcn
            BY <1>6, <1>9, <2>1 DEF Private
        <3>2. End(o.run) \in Nat
            BY <3>1, RunFields
        <3> QED BY <1>2, <3>1, <3>2
    <2>2. CASE o.run = run
        BY <1>2, <1>3, <2>2
    <2> QED BY <1>8, <2>1, <2>2
<1>10. Rising'
    BY <1>4, <1>9 DEF Rising, Ended, Given
<1> QED BY <1>8, <1>10

\* A log file of 256 KB has a cluster at least.
LEMMA LogNotEmpty ==
    ASSUME NEW size \in Nat, NEW s \in ClusterSizes, Ceil(size, s) * s >= 512
    PROVE  size \div s \in Nat /\ size \div s > 0
<1>1. CASE s = 8
    BY <1>1 DEF Ceil
<1>2. CASE s = 16
    BY <1>2 DEF Ceil
<1>3. CASE s = 32
    BY <1>3 DEF Ceil
<1>4. CASE s = 64
    BY <1>4 DEF Ceil
<1>5. CASE s = 128
    BY <1>5 DEF Ceil
<1> QED BY <1>1, <1>2, <1>3, <1>4, <1>5 DEF ClusterSizes

\* The log file, if it is not refused.
LEMMA LogFilePrivate ==
    ASSUME Types, Exact, Rising, Private, LogFile
    PROVE  Exact' /\ Rising' /\ Private'
<1> DEFINE large == Ceil(LogSize(num, spc), spc) * spc >= 512
           length == IF large THEN LogClusters(num, spc) ELSE 0
           run == Run(LogLcn(num, spc), length)
           next == IF large THEN "boot" ELSE "cleanup"
<1>1. /\ pc = "log" /\ BitmapAllocate("log", run, TRUE, next) /\ zoneEnd' = zoneEnd
    BY DEF LogFile
<1>2. /\ LogLcn(num, spc) \in Nat /\ Nr \in Nat /\ LogLcn(num, spc) < Nr
      /\ BootClusters(spc) \in Nat /\ BootClusters(spc) <= LogLcn(num, spc)
    BY <1>1, RoomNow DEF Ended
<1>3. /\ LogSize(num, spc) \in Nat /\ LogLcn(num, spc) + LogClusters(num, spc) < Nr
      /\ spc \in ClusterSizes
    BY <1>1, PlacesNow DEF Ended, Types
<1>4. large => LogClusters(num, spc) \in Nat /\ LogClusters(num, spc) > 0
    BY <1>3, LogNotEmpty DEF LogClusters
<1>5. length \in Nat /\ LogLcn(num, spc) + length <= Nr /\ (length > 0 \/ next = "cleanup")
    BY <1>2, <1>3, <1>4
<1> HIDE DEF length
<1>6. /\ run \in RunSet /\ run.length = length /\ run.lcn = LogLcn(num, spc)
      /\ End(run) = LogLcn(num, spc) + length
    BY <1>2, <1>5, NewRun
<1> HIDE DEF run
<1>7. pc' \in {next, "cleanup"} /\ num' = num /\ spc' = spc
    <2> HIDE DEF next
    <2> QED BY <1>1, SingleGoes, Zenon
<1>8. Undisturbed' => Undisturbed
    <2> HIDE DEF next
    <2> QED BY <1>1, SingleGoes, Zenon
<1>9. pc' \in {"boot", "cleanup"} /\ (length > 0 \/ pc' \in Ended)
    BY <1>5, <1>7 DEF Ended
<1>10. ASSUME Undisturbed'
       PROVE  /\ zoneEnd <= Nr
              /\ \A o \in owned : BootClusters(spc) <= o.run.lcn /\ End(o.run) <= LogLcn(num, spc)
    <2>1. zoneEnd <= Nr
        BY <1>1, <1>8, <1>10 DEF Private
    <2>2. \A o \in owned : BootClusters(spc) <= o.run.lcn /\ End(o.run) <= LogLcn(num, spc)
        BY <1>1, <1>8, <1>10 DEF Rising, Ended, Given
    <2> QED BY <2>1, <2>2
<1>11. Undisturbed' => Fitting(run)
    <2>1. ASSUME Undisturbed' PROVE \A o \in owned : Apart(o.run, run)
        BY <1>6, <1>10, <2>1 DEF Apart
    <2> QED BY <1>1, <1>5, <1>6, <1>9, <1>10, <2>1 DEF Fitting
<1> HIDE DEF next
<1>12. Exact' /\ Private' /\ \A o \in owned' : o \in owned \/ o.run = run
    BY <1>1, <1>6, <1>9, <1>11, GiveExact
<1>13. ASSUME Undisturbed', NEW o \in owned' PROVE BootClusters(spc) <= o.run.lcn
    BY <1>2, <1>6, <1>10, <1>12, <1>13
<1>14. Rising'
    BY <1>7, <1>9, <1>13 DEF Rising, Ended, Given
<1> QED BY <1>12, <1>14

\* The boot sector, before all the others.
LEMMA BootPrivate ==
    ASSUME Types, Exact, Rising, Private, Boot
    PROVE  Exact' /\ Rising' /\ Private'
<1> DEFINE run == Run(0, BootClusters(spc))
<1>1. /\ pc = "boot" /\ BitmapAllocate("boot", run, TRUE, "attribute") /\ zoneEnd' = zoneEnd
    BY DEF Boot
<1>2. /\ BootClusters(spc) \in Nat /\ BootClusters(spc) > 0 /\ Nr \in Nat /\ BootClusters(spc) <= Nr
    BY <1>1, RoomNow DEF Ended
<1>3. /\ run \in RunSet /\ run.length = BootClusters(spc) /\ run.lcn = 0
      /\ End(run) = BootClusters(spc)
    <2>1. 0 \in Nat /\ 0 + BootClusters(spc) = BootClusters(spc)
        BY <1>2
    <2> QED BY <1>2, <2>1, NewRun
<1> HIDE DEF run
<1>4. pc' \in {"attribute", "cleanup"} /\ num' = num /\ spc' = spc
    BY <1>1, SingleGoes, Zenon
<1>5. Undisturbed' => Undisturbed
    BY <1>1, SingleGoes, Zenon
<1>6. ASSUME Undisturbed'
      PROVE  zoneEnd <= Nr /\ \A o \in owned : BootClusters(spc) <= o.run.lcn
    <2>1. zoneEnd <= Nr
        BY <1>1, <1>5, <1>6 DEF Private
    <2>2. \A o \in owned : BootClusters(spc) <= o.run.lcn
        BY <1>1, <1>5, <1>6 DEF Rising, Ended, Given
    <2> QED BY <2>1, <2>2
<1>7. Undisturbed' => Fitting(run)
    <2>1. ASSUME Undisturbed' PROVE \A o \in owned : Apart(o.run, run)
        BY <1>3, <1>6, <2>1 DEF Apart
    <2> QED BY <1>1, <1>2, <1>3, <1>6, <2>1 DEF Fitting
<1>8. Exact' /\ Private'
    BY <1>1, <1>3, <1>4, <1>7, GiveExact
<1>9. Rising'
    BY <1>4 DEF Rising, Ended, Given
<1> QED BY <1>8, <1>9

\* A list of no runs.
LEMMA EmptyList == <<>> \in Seq(RunSet) /\ Sorted(<<>>) /\ Covered(<<>>) = {}
<1>1. <<>> \in Seq(RunSet) /\ 1 .. Len(<<>>) = {}
    BY EmptySeq
<1> QED BY <1>1 DEF Sorted, Covered

\* The bits behind the volume come first.
LEMMA TailPrivate ==
    ASSUME Types, Fresh, Rising, Private, BitmapTail
    PROVE  Exact' /\ Rising' /\ Private'
<1> DEFINE length == BitmapBits(num, spc) - Nr
           run == Run(Nr, length)
<1>1. /\ pc = "tail" /\ BitmapAllocate("", run, TRUE, "mftbmp")
    BY DEF BitmapTail
<1>2. /\ Nr \in Nat /\ BitmapBits(num, spc) \in Nat /\ Nr <= BitmapBits(num, spc)
    BY <1>1, PlacesNow DEF Ended
<1>3. length \in Nat /\ Nr + length = BitmapBits(num, spc)
    BY <1>2
<1> HIDE DEF length
<1>4. run.lcn = Nr /\ run.length = length
    BY <1>2, <1>3, NewRun
<1> HIDE DEF run
<1>5. pc' \in {"mftbmp", "cleanup"} /\ num' = num /\ spc' = spc
    BY <1>1, SingleGoes, Zenon
<1>6. Undisturbed' => Undisturbed
    BY <1>1, SingleGoes, Zenon
<1>7. owned' = owned /\ (~oom' => alloc' = Marked(alloc, run.lcn, run.length))
    <2>1. owned' = owned
        BY <1>1, Zenon DEF BitmapAllocate
    <2>2. ~oom' => alloc' = Marked(alloc, run.lcn, run.length)
        BY <1>1, Zenon DEF BitmapAllocate
    <2> QED BY <2>1, <2>2
<1>8. ASSUME Undisturbed' PROVE owned' = {} /\ alloc = <<>> /\ alloc' = Marked(alloc, Nr, length)
    <2>1. owned = {}
        BY <1>1, <1>6, <1>8 DEF Rising
    <2>2. alloc = <<>>
        BY <1>1, <1>6, <1>8 DEF Fresh, Undisturbed
    <2>3. ~oom'
        BY <1>8 DEF Undisturbed
    <2> QED BY <1>4, <1>7, <2>1, <2>2, <2>3, Zenon
<1>9. Nr' = Nr /\ Behind' = Nr .. Nr + length - 1
    <2>1. Nr' = Nr /\ Behind' = Behind
        BY <1>5 DEF Nr, Behind
    <2>2. Behind = Nr .. Nr + length - 1
        BY <1>2, <1>3 DEF Behind
    <2> QED BY <2>1, <2>2
<1>10. Exact'
    <2>1. ASSUME Undisturbed'
          PROVE  /\ alloc' \in Seq(RunSet) /\ Sorted(alloc')
                 /\ Covered(alloc') = Nr .. Nr + length - 1
        <3>1. /\ <<>> \in Seq(RunSet) /\ Sorted(<<>>) /\ Covered(<<>>) = {}
            BY EmptyList
        <3>2. CASE length = 0
            <4>1. alloc' = <<>>
                BY <1>8, <2>1, <3>2, Zenon DEF Marked
            <4>2. Nr .. Nr + length - 1 = {}
                BY <1>2, <3>2
            <4> QED BY <3>1, <4>1, <4>2, Zenon
        <3>3. CASE length \in Nat \ {0}
            <4> DEFINE list == alloc
            <4>1. list \in Seq(RunSet) /\ Sorted(list) /\ Covered(list) = {}
                BY <1>8, <2>1, <3>1, Zenon
            <4>2. alloc' = Marked(list, Nr, length)
                BY <1>8, <2>1
            <4> HIDE DEF list
            <4>3. \A c \in Nr .. Nr + length - 1 : c \notin Covered(list)
                BY <4>1
            <4>4. /\ alloc' \in Seq(RunSet) /\ Sorted(alloc')
                  /\ Covered(alloc') = Covered(list) \cup (Nr .. Nr + length - 1)
                BY <1>2, <3>3, <4>1, <4>2, <4>3, MarkedExact
            <4> QED BY <4>1, <4>4
        <3> QED BY <1>3, <3>2, <3>3
    <2>2. Undisturbed' => Taken(owned') = {}
        BY <1>8 DEF Taken
    <2>3. InHand' = {}
        BY <1>5 DEF InHand
    <2> QED BY <1>9, <2>1, <2>2, <2>3 DEF Exact
<1>11. Rising'
    BY <1>5, <1>8 DEF Rising, Ended, Given
<1>12. Private'
    <2>1. \A o \in owned' : o.run \in RunSet
        BY <1>7 DEF Private
    <2> QED BY <1>5, <1>8, <2>1 DEF Private, Given
<1> QED BY <1>10, <1>11, <1>12

-----------------------------------------------------------------------------
(* The scan takes clusters that nobody has.                                 *)

\* The runs of a runlist do not meet, nor do they meet what has been given away.
Free(list, n, given) ==
    \A i \in 1 .. Len(list) :
        /\ list[i].length > 0 /\ End(list[i]) <= n
        /\ \A j \in 1 .. Len(list) : i # j => Apart(list[i], list[j])
        /\ \A o \in given : Apart(o.run, list[i])

\* One more cluster at the end of a run, which a run beside it does not have.
LEMMA GrownApart ==
    ASSUME NEW r \in RunSet, NEW s \in RunSet, s.length > 0, Apart(s, r), NEW t \in RunSet,
           t.lcn = r.lcn, t.length = r.length + 1, End(r) \notin ClustersOf(s)
    PROVE  Apart(s, t)
<1>1. /\ r.lcn \in Nat /\ End(r) \in Nat /\ s.lcn \in Nat /\ s.length \in Nat
      /\ End(s) = s.lcn + s.length /\ End(t) = End(r) + 1
    BY RunFields DEF End
<1>2. ~(s.lcn <= End(r) /\ End(r) < End(s))
    BY <1>1, RunFields
<1> QED BY <1>1, <1>2 DEF Apart

\* A run of one cluster, which another run does not have.
LEMMA NewApart ==
    ASSUME NEW s \in RunSet, NEW c \in Nat, c \notin ClustersOf(s)
    PROVE  Apart(s, Run(c, 1))
<1>1. s.lcn \in Nat /\ End(s) \in Nat /\ ~(s.lcn <= c /\ c < End(s))
    BY RunFields
<1>2. Run(c, 1).lcn = c /\ End(Run(c, 1)) = c + 1
    BY NewRun
<1> QED BY <1>1, <1>2 DEF Apart

\* The runlist stays free of the others with a cluster that nobody has.
LEMMA ExtendedFree ==
    ASSUME NEW list \in Seq(RunSet), NEW c \in Nat, NEW n \in Nat, c < n, NEW given,
           \A o \in given : o.run \in RunSet /\ o.run.length > 0 /\ c \notin ClustersOf(o.run),
           c \notin Covered(list), Free(list, n, given)
    PROVE  Free(Extended(list, c), n, given)
<1> DEFINE new == Extended(list, c)
<1>1. /\ new \in Seq(RunSet) /\ Len(list) \in Nat /\ Len(new) \in Nat
      /\ \A i \in 1 .. Len(new) : new[i] \in RunSet
      /\ \A i \in 1 .. Len(list) : list[i] \in RunSet /\ c \notin ClustersOf(list[i])
    BY ExtendedIs, ListRuns
<1>2. \A i \in 1 .. Len(list) :
        /\ list[i].length > 0 /\ End(list[i]) <= n /\ End(list[i]) \in Nat
        /\ \A j \in 1 .. Len(list) : i # j => Apart(list[i], list[j])
        /\ \A o \in given : Apart(o.run, list[i])
    BY <1>1, RunFields DEF Free
<1>3. ASSUME Grown(new, list, c) PROVE Free(new, n, given)
    <2> HIDE DEF new
    <2>1. PICK k \in 1 .. Len(list) :
             /\ End(list[k]) = c /\ new[k].lcn = list[k].lcn
             /\ new[k].length = list[k].length + 1
             /\ \A j \in 1 .. Len(list) : j # k => new[j] = list[j]
        BY <1>3 DEF Grown
    <2>2. Len(new) = Len(list)
        BY <1>3 DEF Grown
    <2>3. new[k].length > 0 /\ End(new[k]) = c + 1
        <3>1. new[k] \in RunSet /\ list[k] \in RunSet
            BY <1>1, <2>2
        <3>2. new[k].lcn \in Nat /\ list[k].length \in Nat /\ End(list[k]) = list[k].lcn + list[k].length
            BY <3>1, RunFields
        <3>3. End(new[k]) = new[k].lcn + new[k].length
            BY DEF End
        <3> DEFINE lcn == list[k].lcn
                   length == list[k].length
                   more == new[k].length
                   e == End(new[k])
        <3>4. lcn \in Nat /\ length \in Nat /\ more = length + 1 /\ e = lcn + more /\ c = lcn + length
            BY <2>1, <3>2, <3>3
        <3> HIDE DEF lcn, length, more, e
        <3>5. more > 0 /\ e = c + 1
            BY <3>4
        <3> QED BY <3>5 DEF more, e
    <2>4. \A j \in 1 .. Len(list) : j # k => Apart(list[j], new[k])
        <3>1. ASSUME NEW j \in 1 .. Len(list), j # k PROVE Apart(list[j], new[k])
            <4>1. /\ list[j] \in RunSet /\ list[k] \in RunSet /\ new[k] \in RunSet
                  /\ list[j].length > 0 /\ Apart(list[j], list[k])
                  /\ End(list[k]) \notin ClustersOf(list[j])
                BY <1>1, <1>2, <2>1, <2>2, <3>1
            <4> QED BY <2>1, <4>1, GrownApart
        <3> QED BY <3>1
    <2>5. \A o \in given : Apart(o.run, new[k])
        <3>1. ASSUME NEW o \in given PROVE Apart(o.run, new[k])
            <4>1. /\ list[k] \in RunSet /\ new[k] \in RunSet
                  /\ Apart(o.run, list[k]) /\ End(list[k]) \notin ClustersOf(o.run)
                BY <1>1, <1>2, <2>1, <2>2
            <4> QED BY <2>1, <4>1, GrownApart
        <3> QED BY <3>1
    <2>6. ASSUME NEW i \in 1 .. Len(list)
          PROVE  /\ new[i].length > 0 /\ End(new[i]) <= n
                 /\ \A j \in 1 .. Len(list) : i # j => Apart(new[i], new[j])
                 /\ \A o \in given : Apart(o.run, new[i])
        <3>1. CASE i = k
            <4>1. \A j \in 1 .. Len(list) : i # j => Apart(new[i], new[j])
                BY <2>1, <2>4, <3>1, ApartSym
            <4>2. End(new[i]) <= n
                BY <2>3, <3>1
            <4> QED BY <2>3, <2>5, <3>1, <4>1, <4>2
        <3>2. CASE i # k
            <4>1. \A j \in 1 .. Len(list) : i # j => Apart(new[i], new[j])
                BY <1>2, <2>1, <2>4, <3>2
            <4>2. new[i] = list[i]
                BY <2>1, <3>2
            <4> QED BY <1>2, <4>1, <4>2
        <3> QED BY <3>1, <3>2
    <2> QED BY <2>2, <2>6 DEF Free
<1>4. ASSUME Longer(new, list, c) PROVE Free(new, n, given)
    <2> HIDE DEF new
    <2> DEFINE k == Len(list) + 1
               r == Run(c, 1)
    <2>1. /\ new[k] = r /\ \A j \in 1 .. Len(list) : new[j] = list[j]
          /\ \A j \in 1 .. Len(new) : j \in 1 .. Len(list) \/ j = k
        BY <1>1, <1>4 DEF Longer
    <2>2. \A j \in 1 .. Len(list) : Apart(list[j], r)
        BY <1>1, NewApart
    <2>3. \A o \in given : Apart(o.run, r)
        BY NewApart
    <2>4. r.length > 0 /\ End(r) <= n
        <3>1. r.length = 1 /\ End(r) = c + 1
            BY NewRun
        <3> HIDE DEF r
        <3> QED BY <3>1
    <2> HIDE DEF k, r
    <2>5. ASSUME NEW i \in 1 .. Len(new)
          PROVE  /\ new[i].length > 0 /\ End(new[i]) <= n
                 /\ \A j \in 1 .. Len(new) : i # j => Apart(new[i], new[j])
                 /\ \A o \in given : Apart(o.run, new[i])
        <3>1. CASE i = k
            <4>1. \A j \in 1 .. Len(new) : i # j => Apart(new[i], new[j])
                BY <2>1, <2>2, <3>1, ApartSym
            <4> QED BY <2>1, <2>3, <2>4, <3>1, <4>1
        <3>2. CASE i \in 1 .. Len(list)
            <4>1. \A j \in 1 .. Len(new) : i # j => Apart(new[i], new[j])
                BY <1>2, <2>1, <2>2, <3>2
            <4>2. new[i] = list[i]
                BY <2>1, <3>2
            <4> QED BY <1>2, <3>2, <4>1, <4>2
        <3> QED BY <2>1, <3>1, <3>2
    <2> QED BY <2>5 DEF Free
<1> QED BY <1>3, <1>4, ExtendedIs

\* What a runlist adds to what has been given away.
LEMMA TakenListed ==
    ASSUME NEW given, NEW file, NEW list
    PROVE  /\ Taken(given \cup Listed(file, list)) = Taken(given) \cup Covered(list)
           /\ \A o \in Listed(file, list) : \E i \in 1 .. Len(list) : o.run = list[i]
           /\ \A a, b \in Listed(file, list) : a # b => 
                 \E i, j \in 1 .. Len(list) : i # j /\ a.run = list[i] /\ b.run = list[j]
<1> DEFINE new == Listed(file, list)
           Entry(i) == [file |-> file, run |-> list[i]]
<1>1. \A o \in new : \E i \in 1 .. Len(list) : o = Entry(i)
    BY DEF Listed
<1>2. \A i \in 1 .. Len(list) : Entry(i) \in new
    BY DEF Listed
<1>3. \A i : Entry(i).run = list[i]
    OBVIOUS
<1> HIDE DEF new, Entry
<1>4. Taken(given \cup new) = Taken(given) \cup Covered(list)
    <2>1. UNION {ClustersOf(o.run) : o \in new} = UNION {ClustersOf(list[i]) : i \in 1 .. Len(list)}
        BY <1>1, <1>2, <1>3
    <2> QED BY <2>1 DEF Taken, Covered
<1>5. \A o \in new : \E i \in 1 .. Len(list) : o.run = list[i]
    BY <1>1, <1>3
<1>6. ASSUME NEW a \in new, NEW b \in new, a # b
      PROVE  \E i, j \in 1 .. Len(list) : i # j /\ a.run = list[i] /\ b.run = list[j]
    <2>1. PICK i \in 1 .. Len(list) : a = Entry(i)
        BY <1>1
    <2>2. PICK j \in 1 .. Len(list) : b = Entry(j)
        BY <1>1
    <2>3. i # j
        BY <1>6, <2>1, <2>2
    <2>4. a.run = list[i] /\ b.run = list[j]
        BY <1>3, <2>1, <2>2
    <2> QED BY <2>3, <2>4
<1> QED BY <1>4, <1>5, <1>6 DEF new

\* One more cluster for the runlist.
LEMMA TakePrivate ==
    ASSUME Types, Exact, Private, TakeCluster
    PROVE  Exact' /\ Rising' /\ Private'
<1>1. /\ pc = "scatter" /\ at < end /\ at \in Nat /\ end \in Nat /\ rl \in Seq(RunSet)
      /\ rl' = Extended(rl, at)
      /\ num' = num /\ spc' = spc /\ zoneEnd' = zoneEnd /\ end' = end /\ inProcess' = inProcess
    BY TakeIs DEF Types
<1>2. \/ pc' = "attribute" /\ owned' = owned \cup Listed(Scattered[want], rl')
      \/ pc' = "scatter" /\ owned' = owned
    BY TakeIs, Zenon DEF Listed
<1>3. ~Bit(alloc, at) /\ (~oom' => ~oom /\ alloc' = Marked(alloc, at, 1))
    <2>1. \/ alloc' = Marked(alloc, at, 1) /\ UNCHANGED <<oom, faults>>
          \/ oom' = TRUE
        BY Zenon DEF TakeCluster
    <2>2. ~Bit(alloc, at)
        BY Zenon DEF TakeCluster
    <2> QED BY <2>1, <2>2
<1>4. rl' \in Seq(RunSet) /\ Covered(rl') = Covered(rl) \cup {at}
    BY <1>1, ExtendedIs, ExtendedCovers
<1>5. Nr' = Nr /\ Behind' = Behind
    BY <1>1 DEF Nr, Behind
<1>6. Nr \in Nat
    BY <1>1, RoomNow DEF Ended
<1>7. \A o \in owned : o.run \in RunSet
    BY DEF Private
<1>8. \A o \in owned' : o.run \in RunSet
    <2>1. ASSUME NEW o \in Listed(Scattered[want], rl')
          PROVE  \E i \in 1 .. Len(rl') : o.run = rl'[i]
        BY DEF Listed
    <2>2. \A i \in 1 .. Len(rl') : rl'[i] \in RunSet
        BY <1>4, ListRuns
    <2> QED BY <1>2, <1>7, <2>1, <2>2
<1>9. ASSUME Undisturbed'
      PROVE  /\ Undisturbed /\ alloc' \in Seq(RunSet) /\ Sorted(alloc')
             /\ Covered(alloc') = Behind \cup Taken(owned) \cup Covered(rl')
             /\ Free(rl', Nr, owned)
    <2>1. Undisturbed /\ alloc' = Marked(alloc, at, 1)
        BY <1>1, <1>3, <1>9 DEF Undisturbed
    <2>2. /\ alloc \in Seq(RunSet) /\ Sorted(alloc)
          /\ Covered(alloc) = Behind \cup Taken(owned) \cup Covered(rl)
        BY <1>1, <2>1 DEF Exact, InHand, Ended
    <2>3. at \notin Covered(alloc)
        BY <1>1, <1>3, <2>2, BitExact
    <2>4. at .. at + 1 - 1 = {at} /\ 1 \in Nat \ {0}
        BY <1>1
    <2>5. \A c \in at .. at + 1 - 1 : c \notin Covered(alloc)
        BY <2>3, <2>4
    <2>6. /\ Marked(alloc, at, 1) \in Seq(RunSet) /\ Sorted(Marked(alloc, at, 1))
          /\ Covered(Marked(alloc, at, 1)) = Covered(alloc) \cup (at .. at + 1 - 1)
        BY <1>1, <2>2, <2>4, <2>5, MarkedExact
    <2>7. Covered(alloc') = Behind \cup Taken(owned) \cup Covered(rl')
        BY <1>4, <2>1, <2>2, <2>4, <2>6
    <2>8. Free(rl, Nr, owned)
        BY <1>1, <2>1 DEF Private, Free
    <2>9. at < Nr
        <3>1. end <= Nr
            BY <1>1, <2>1 DEF Private
        <3> QED BY <1>1, <1>6, <3>1
    <2>10. \A o \in owned : o.run \in RunSet /\ o.run.length > 0 /\ at \notin ClustersOf(o.run)
        <3>1. \A o \in owned : o.run.length > 0
            BY <1>1, <2>1 DEF Private, Ended
        <3>2. \A o \in owned : at \notin ClustersOf(o.run)
            BY <2>2, <2>3 DEF Taken
        <3> QED BY <1>7, <3>1, <3>2
    <2>11. at \notin Covered(rl)
        BY <2>2, <2>3
    <2>12. Free(Extended(rl, at), Nr, owned)
        BY <1>1, <1>6, <2>8, <2>9, <2>10, <2>11, ExtendedFree
    <2> QED BY <1>1, <2>1, <2>6, <2>7, <2>12
<1>10. CASE pc' = "scatter" /\ owned' = owned
    <2>1. Exact'
        BY <1>5, <1>9, <1>10 DEF Exact, InHand
    <2>2. Rising'
        BY <1>10 DEF Rising, Given
    <2>3. ASSUME Undisturbed'
          PROVE  /\ zoneEnd <= Nr /\ end <= Nr /\ \A a, b \in owned : a # b => Apart(a.run, b.run)
                 /\ \A o \in owned : End(o.run) <= Nr /\ o.run.length > 0
        BY <1>1, <1>9, <2>3 DEF Private, Given, Ended
    <2>4. Private'
        BY <1>1, <1>5, <1>8, <1>9, <1>10, <2>3 DEF Private, Free
    <2> QED BY <2>1, <2>2, <2>4
<1>11. CASE pc' = "attribute" /\ owned' = owned \cup Listed(Scattered[want], rl')
    <2> DEFINE new == Listed(Scattered[want], rl')
    <2>1. /\ Taken(owned') = Taken(owned) \cup Covered(rl')
          /\ \A o \in new : \E i \in 1 .. Len(rl') : o.run = rl'[i]
          /\ \A a, b \in new : a # b =>
                \E i, j \in 1 .. Len(rl') : i # j /\ a.run = rl'[i] /\ b.run = rl'[j]
        BY <1>11, TakenListed
    <2>2. owned' = owned \cup new
        BY <1>11
    <2> HIDE DEF new
    <2>3. Exact'
        <3>1. InHand' = {}
            BY <1>11 DEF InHand
        <3> QED BY <1>5, <1>9, <2>1, <3>1 DEF Exact
    <2>4. Rising'
        BY <1>11 DEF Rising, Given
    <2>5. ASSUME Undisturbed'
          PROVE  /\ zoneEnd <= Nr /\ \A a, b \in owned : a # b => Apart(a.run, b.run)
                 /\ \A o \in owned : End(o.run) <= Nr /\ o.run.length > 0
        BY <1>1, <1>9, <2>5 DEF Private, Given, Ended
    <2>6. ASSUME Undisturbed', NEW a \in owned', NEW b \in owned', a # b
          PROVE  Apart(a.run, b.run)
        <3>1. CASE a \in owned /\ b \in owned
            BY <2>5, <2>6, <3>1
        <3>2. CASE a \in owned /\ b \in new
            BY <1>9, <2>1, <2>6, <3>2 DEF Free
        <3>3. CASE a \in new /\ b \in owned
            BY <1>9, <2>1, <2>6, <3>3, ApartSym DEF Free
        <3>4. CASE a \in new /\ b \in new
            BY <1>9, <2>1, <2>6, <3>4 DEF Free
        <3> QED BY <2>2, <2>6, <3>1, <3>2, <3>3, <3>4
    <2>7. ASSUME Undisturbed', NEW o \in owned' PROVE End(o.run) <= Nr /\ o.run.length > 0
        <3>1. CASE o \in owned
            BY <2>5, <2>7, <3>1
        <3>2. CASE o \in new
            BY <1>9, <2>1, <2>7, <3>2 DEF Free
        <3> QED BY <2>2, <2>7, <3>1, <3>2
    <2>8. Private'
        BY <1>1, <1>5, <1>8, <1>11, <2>5, <2>6, <2>7 DEF Private
    <2> QED BY <2>3, <2>4, <2>8
<1> QED BY <1>2, <1>10, <1>11

\* Every step keeps files apart and the list exact.
LEMMA NextPrivate ==
    ASSUME Types, Types', Fresh, Exact, Rising, Private, [Next]_vars
    PROVE  Exact' /\ Rising' /\ Private'
<1>1. CASE Begin \/ Restart
    <2>1. owned' = {} /\ pc' \in {"params", "idle"}
        BY <1>1 DEF Begin, Restart, Goto
    <2>2. Exact'
        BY <2>1 DEF Exact, Ended
    <2>3. Rising'
        BY <2>1 DEF Rising
    <2>4. Private'
        BY <2>1 DEF Private, Given
    <2> QED BY <2>2, <2>3, <2>4
<1>2. CASE OverrideVolParams
    <2>1. /\ pc = "params" /\ pc' \in {"cleanup", "tail"}
          /\ UNCHANGED <<num, spc, owned, oom, inProcess>>
        BY <1>2 DEF OverrideVolParams, Goto, volVars, callVars
    <2>2. Exact'
        BY <2>1 DEF Exact, Ended
    <2>3. (Undisturbed' => Undisturbed) /\ Nr' = Nr
        BY <2>1 DEF Undisturbed, Nr
    <2>4. Undisturbed' => owned' = {}
        BY <2>1, <2>3 DEF Rising
    <2>5. Rising'
        BY <2>4 DEF Rising
    <2>6. Private'
        BY <2>1, <2>4 DEF Private, Given
    <2> QED BY <2>2, <2>5, <2>6
<1>3. CASE BitmapTail
    BY <1>3, TailPrivate
<1>4. CASE MftBitmap
    BY <1>4, MftBitmapPrivate
<1>5. CASE Mft
    BY <1>5, MftPrivate
<1>6. CASE MftMirr
    BY <1>6, MftMirrPrivate
<1>7. CASE LogFile
    BY <1>7, LogFilePrivate
<1>8. CASE Boot
    BY <1>8, BootPrivate
<1>9. CASE Attribute
    <2>1. /\ pc = "attribute" /\ UNCHANGED <<num, spc, alloc, zoneEnd, owned, oom, inProcess>>
          /\ (pc' = "sync" \/ (pc' = "scatter" /\ end' = Nr /\ rl' = <<>>))
        BY <1>9, AttributeIs
    <2>2. Undisturbed' = Undisturbed /\ Nr' = Nr /\ Behind' = Behind
        BY <2>1 DEF Undisturbed, Nr, Behind
    <2>3. InHand = {}
        BY <2>1 DEF InHand
    <2>4. InHand' = {}
        <3>1. CASE pc' = "sync"
            BY <3>1 DEF InHand
        <3>2. CASE rl' = <<>>
            <4>1. Covered(rl') = {}
                BY <3>2, EmptyList, Zenon
            <4> QED BY <4>1 DEF InHand
        <3> QED BY <2>1, <3>1, <3>2
    <2>5. Exact'
        BY <2>1, <2>2, <2>3, <2>4 DEF Exact, Ended
    <2>6. Rising'
        BY <2>1 DEF Rising, Given
    <2>7. pc' = "scatter" => 1 .. Len(rl') = {} /\ end' = Nr
        BY <2>1, EmptySeq
    <2>8. Nr \in Nat
        BY <2>1, RoomNow DEF Ended
    <2>9. Private'
        BY <2>1, <2>2, <2>7, <2>8 DEF Private, Given, Ended
    <2> QED BY <2>5, <2>6, <2>9
<1>10. CASE SkipCluster
    <2>1. UNCHANGED <<num, spc, alloc, zoneEnd, pc, end, rl, owned, oom, inProcess>> /\ pc = "scatter"
        BY <1>10 DEF SkipCluster, volVars, callVars
    <2>2. Undisturbed' = Undisturbed /\ Nr' = Nr /\ Behind' = Behind /\ InHand' = InHand
        BY <2>1 DEF Undisturbed, Nr, Behind, InHand
    <2>3. Exact'
        BY <2>1, <2>2 DEF Exact
    <2>4. Rising'
        BY <2>1 DEF Rising, Given
    <2>5. Private'
        BY <2>1, <2>2 DEF Private
    <2> QED BY <2>3, <2>4, <2>5
<1>11. CASE TakeCluster
    BY <1>11, TakePrivate
<1>12. CASE NextZone
    <2>1. /\ UNCHANGED <<num, spc, alloc, pc, rl, owned, oom, inProcess>> /\ pc = "scatter"
          /\ end' = zoneEnd /\ zoneEnd' = zoneEnd \div 2
        BY <1>12 DEF NextZone, volVars, callVars
    <2>2. Undisturbed' = Undisturbed /\ Nr' = Nr /\ Behind' = Behind /\ InHand' = InHand
        BY <2>1 DEF Undisturbed, Nr, Behind, InHand
    <2>3. Exact'
        BY <2>1, <2>2 DEF Exact
    <2>4. Rising'
        BY <2>1 DEF Rising, Given
    <2>5. Nr \in Nat
        BY <2>1, RoomNow DEF Ended
    <2>6. Undisturbed' => zoneEnd' <= Nr /\ end' <= Nr
        <3>1. Undisturbed' => zoneEnd <= Nr
            BY <2>1, <2>2 DEF Private, Given
        <3>2. zoneEnd \in Nat
            BY DEF Types
        <3> QED BY <2>1, <2>5, <3>1, <3>2
    <2>7. Private'
        BY <2>1, <2>2, <2>6 DEF Private
    <2> QED BY <2>3, <2>4, <2>7
<1>13. CASE ScatterFails \/ Sync \/ IoFails \/ Cleanup
    <2>1. /\ UNCHANGED <<num, spc, owned, oom, inProcess>>
          /\ pc' \in Ended
        BY <1>13 DEF ScatterFails, Sync, IoFails, Cleanup, Goto, volVars, callVars, Ended
    <2>2. Undisturbed' = Undisturbed /\ Nr' = Nr
        BY <2>1 DEF Undisturbed, Nr
    <2>3. Exact'
        BY <2>1 DEF Exact
    <2>4. Rising'
        BY <2>1 DEF Rising, Ended
    <2>5. Private'
        BY <2>1, <2>2 DEF Private, Ended, Given
    <2> QED BY <2>3, <2>4, <2>5
<1>14. CASE UNCHANGED vars
    <2>1. UNCHANGED <<num, spc, alloc, zoneEnd, pc, end, rl, owned, oom, inProcess>>
        BY <1>14 DEF vars, volVars, callVars, scanVars
    <2>2. Undisturbed' = Undisturbed /\ Nr' = Nr /\ Behind' = Behind /\ InHand' = InHand
        BY <2>1 DEF Undisturbed, Nr, Behind, InHand
    <2>3. Exact'
        BY <2>1, <2>2 DEF Exact
    <2>4. Rising'
        BY <2>1, <2>2 DEF Rising
    <2>5. Private'
        BY <2>1, <2>2 DEF Private
    <2> QED BY <2>3, <2>4, <2>5
<1> QED BY <1>1, <1>2, <1>3, <1>4, <1>5, <1>6, <1>7, <1>8, <1>9, <1>10, <1>11, <1>12, <1>13, <1>14
       DEF Next, Step

-----------------------------------------------------------------------------
(* The theorems.                                                            *)

\* The process begins with no list, and nothing given away.
LEMMA InitInv == Init => MkInv
<1> SUFFICES ASSUME Init PROVE MkInv
    OBVIOUS
<1>1. /\ num = 0 /\ spc = 8 /\ pc = "idle" /\ inProcess = 0 /\ mftLcn = 0 /\ zoneEnd = 0
      /\ want = 0 /\ left = 0 /\ at = 0 /\ end = 0 /\ owned = {}
    BY DEF Init
<1>2. rl = <<>> /\ alloc = <<>> /\ rl \in Seq(RunSet)
    BY EmptyList, Zenon DEF Init
<1>3. Types
    BY <1>1, <1>2 DEF Types, Labels, Ended, Given, ClusterSizes
<1>4. Scan /\ Counted /\ Exact
    BY <1>1 DEF Scan, Counted, Exact, Ended
<1>5. Fresh
    BY <1>1, <1>2 DEF Fresh
<1>6. Rising /\ Private
    BY <1>1 DEF Rising, Private, Undisturbed
<1> QED BY <1>3, <1>4, <1>5, <1>6 DEF MkInv

\* The invariant of a run of mkntfs: what each file of the volume has been given, what
\* the scan of allocate_scattered_clusters has in hand and has still to find, and that
\* g_allocation marks just that.
THEOREM MkntfsInvariance == Spec => []MkInv
<1>1. ASSUME MkInv, [Next]_vars PROVE MkInv'
    <2>1. Types'
        BY <1>1, NextTypes DEF MkInv
    <2>2. Scan' /\ Counted'
        BY <1>1, <2>1, NextCounted DEF MkInv
    <2>3. Fresh'
        BY <1>1, NextFresh DEF MkInv
    <2>4. Exact' /\ Rising' /\ Private'
        BY <1>1, <2>1, NextPrivate DEF MkInv
    <2> QED BY <2>1, <2>2, <2>3, <2>4 DEF MkInv
<1> QED BY <1>1, InitInv, PTL DEF Spec

\* No cluster belongs to two files in the first run of mkntfs in a process, and every
\* file lies inside the volume, on every partition and with every cluster size.
THEOREM ClustersNeverShared == Spec => []NoClusterShared
<1>1. MkInv => NoClusterShared
    BY DEF MkInv, Private, NoClusterShared
<1> QED BY <1>1, MkntfsInvariance, PTL

\* The runlists of the scattered attributes name as many clusters as each attribute
\* needs when mkntfs_sync is reached, in every run of a process, whatever the list of
\* an earlier run or a failing malloc did to the scan.
THEOREM RunlistsAlwaysComplete == Spec => []RunlistsComplete
<1>1. ASSUME MkInv, pc = "sync", NEW i \in 1 .. Len(Scattered)
      PROVE  Cardinality(Holds(owned, Scattered[i])) = ScatteredClusters(num, spc, i)
    <2>1. i \in 1 .. 5
        BY Names
    <2>2. want = 5 /\ Finished = 5
        BY <1>1 DEF MkInv, Types, Finished
    <2> QED BY <1>1, <2>1, <2>2 DEF MkInv, Counted, Ended
<1>2. ASSUME NEW file
      PROVE  LET mine == {o.run : o \in {x \in owned : x.file = file}} IN
             UNION {r.lcn .. End(r) - 1 : r \in mine} = Holds(owned, file)
    BY DEF Holds, ClustersOf
<1>3. MkInv => RunlistsComplete
    BY <1>1, <1>2, Zenon DEF RunlistsComplete
<1> QED BY <1>3, MkntfsInvariance, PTL

\* The bitmap that the first run of mkntfs in a process writes marks just the clusters
\* of the files and the bits behind the volume.
THEOREM BitmapAlwaysExact == Spec => []BitmapExact
<1> DEFINE bits == BitmapBits(num, spc)
<1>1. ASSUME MkInv, pc = "sync", Undisturbed
      PROVE  BitsSet(alloc, bits) = (Nr .. bits - 1) \cup UNION {o.run.lcn .. End(o.run) - 1 : o \in owned}
    <2>1. /\ alloc \in Seq(RunSet) /\ Covered(alloc) = Behind \cup Taken(owned)
        BY <1>1 DEF MkInv, Exact, InHand, Ended
    <2>2. Nr \in Nat /\ bits \in Nat /\ Nr <= bits
        BY <1>1, PlacesNow DEF MkInv, Ended
    <2>3. Behind = Nr .. bits - 1
        BY DEF Behind
    <2> HIDE DEF bits
    <2>4. BitsSet(alloc, bits) = {c \in 0 .. bits - 1 : c \in Covered(alloc)}
        <3>1. ASSUME NEW c \in 0 .. bits - 1
              PROVE  (\E i \in 1 .. Len(alloc) : alloc[i].lcn <= c /\ c < End(alloc[i]))
                        <=> c \in Covered(alloc)
            <4>1. c \in Nat
                BY <2>2
            <4>2. \A i \in 1 .. Len(alloc) :
                     alloc[i].lcn <= c /\ c < End(alloc[i]) <=> c \in ClustersOf(alloc[i])
                BY <2>1, <4>1, ListRuns, RunFields
            <4> QED BY <2>1, <4>2, ListRuns
        <3> QED BY <3>1 DEF BitsSet
    <2>5. ASSUME NEW c \in Taken(owned) PROVE c \in 0 .. bits - 1
        <3>1. PICK o \in owned : c \in ClustersOf(o.run)
            BY DEF Taken
        <3>2. o.run \in RunSet /\ End(o.run) <= Nr
            BY <1>1 DEF MkInv, Private
        <3>3. c \in Nat /\ c < End(o.run) /\ End(o.run) \in Nat
            BY <3>1, <3>2, RunFields
        <3> QED BY <2>2, <3>2, <3>3
    <2>6. ASSUME NEW c \in Behind PROVE c \in 0 .. bits - 1
        BY <2>2, <2>3
    <2>7. BitsSet(alloc, bits) = Behind \cup Taken(owned)
        BY <2>1, <2>4, <2>5, <2>6
    <2> QED BY <2>3, <2>7 DEF Taken, ClustersOf
<1>2. MkInv => BitmapExact
    BY <1>1, Zenon DEF BitmapExact
<1> QED BY <1>2, MkntfsInvariance, PTL

=============================================================================
