------------------------------ MODULE VfsProofs ------------------------------
(***************************************************************************)
(* Theorems about the file system on the disk (DfsTree) and about the root *)
(* that is switched to it (Vfs), for every disk, every table of inodes and *)
(* every set of paths: no sector is in two files, none is lost but by a    *)
(* power failure, the tree is whole and files read as they were written.   *)
(***************************************************************************)
EXTENDS Vfs, FiniteSetTheorems, FunctionTheorems, SequenceTheorems, WellFoundedInduction, TLAPS

Value == Data \cup {Stale}
Extent == [start : Nat, logical : Nat, count : Nat \ {0}]
Extents == Seq(Extent)
Texts == Seq(Value)
AnyPath == Paths \cup {Root}
Inode == [kind : {"free", "directory", "file"}, path : AnyPath, size : Nat, extents : Extents]

Disks == [nodes : [Inodes \cup {0} -> Inode], bitmap : SUBSET Sectors, data : [Sectors -> Value]]
Calls == [kind : {"none", "write", "remove", "replace"},
          phase : {"idle", "reserve", "flush", "size", "release"},
          inode : Inodes \cup {0}, node : Inode, offset : Nat, data : Texts,
          runs : Extents, path : AnyPath, goal : Texts]

\* The types of the variables.
TreeTypeOK ==
  /\ disk \in Disks
  /\ DOMAIN cache \subseteq Sectors /\ cache \in [DOMAIN cache -> Value]
  /\ call \in Calls
  /\ held \in [Inodes -> SUBSET Texts]
  /\ lost \subseteq Sectors

\* Extents that follow each other in the file and do not meet on the disk.
Chained(es) ==
  /\ es # <<>> => es[1].logical = 0
  /\ \A k \in 1 .. Len(es) - 1 : es[k + 1].logical = es[k].logical + es[k].count
Apart(es) == \A j, k \in 1 .. Len(es) : j # k => Run(es[j]) \cap Run(es[k]) = {}
Reach(es) == IF es = <<>> THEN 0 ELSE Last(es).logical + Last(es).count

NodeIsSound(node) ==
  /\ Chained(node.extents) /\ Apart(node.extents)
  /\ node.size <= Reach(node.extents)
  /\ node.kind # "file" => node.size = 0 /\ node.extents = <<>>

Numbers == Inodes \cup {0}

\* Every inode is sound; the sectors of a file are reserved and its own.
NodesAreSound(d) ==
  /\ d.nodes[0] = RootNode
  /\ \A i \in Numbers : NodeIsSound(d.nodes[i]) /\ Owned(d.nodes[i]) \subseteq d.bitmap
  /\ \A i, j \in Numbers : i # j => Owned(d.nodes[i]) \cap Owned(d.nodes[j]) = {}
  /\ \A i \in Inodes : d.nodes[i].kind # "free" => d.nodes[i].path # Root

\* TreeIsWhole, of any disk.
Whole(d) ==
  \A i \in Nodes(d) \ {0} :
    /\ IsDirectory(d, Parent(d.nodes[i].path))
    /\ At(d, d.nodes[i].path) = {i}

\* What no file has was lost, or is in the runs the call still gives back.
AllRuns(es) == UNION {Run(e) : e \in ToSet(es)}
SpaceIsAccounted(d, forgotten, runs) ==
  /\ Orphaned(d) = forgotten \cup AllRuns(runs) /\ forgotten \cap AllRuns(runs) = {}
  /\ Apart(runs)

\* The file's sector n, n counted from 1 as in its contents.
SectorOf(node, n) == CHOOSE s \in Located(node, n - 1) : TRUE
Reading(data, node) == [n \in 1 .. node.size |-> data[SectorOf(node, n)]]

Upto(c) == c.offset + Len(c.data)
Covered(c) == c.offset + 1 .. Upto(c)

\* Call c knows the file it writes, which reads as it did before or as it
\* will afterwards.
WriteIsSound(d, c, h) ==
  /\ c.kind = "write" /\ c.inode \in Inodes /\ c.runs = <<>>
  /\ d.nodes[c.inode].kind = "file" /\ c.node = d.nodes[c.inode]
  /\ c.offset <= c.node.size
  /\ h[c.inode] = DuringWrite(Reading(d.data, c.node), c.offset, c.data)
  /\ c.goal = Patched(Reading(d.data, c.node), c.offset, c.data)

\* The cache k holds the data, in the file's sectors.
FlushIsSound(d, c, k, h) ==
  /\ WriteIsSound(d, c, h) /\ Upto(c) <= Reach(c.node.extents)
  /\ DOMAIN k = {SectorOf(c.node, n) : n \in Covered(c)}
  /\ \A n \in Covered(c) : k[SectorOf(c.node, n)] = c.data[n - c.offset]

\* The data are on the disk, and the size is not.
SizeIsSound(d, c) ==
  LET node == d.nodes[c.inode]
  IN /\ c.inode \in Inodes /\ node.kind = "file" /\ c.runs = <<>>
     /\ c.node = [node EXCEPT !.size = Max({@, Upto(c)})]
     /\ Upto(c) <= Reach(node.extents)
     /\ c.goal = Reading(d.data, c.node)

ReleaseIsSound(d, c, h) ==
  \/ c.kind = "remove" /\ c.path \in Paths
  \/ /\ c.kind = "replace" /\ c.inode \in Inodes
     /\ d.nodes[c.inode].kind = "file" /\ d.nodes[c.inode].size = 0
     /\ h[c.inode] = {<<>>, c.data}

CallIsSound(d, c, k, h) ==
  /\ c.phase = "idle" => c = Idle
  /\ c.phase = "reserve" => WriteIsSound(d, c, h)
  /\ c.phase = "flush" => FlushIsSound(d, c, k, h)
  /\ c.phase = "size" => SizeIsSound(d, c)
  /\ c.phase = "release" => ReleaseIsSound(d, c, h)
  /\ c.phase # "flush" => k = [s \in {} |-> Stale]

\* What is on the disk of a file is one of the contents it may have.
DiskIsExplained(d, h) ==
  \A i \in Inodes : d.nodes[i].kind = "file" => Reading(d.data, d.nodes[i]) \in h[i]

\* The inductive invariant.
IInv ==
  /\ TreeTypeOK
  /\ NodesAreSound(disk) /\ Whole(disk)
  /\ SpaceIsAccounted(disk, lost, call.runs)
  /\ CallIsSound(disk, call, cache, held)
  /\ DiskIsExplained(disk, held)

-----------------------------------------------------------------------------
(* Naturals and folds.                                                     *)

LEMMA LeastOf ==
  ASSUME NEW S \in SUBSET Nat, S # {}
  PROVE  \E m \in S : \A x \in S : m <= x
<1>1. PICK m \in S : \A x \in S : <<x, m>> \notin OpToRel(<, Nat)
  BY WFMin, NatLessThanWellFounded, Zenon
<1>2. \A x \in S : ~(x < m)
  BY <1>1, Zenon DEF OpToRel
<1> QED BY <1>2

LEMMA MinIsLeast ==
  ASSUME NEW S \in SUBSET Nat, S # {}
  PROVE  Min(S) \in S /\ \A x \in S : Min(S) <= x
BY LeastOf DEF Min

\* Max of an interval, as the fold over a sequence asks for it.
LEMMA MaxOfInterval ==
  ASSUME NEW k \in Nat \ {0}
  PROVE  Max(1 .. k) = k
BY DEF Max

\* The fold of Allocated over the entries with number in s.
Sum(es, f, s) == IF s = {} THEN 0 ELSE f[s \ {Max(s)}] + es[Max(s)].count
Folded(es, f, n) == f = [s \in SUBSET (1 .. n) |-> Sum(es, f, s)]

LEMMA FoldGrows ==
  ASSUME NEW es, NEW n \in Nat, NEW f, Folded(es, f, n)
  PROVE  \E g : Folded(es, g, n + 1)
<1> DEFINE g == [s \in SUBSET (1 .. n + 1) |->
                   IF n + 1 \in s THEN f[s \ {n + 1}] + es[n + 1].count ELSE f[s]]
<1>1. SUFFICES ASSUME NEW s \in SUBSET (1 .. n + 1) PROVE g[s] = Sum(es, g, s)
  <2>1. ASSUME \A s \in SUBSET (1 .. n + 1) : g[s] = Sum(es, g, s)
        PROVE  Folded(es, g, n + 1)
    <3> DEFINE h == [s \in SUBSET (1 .. n + 1) |-> Sum(es, g, s)]
    <3>1. DOMAIN g = SUBSET (1 .. n + 1) /\ g = [s \in DOMAIN g |-> g[s]]
      BY Zenon
    <3> HIDE DEF g
    <3> QED BY <2>1, <3>1 DEF Folded
  <2> HIDE DEF g
  <2> QED BY <2>1, Zenon
<1>2. CASE n + 1 \in s
  <2>1. Max(s) = n + 1
    <3>1. n + 1 \in s /\ \A y \in s : y \in Nat /\ n + 1 >= y
      BY <1>1, <1>2
    <3>2. \A x \in s : x >= n + 1 => x = n + 1
      BY <3>1
    <3> HIDE DEF g
    <3> QED BY <3>1, <3>2 DEF Max
  <2>2. s \ {n + 1} \in SUBSET (1 .. n)
    OBVIOUS
  <2>3. s \ {n + 1} \in SUBSET (1 .. n + 1) /\ n + 1 \notin s \ {n + 1}
    OBVIOUS
  <2>4. g[s \ {n + 1}] = f[s \ {n + 1}]
    BY <2>3, Zenon
  <2>5. g[s] = f[s \ {n + 1}] + es[n + 1].count
    BY <1>2, Zenon
  <2>6. s # {}
    BY <1>2
  <2> HIDE DEF g
  <2> QED BY <2>1, <2>4, <2>5, <2>6 DEF Sum
<1>3. CASE n + 1 \notin s
  <2>1. s \in SUBSET (1 .. n)
    BY <1>3
  <2>2. g[s] = f[s]
    BY <1>3, Zenon
  <2>3. f[s] = Sum(es, f, s)
    BY <2>1, Zenon DEF Folded
  <2>4. s \ {Max(s)} \in SUBSET (1 .. n + 1) /\ n + 1 \notin s \ {Max(s)}
    BY <1>3
  <2>5. g[s \ {Max(s)}] = f[s \ {Max(s)}]
    BY <2>4, Zenon
  <2> HIDE DEF g
  <2> QED BY <2>2, <2>3, <2>5 DEF Sum
<1> QED BY <1>2, <1>3

LEMMA FoldExists ==
  ASSUME NEW es, NEW n \in Nat
  PROVE  \E f : Folded(es, f, n)
<1> DEFINE Missing == {m \in Nat : ~ \E f : Folded(es, f, m)}
<1>1. SUFFICES ASSUME Missing # {} PROVE FALSE
  OBVIOUS
<1>2. PICK m \in Missing : \A x \in Missing : m <= x
  BY <1>1, LeastOf, Zenon
<1>3. m # 0
  <2> DEFINE f == [s \in SUBSET (1 .. 0) |-> 0]
  <2>1. \A s \in SUBSET (1 .. 0) : s = {}
    OBVIOUS
  <2>2. \A s \in SUBSET (1 .. 0) : Sum(es, f, s) = 0
    BY <2>1 DEF Sum
  <2>3. Folded(es, f, 0)
    BY <2>2 DEF Folded
  <2> QED BY <2>3
<1>4. m - 1 \in Nat /\ ~(m <= m - 1) /\ m = (m - 1) + 1
  BY <1>3
<1>5. \E f : Folded(es, f, m - 1)
  BY <1>2, <1>4
<1>6. \E g : Folded(es, g, m)
  BY <1>4, <1>5, FoldGrows
<1> QED BY <1>6

\* The running total of an inode's extents is where the last one ends.
LEMMA AllocatedIsReach ==
  ASSUME NEW node, node.extents \in Extents, Chained(node.extents)
  PROVE  Allocated(node) = Reach(node.extents)
<1> DEFINE es == node.extents
           F == CHOOSE f : f = [s \in SUBSET (DOMAIN es) |-> Sum(es, f, s)]
           End(k) == IF k = 0 THEN 0 ELSE es[k].logical + es[k].count
           Wrong == {k \in Nat : k <= Len(es) /\ F[1 .. k] # End(k)}
<1>1. Allocated(node) = F[DOMAIN es]
  BY DEF Allocated, FoldLeft, MapThenFoldSet, Sum
<1>2. Len(es) \in Nat /\ DOMAIN es = 1 .. Len(es) /\ \A k \in 1 .. Len(es) : es[k] \in Extent
  BY DEF Extents
<1>3. F = [s \in SUBSET (1 .. Len(es)) |-> Sum(es, F, s)]
  <2>1. PICK f : Folded(es, f, Len(es))
    BY <1>2, FoldExists
  <2> QED BY <2>1, <1>2, Zenon DEF Folded
<1> HIDE DEF F
<1>4. \A s \in SUBSET (1 .. Len(es)) : F[s] = Sum(es, F, s)
  BY <1>3, Zenon
<1>5. Wrong = {}
  <2>1. SUFFICES ASSUME Wrong # {} PROVE FALSE
    OBVIOUS
  <2>2. PICK k \in Wrong : \A x \in Wrong : k <= x
    BY <2>1, LeastOf, Zenon
  <2>3. CASE k = 0
    <3>1. 1 .. k = {}
      BY <2>3
    <3> QED BY <2>2, <2>3, <3>1, <1>2, <1>4 DEF Sum
  <2>4. CASE k # 0
    <3>1. k \in Nat \ {0} /\ k \in 1 .. Len(es) /\ k - 1 \in Nat /\ k - 1 <= Len(es)
      BY <1>2, <2>4
    <3>2. (1 .. k) \ {k} = 1 .. k - 1 /\ 1 .. k # {} /\ Max(1 .. k) = k
      <4>1. Max(1 .. k) = k
        BY <3>1, MaxOfInterval
      <4> HIDE DEF Wrong
      <4>2. (1 .. k) \ {k} = 1 .. k - 1 /\ k \in 1 .. k
        BY <3>1
      <4> QED BY <4>1, <4>2
    <3>3. 1 .. k \in SUBSET (1 .. Len(es))
      BY <3>1, <1>2
    <3>4. F[1 .. k] = F[1 .. k - 1] + es[k].count
      BY <3>2, <3>3, <1>4 DEF Sum
    <3>5. F[1 .. k - 1] = End(k - 1)
      BY <2>2, <3>1
    <3>6. End(k - 1) = es[k].logical
      <4>1. CASE k = 1
        BY <4>1, <1>2, <3>1 DEF Chained
      <4>2. CASE k # 1
        BY <4>2, <1>2, <3>1 DEF Chained
      <4> QED BY <4>1, <4>2
    <3>7. F[1 .. k] = End(k)
      BY <3>4, <3>5, <3>6, <3>1
    <3> QED BY <3>7
  <2> QED BY <2>3, <2>4
<1>6. F[1 .. Len(es)] = End(Len(es))
  BY <1>2, <1>5
<1>7. (es = <<>>) <=> Len(es) = 0
  BY DEF Extents
<1> QED BY <1>1, <1>2, <1>6, <1>7 DEF Reach, Last

-----------------------------------------------------------------------------
(* Where a sector of a file is.                                            *)

End(e) == e.logical + e.count

LEMMA Ascending ==
  ASSUME NEW es \in Extents, Chained(es), NEW j \in 1 .. Len(es), NEW k \in 1 .. Len(es), j < k
  PROVE  End(es[j]) <= es[k].logical
<1> DEFINE Wrong == {x \in Nat : j < x /\ x <= Len(es) /\ ~(End(es[j]) <= es[x].logical)}
<1>1. SUFFICES ASSUME Wrong # {} PROVE FALSE
  BY DEF Extents
<1>2. PICK m \in Wrong : \A x \in Wrong : m <= x
  BY <1>1, LeastOf, Zenon
<1>3. Len(es) \in Nat /\ \A x \in 1 .. Len(es) : es[x] \in Extent
  BY DEF Extents
<1>4. m - 1 \in 1 .. Len(es) - 1 /\ m = (m - 1) + 1 /\ m \in 1 .. Len(es) /\ m - 1 \notin Wrong
  BY <1>2, <1>3
<1>5. es[m].logical = End(es[m - 1])
  BY <1>4 DEF Chained, End
<1>6. CASE j = m - 1
  BY <1>2, <1>3, <1>4, <1>5, <1>6 DEF End, Extent
<1>7. CASE j # m - 1
  <2>1. End(es[j]) <= es[m - 1].logical
    BY <1>2, <1>3, <1>4, <1>7
  <2>2. /\ es[j].logical \in Nat /\ es[j].count \in Nat
        /\ es[m - 1].logical \in Nat /\ es[m - 1].count \in Nat
    BY <1>3, <1>4 DEF Extent
  <2>3. End(es[j]) \in Nat /\ es[m].logical = es[m - 1].logical + es[m - 1].count
    BY <1>5, <2>2 DEF End
  <2>4. End(es[j]) <= es[m].logical
    BY <2>1, <2>2, <2>3
  <2> QED BY <1>2, <2>4
<1> QED BY <1>6, <1>7

\* Extent k of es holds the file's sector n.
Holds(es, k, n) == k \in 1 .. Len(es) /\ n \in es[k].logical .. End(es[k]) - 1

LEMMA HeldByOne ==
  ASSUME NEW es \in Extents, Chained(es), NEW n \in Nat,
         NEW j, Holds(es, j, n), NEW k, Holds(es, k, n)
  PROVE  j = k
<1>1. j \in 1 .. Len(es) /\ k \in 1 .. Len(es) /\ es[j] \in Extent /\ es[k] \in Extent
  BY DEF Holds, Extents
<1>2. ~(j < k)
  BY <1>1, Ascending DEF Holds, Extent, End
<1>3. ~(k < j)
  BY <1>1, Ascending DEF Holds, Extent, End
<1> QED BY <1>1, <1>2, <1>3

LEMMA ReachIsNat ==
  ASSUME NEW es \in Extents
  PROVE  Reach(es) \in Nat
<1>1. es # <<>> => es[Len(es)] \in Extent
  BY DEF Extents
<1> QED BY <1>1 DEF Extent, Reach, Last

LEMMA HeldWithinReach ==
  ASSUME NEW es \in Extents, Chained(es), NEW k, NEW n, Holds(es, k, n)
  PROVE  n \in 0 .. Reach(es) - 1
<1>1. k \in 1 .. Len(es) /\ Len(es) \in 1 .. Len(es) /\ es # <<>>
      /\ es[k] \in Extent /\ es[Len(es)] \in Extent
  BY DEF Holds, Extents
<1>2. CASE k = Len(es)
  BY <1>1, <1>2 DEF Holds, Extent, End, Reach, Last
<1>3. CASE k # Len(es)
  <2>1. End(es[k]) <= es[Len(es)].logical
    BY <1>1, <1>3, Ascending
  <2> QED BY <1>1, <2>1 DEF Holds, Extent, End, Reach, Last
<1> QED BY <1>2, <1>3

LEMMA HeldBySome ==
  ASSUME NEW es \in Extents, Chained(es), NEW n \in 0 .. Reach(es) - 1
  PROVE  \E k : Holds(es, k, n)
<1> DEFINE After == {k \in Nat : k \in 1 .. Len(es) /\ n < End(es[k])}
<1>1. es # <<>> /\ Len(es) \in 1 .. Len(es) /\ \A k \in 1 .. Len(es) : es[k] \in Extent
  BY DEF Reach, Extents
<1>2. Len(es) \in After
  <2>1. es[Len(es)] \in Extent /\ Reach(es) = End(es[Len(es)])
    BY <1>1 DEF Reach, Last, End
  <2> QED BY <2>1, <1>1 DEF End, Extent
<1>3. PICK k \in After : \A x \in After : k <= x
  BY <1>2, LeastOf, Zenon
<1>4. es[k].logical <= n
  <2>1. CASE k = 1
    BY <1>1, <2>1 DEF Chained
  <2>2. CASE k # 1
    <3>1. k - 1 \in 1 .. Len(es) - 1 /\ k = (k - 1) + 1 /\ k - 1 \notin After /\ k - 1 \in 1 .. Len(es)
      BY <1>3, <2>2, <1>1
    <3>2. es[k].logical = End(es[k - 1])
      BY <3>1 DEF Chained, End
    <3>3. End(es[k - 1]) <= n
      BY <3>1, <1>1 DEF End, Extent
    <3> QED BY <3>2, <3>3
  <2> QED BY <2>1, <2>2
<1>5. es[k] \in Extent
  BY <1>1, <1>3
<1> QED BY <1>3, <1>4, <1>5 DEF Holds, End, Extent

\* The disk sector at which extent e holds the file's sector n.
SectorIn(e, n) == e.start + (n - e.logical)

LEMMA LocatedInHolder ==
  ASSUME NEW node, node.extents \in Extents, Chained(node.extents),
         NEW n \in Nat, NEW k, Holds(node.extents, k, n)
  PROVE  /\ Located(node, n) = {SectorIn(node.extents[k], n)}
         /\ SectorIn(node.extents[k], n) \in Run(node.extents[k])
<1> DEFINE es == node.extents
           Around == {x \in ToSet(es) : n \in x.logical .. x.logical + x.count - 1}
<1>1. \A j \in 1 .. Len(es) : es[j] \in Extent
  BY DEF Extents
<1>2. ToSet(es) = {es[j] : j \in 1 .. Len(es)}
  BY DEF ToSet, Extents
<1>3. es[k] \in Around
  <2>1. es[k] \in ToSet(es)
    BY <1>2 DEF Holds
  <2>2. es[k] \in Extent
    BY <1>1 DEF Holds
  <2> QED BY <2>1, <2>2 DEF Holds, End, Extent
<1>4. \A x \in Around : x = es[k]
  <2>1. TAKE x \in Around
  <2>2. PICK j \in 1 .. Len(es) : x = es[j]
    BY <1>2
  <2>3. n \in x.logical .. x.logical + x.count - 1
    OBVIOUS
  <2>4. Holds(es, j, n)
    <3>1. x \in Extent
      BY <2>2, <1>1
    <3> HIDE DEF es
    <3> QED BY <2>2, <2>3, <3>1 DEF Holds, End, Extent
  <2> QED BY <2>2, <2>4, HeldByOne
<1>5. Around = {es[k]}
  BY <1>3, <1>4
<1>6. Located(node, n) = {SectorIn(e, n) : e \in Around}
  BY DEF Located, SectorIn
<1>7. Located(node, n) = {SectorIn(es[k], n)}
  <2> HIDE DEF Around, es
  <2> QED BY <1>5, <1>6
<1>8. es[k] \in Extent
  BY <1>1 DEF Holds
<1>9. SectorIn(es[k], n) \in Run(es[k])
  BY <1>8 DEF SectorIn, Run, Holds, End, Extent
<1> QED BY <1>7, <1>9

\* The file's sectors, counted from 1, and the sectors the inode owns are in
\* one-to-one correspondence.
Nice(es) == es \in Extents /\ Chained(es) /\ Apart(es)

LEMMA SectorIsOwned ==
  ASSUME NEW node, Nice(node.extents), NEW n \in 1 .. Reach(node.extents)
  PROVE  /\ Located(node, n - 1) = {SectorOf(node, n)}
         /\ SectorOf(node, n) \in Owned(node)
         /\ \E k : /\ Holds(node.extents, k, n - 1)
                   /\ SectorOf(node, n) = SectorIn(node.extents[k], n - 1)
                   /\ SectorOf(node, n) \in Run(node.extents[k])
<1> DEFINE es == node.extents
<1>1. n \in Nat /\ n - 1 \in 0 .. Reach(es) - 1 /\ n - 1 \in Nat
  BY ReachIsNat DEF Nice
<1>2. PICK k : Holds(es, k, n - 1)
  BY <1>1, HeldBySome DEF Nice
<1>3. Located(node, n - 1) = {SectorIn(es[k], n - 1)} /\ SectorIn(es[k], n - 1) \in Run(es[k])
  BY <1>1, <1>2, LocatedInHolder DEF Nice
<1>4. SectorOf(node, n) = SectorIn(es[k], n - 1)
  BY <1>3, Zenon DEF SectorOf
<1>5. es[k] \in ToSet(es)
  BY <1>2 DEF Holds, ToSet, Nice, Extents
<1>6. SectorOf(node, n) \in Owned(node)
  BY <1>3, <1>4, <1>5 DEF Owned
<1> QED BY <1>2, <1>3, <1>4, <1>6

LEMMA SectorsDiffer ==
  ASSUME NEW node, Nice(node.extents),
         NEW n \in 1 .. Reach(node.extents), NEW m \in 1 .. Reach(node.extents),
         SectorOf(node, n) = SectorOf(node, m)
  PROVE  n = m
<1> DEFINE es == node.extents
<1>1. PICK k : /\ Holds(es, k, n - 1) /\ SectorOf(node, n) = SectorIn(es[k], n - 1)
               /\ SectorOf(node, n) \in Run(es[k])
  BY SectorIsOwned
<1>2. PICK j : /\ Holds(es, j, m - 1) /\ SectorOf(node, m) = SectorIn(es[j], m - 1)
               /\ SectorOf(node, m) \in Run(es[j])
  BY SectorIsOwned
<1>3. k = j
  BY <1>1, <1>2 DEF Nice, Apart, Holds
<1>4. es[k] \in Extent
  BY <1>1 DEF Holds, Nice, Extents
<1>5. n \in Nat /\ m \in Nat
  BY ReachIsNat DEF Nice
<1>6. SectorIn(es[k], n - 1) = SectorIn(es[k], m - 1)
  BY <1>1, <1>2, <1>3
<1> QED BY <1>4, <1>5, <1>6 DEF SectorIn, Extent

LEMMA OwnedIsReached ==
  ASSUME NEW node, Nice(node.extents), NEW s \in Owned(node)
  PROVE  \E n \in 1 .. Reach(node.extents) : SectorOf(node, n) = s
<1> DEFINE es == node.extents
<1>1. PICK k \in 1 .. Len(es) : s \in Run(es[k])
  BY DEF Owned, ToSet, Nice, Extents
<1>2. es[k] \in Extent
  BY DEF Nice, Extents
<1> DEFINE n == es[k].logical + (s - es[k].start)
<1>3. s \in Nat /\ n \in Nat /\ n \in es[k].logical .. End(es[k]) - 1 /\ SectorIn(es[k], n) = s
  BY <1>1, <1>2 DEF Run, Extent, End, SectorIn
<1>4. Holds(es, k, n)
  BY <1>3 DEF Holds
<1> HIDE DEF n
<1>5. Located(node, n) = {s}
  BY <1>3, <1>4, LocatedInHolder DEF Nice
<1>6. n + 1 \in 1 .. Reach(es) /\ n = (n + 1) - 1
  BY <1>3, <1>4, HeldWithinReach, ReachIsNat DEF Nice
<1>7. Located(node, n) = {SectorOf(node, n + 1)}
  BY <1>6, SectorIsOwned
<1> QED BY <1>5, <1>6, <1>7

LEMMA OwnedIsCounted ==
  ASSUME NEW node, Nice(node.extents)
  PROVE  Cardinality(Owned(node)) = Allocated(node)
<1> DEFINE r == Reach(node.extents)
           f == [n \in 1 .. r |-> SectorOf(node, n)]
<1>1. r \in Nat
  BY ReachIsNat DEF Nice
<1>2. f \in [1 .. r -> Owned(node)]
  BY SectorIsOwned
<1>3. \A n, m \in 1 .. r : f[n] = f[m] => n = m
  BY SectorsDiffer
<1>4. \A s \in Owned(node) : \E n \in 1 .. r : f[n] = s
  BY OwnedIsReached
<1>5. f \in Bijection(1 .. r, Owned(node))
  BY <1>2, <1>3, <1>4, Fun_IsBij
<1>6. ExistsBijection(1 .. r, Owned(node))
  BY <1>5, Zenon DEF ExistsBijection
<1>7. IsFiniteSet(1 .. r) /\ Cardinality(1 .. r) = r
  BY <1>1, FS_Interval
<1>8. Cardinality(Owned(node)) = r
  BY <1>6, <1>7, FS_Bijection, Zenon
<1> QED BY <1>8, AllocatedIsReach DEF Nice

-----------------------------------------------------------------------------
(* Growing a file, and looking for free sectors.                           *)

Stretch == [start : Nat, count : Nat \ {0}]

\* Every extent of es is one of fs, or begins one.
Begins(es, fs) ==
  /\ Len(es) <= Len(fs)
  /\ \A k \in 1 .. Len(es) : /\ fs[k].start = es[k].start /\ fs[k].logical = es[k].logical
                             /\ fs[k].count >= es[k].count

LEMMA SectorsStay ==
  ASSUME NEW node, NEW grown, Nice(node.extents), Nice(grown.extents),
         Begins(node.extents, grown.extents), NEW n \in 1 .. Reach(node.extents)
  PROVE  SectorOf(grown, n) = SectorOf(node, n)
<1> DEFINE es == node.extents  fs == grown.extents
<1>1. n \in Nat /\ n - 1 \in Nat
  BY ReachIsNat DEF Nice
<1>2. PICK k : Holds(es, k, n - 1) /\ SectorOf(node, n) = SectorIn(es[k], n - 1)
  BY SectorIsOwned
<1>3. k \in 1 .. Len(es) /\ k \in 1 .. Len(fs) /\ es[k] \in Extent /\ fs[k] \in Extent
  BY <1>2 DEF Holds, Begins, Nice, Extents
<1>4. fs[k].start = es[k].start /\ fs[k].logical = es[k].logical /\ fs[k].count >= es[k].count
  BY <1>3 DEF Begins
<1>5. Holds(fs, k, n - 1)
  <2>1. /\ es[k].logical \in Nat /\ es[k].count \in Nat /\ fs[k].count \in Nat
    BY <1>3 DEF Extent
  <2>2. End(es[k]) \in Nat /\ End(fs[k]) \in Nat /\ End(fs[k]) >= End(es[k])
    BY <1>4, <2>1 DEF End
  <2>3. n - 1 \in es[k].logical .. End(es[k]) - 1
    BY <1>2 DEF Holds
  <2>4. n - 1 \in fs[k].logical .. End(fs[k]) - 1
    BY <1>1, <1>4, <2>1, <2>2, <2>3
  <2> QED BY <1>3, <2>4 DEF Holds
<1>6. Located(grown, n - 1) = {SectorIn(fs[k], n - 1)}
  BY <1>1, <1>5, LocatedInHolder DEF Nice
<1>7. SectorOf(grown, n) = SectorIn(fs[k], n - 1)
  BY <1>6, Zenon DEF SectorOf
<1> QED BY <1>2, <1>4, <1>7 DEF SectorIn

\* What add_extent makes of the extents.
Added(es, run) ==
  IF es # <<>> /\ Last(es).start + Last(es).count = run.start
  THEN [es EXCEPT ![Len(es)] = [es[Len(es)] EXCEPT !.count = es[Len(es)].count + run.count]]
  ELSE Append(es, [start |-> run.start, logical |-> Reach(es), count |-> run.count])

LEMMA RunsOf ==
  ASSUME NEW es \in Extents
  PROVE  \A s : s \in AllRuns(es) <=> \E k \in 1 .. Len(es) : s \in Run(es[k])
BY DEF AllRuns, ToSet, Extents

\* One run that is two.
LEMMA RunsMeet ==
  ASSUME NEW both, NEW one, NEW two, one.start \in Nat, one.count \in Nat, two.count \in Nat,
         both.start = one.start, both.count = one.count + two.count, one.start + one.count = two.start
  PROVE  Run(both) = Run(one) \cup Run(two)
<1>1. both.start + both.count = (one.start + one.count) + two.count
  OBVIOUS
<1>2. \A s : s \in Run(both) <=> s \in Nat /\ one.start <= s /\ s < (one.start + one.count) + two.count
  BY <1>1 DEF Run
<1>3. \A s : s \in Run(one) <=> s \in Nat /\ one.start <= s /\ s < one.start + one.count
  BY DEF Run
<1>4. \A s : s \in Run(two) <=> s \in Nat /\ one.start + one.count <= s /\ s < (one.start + one.count) + two.count
  BY DEF Run
<1> QED BY <1>2, <1>3, <1>4

LEMMA AddedIsNice ==
  ASSUME NEW es, Nice(es), NEW run \in Stretch, Run(run) \cap AllRuns(es) = {}
  PROVE  /\ Nice(Added(es, run)) /\ Begins(es, Added(es, run))
         /\ Reach(Added(es, run)) = Reach(es) + run.count
         /\ AllRuns(Added(es, run)) = AllRuns(es) \cup Run(run)
<1> DEFINE fs == Added(es, run)  L == Len(es)
<1>1. es \in Extents /\ L \in Nat /\ (es = <<>> <=> L = 0) /\ \A k \in 1 .. L : es[k] \in Extent
  BY DEF Nice, Extents
<1>2. \A k \in 1 .. L : Run(es[k]) \cap Run(run) = {}
  BY <1>1, RunsOf
<1>3. CASE es # <<>> /\ Last(es).start + Last(es).count = run.start
  <2> DEFINE e == [es[L] EXCEPT !.count = es[L].count + run.count]
  <2>1. fs = [es EXCEPT ![L] = e]
    BY <1>3, Zenon DEF Added
  <2>2. L \in 1 .. L /\ es[L] \in Extent
    BY <1>1, <1>3
  <2>3. /\ e \in Extent /\ e.start = es[L].start /\ e.logical = es[L].logical
        /\ e.count = es[L].count + run.count
    BY <2>2 DEF Extent, Stretch
  <2>4. fs \in Extents /\ Len(fs) = L
    <3> HIDE DEF e
    <3> QED BY <2>1, <2>2, <2>3, <1>1 DEF Extents
  <2>5. \A k \in 1 .. L : fs[k] = IF k = L THEN e ELSE es[k]
    <3> HIDE DEF e
    <3> QED BY <2>1, <1>1 DEF Extents
  <2> HIDE DEF e, fs
  <2>6. Run(e) = Run(es[L]) \cup Run(run)
    <3>1. es[L].start + es[L].count = run.start
      BY <1>3 DEF Last
    <3>2. es[L].start \in Nat /\ es[L].count \in Nat /\ run.start \in Nat /\ run.count \in Nat
      BY <2>2 DEF Extent, Stretch
    <3>3. e.start = es[L].start /\ e.count = es[L].count + run.count
      BY <2>3
    <3> DEFINE last == es[L]
    <3>4. /\ last.start \in Nat /\ last.count \in Nat /\ run.count \in Nat
          /\ e.start = last.start /\ e.count = last.count + run.count
          /\ last.start + last.count = run.start
      BY <3>1, <3>2, <3>3
    <3> HIDE DEF last
    <3>5. Run(e) = Run(last) \cup Run(run)
      BY <3>4, RunsMeet
    <3> QED BY <3>5 DEF last
  <2>7. Chained(fs)
    <3>1. fs[1].logical = 0
      BY <1>1, <1>3, <2>2, <2>3, <2>5 DEF Nice, Chained
    <3>2. ASSUME NEW k \in 1 .. L - 1 PROVE fs[k + 1].logical = fs[k].logical + fs[k].count
      <4>1. es[k + 1].logical = es[k].logical + es[k].count
        BY DEF Nice, Chained
      <4>2. k \in 1 .. L /\ k # L /\ k + 1 \in 1 .. L
        BY <1>1
      <4> QED BY <4>1, <4>2, <2>3, <2>5
    <3> QED BY <3>1, <3>2, <2>4 DEF Chained
  <2>8. Apart(fs)
    <3>1. SUFFICES ASSUME NEW j \in 1 .. L, NEW k \in 1 .. L, j # k PROVE Run(fs[j]) \cap Run(fs[k]) = {}
      BY <2>4, Zenon DEF Apart
    <3>2. Run(es[j]) \cap Run(es[k]) = {} /\ Run(es[j]) \cap Run(run) = {} /\ Run(es[k]) \cap Run(run) = {}
      BY <3>1, <1>2 DEF Nice, Apart
    <3>3. CASE j = L
      BY <3>1, <3>2, <3>3, <2>5, <2>6
    <3>4. CASE k = L
      BY <3>1, <3>2, <3>4, <2>5, <2>6
    <3> QED BY <3>2, <3>3, <3>4, <2>5
  <2>9. Begins(es, fs)
    <3>1. ASSUME NEW k \in 1 .. L
          PROVE  /\ fs[k].start = es[k].start /\ fs[k].logical = es[k].logical
                 /\ fs[k].count >= es[k].count
      BY <2>2, <2>3, <2>5, <1>1 DEF Extent, Stretch
    <3> QED BY <3>1, <2>4, <1>1 DEF Begins
  <2>10. Reach(fs) = Reach(es) + run.count
    <3>1. Last(fs) = e /\ fs # <<>>
      BY <2>2, <2>4, <2>5, <1>1, <1>3 DEF Last, Extents
    <3> QED BY <3>1, <2>2, <2>3, <1>3 DEF Reach, Last, Extent, Stretch
  <2>11. AllRuns(fs) = AllRuns(es) \cup Run(run)
    <3>1. \A s : s \in AllRuns(fs) <=> \E k \in 1 .. L : s \in Run(fs[k])
      BY <2>4, RunsOf
    <3>2. \A s : s \in AllRuns(es) <=> \E k \in 1 .. L : s \in Run(es[k])
      BY <1>1, RunsOf
    <3>3. \A s : (\E k \in 1 .. L : s \in Run(fs[k])) <=> (\E k \in 1 .. L : s \in Run(es[k])) \/ s \in Run(run)
      BY <2>2, <2>5, <2>6
    <3> QED BY <3>1, <3>2, <3>3
  <2> QED BY <2>4, <2>7, <2>8, <2>9, <2>10, <2>11 DEF Nice, fs
<1>4. CASE ~(es # <<>> /\ Last(es).start + Last(es).count = run.start)
  <2> DEFINE e == [start |-> run.start, logical |-> Reach(es), count |-> run.count]
  <2>1. fs = Append(es, e)
    BY <1>4, Zenon DEF Added
  <2>2. Reach(es) \in Nat
    BY <1>1, ReachIsNat
  <2>3. /\ e \in Extent /\ e.start = run.start /\ e.logical = Reach(es) /\ e.count = run.count
    BY <2>2 DEF Extent, Stretch
  <2>4. fs \in Extents /\ Len(fs) = L + 1 /\ fs[L + 1] = e /\ \A k \in 1 .. L : fs[k] = es[k]
    <3> HIDE DEF e
    <3> QED BY <2>1, <2>3, <1>1 DEF Extents
  <2>5. Run(e) = Run(run)
    BY <2>3, Zenon DEF Run
  <2> HIDE DEF e, fs
  <2>6. Chained(fs)
    <3>1. fs[1].logical = 0
      <4>1. CASE L = 0
        BY <4>1, <1>1, <2>3, <2>4 DEF Reach
      <4>2. CASE L # 0
        BY <4>2, <1>1, <2>4 DEF Nice, Chained
      <4> QED BY <4>1, <4>2
    <3>2. ASSUME NEW k \in 1 .. L PROVE fs[k + 1].logical = fs[k].logical + fs[k].count
      <4>1. CASE k = L
        <5>1. fs[k + 1].logical = Reach(es) /\ es # <<>> /\ fs[k] = es[L]
          BY <4>1, <1>1, <2>3, <2>4
        <5> QED BY <5>1 DEF Reach, Last
      <4>2. CASE k # L
        <5>1. k \in 1 .. L - 1 /\ k + 1 \in 1 .. L
          BY <4>2, <1>1
        <5> QED BY <5>1, <2>4 DEF Nice, Chained
      <4> QED BY <4>1, <4>2
    <3> QED BY <3>1, <3>2, <2>4, <1>1 DEF Chained
  <2>7. Apart(fs)
    <3>1. SUFFICES ASSUME NEW j \in 1 .. L + 1, NEW k \in 1 .. L + 1, j # k
                   PROVE  Run(fs[j]) \cap Run(fs[k]) = {}
      BY <2>4, Zenon DEF Apart
    <3>2. CASE j = L + 1
      BY <3>1, <3>2, <1>1, <1>2, <2>4, <2>5
    <3>3. CASE k = L + 1
      BY <3>1, <3>3, <1>1, <1>2, <2>4, <2>5
    <3>4. CASE j # L + 1 /\ k # L + 1
      <4>1. j \in 1 .. L /\ k \in 1 .. L
        BY <3>4, <1>1
      <4> QED BY <3>1, <4>1, <2>4 DEF Nice, Apart
    <3> QED BY <3>2, <3>3, <3>4
  <2>8. Begins(es, fs)
    BY <2>4, <1>1 DEF Begins, Extent
  <2>9. Reach(fs) = Reach(es) + run.count
    <3>1. Last(fs) = e /\ fs # <<>>
      BY <2>4, <1>1 DEF Last, Extents
    <3> QED BY <3>1, <2>3 DEF Reach
  <2>10. AllRuns(fs) = AllRuns(es) \cup Run(run)
    <3>1. \A s : s \in AllRuns(fs) <=> \E k \in 1 .. L + 1 : s \in Run(fs[k])
      BY <2>4, RunsOf
    <3>2. \A s : s \in AllRuns(es) <=> \E k \in 1 .. L : s \in Run(es[k])
      BY <1>1, RunsOf
    <3>3. \A s : (\E k \in 1 .. L + 1 : s \in Run(fs[k])) <=> (\E k \in 1 .. L : s \in Run(es[k])) \/ s \in Run(run)
      BY <1>1, <2>4, <2>5
    <3> QED BY <3>1, <3>2, <3>3
  <2> QED BY <2>4, <2>6, <2>7, <2>8, <2>9, <2>10 DEF Nice, fs
<1> QED BY <1>3, <1>4

\* add_extent keeps an inode sound and leaves its sectors where they were.
LEMMA ExtendedIsNice ==
  ASSUME NEW node \in Inode, Nice(node.extents),
         NEW run \in Stretch, Run(run) \cap Owned(node) = {}
  PROVE  LET grown == Extended(node, run)
         IN /\ grown \in Inode /\ Nice(grown.extents) /\ Begins(node.extents, grown.extents)
            /\ grown.kind = node.kind /\ grown.path = node.path /\ grown.size = node.size
            /\ Reach(grown.extents) = Reach(node.extents) + run.count
            /\ Owned(grown) = Owned(node) \cup Run(run)
<1> DEFINE grown == Extended(node, run)
<1>1. Allocated(node) = Reach(node.extents)
  BY AllocatedIsReach DEF Nice
<1>2. node.extents \in Extents
  BY DEF Nice
<1>3. grown = [node EXCEPT !.extents = Added(node.extents, run)]
  <2>1. CASE Follows(node, run)
    <3> DEFINE es == node.extents
               e == [es[Len(es)] EXCEPT !.count = es[Len(es)].count + run.count]
    <3>1. grown = [node EXCEPT !.extents = [es EXCEPT ![Len(es)] = e]]
      BY <2>1, Zenon DEF Extended
    <3>2. Added(es, run) = [es EXCEPT ![Len(es)] = e]
      BY <2>1, Zenon DEF Added, Follows
    <3> QED BY <3>1, <3>2, Zenon
  <2>2. CASE ~Follows(node, run)
    BY <1>1, <2>2 DEF Extended, Added, Follows, Inode
  <2> QED BY <2>1, <2>2
<1>4. Owned(node) = AllRuns(node.extents) /\ Owned(grown) = AllRuns(grown.extents)
  BY DEF Owned, AllRuns
<1>5. /\ Nice(Added(node.extents, run)) /\ Begins(node.extents, Added(node.extents, run))
      /\ Reach(Added(node.extents, run)) = Reach(node.extents) + run.count
      /\ AllRuns(Added(node.extents, run)) = AllRuns(node.extents) \cup Run(run)
  BY <1>4, AddedIsNice
<1>6. Added(node.extents, run) \in Extents
  BY <1>5 DEF Nice
<1> HIDE DEF grown
<1>7. /\ grown \in Inode /\ grown.extents = Added(node.extents, run)
      /\ grown.kind = node.kind /\ grown.path = node.path /\ grown.size = node.size
  BY <1>3, <1>6 DEF Inode
<1> QED BY <1>4, <1>5, <1>7 DEF grown

\* Of finitely many things with a measure one has the greatest.
LEMMA GreatestOf ==
  ASSUME NEW S, IsFiniteSet(S), S # {}, NEW f \in [S -> Nat]
  PROVE  \E m \in S : \A x \in S : f[x] <= f[m]
<1> DEFINE Above(x) == {y \in S : f[x] < f[y]}
           Sizes == {Cardinality(Above(x)) : x \in S}
<1>1. \A x \in S : IsFiniteSet(Above(x)) /\ Cardinality(Above(x)) \in Nat
  <2>1. TAKE x \in S
  <2>2. Above(x) \in SUBSET S
    OBVIOUS
  <2>3. IsFiniteSet(Above(x))
    <3> HIDE DEF Above
    <3> QED BY <2>2, FS_Subset, Zenon
  <2> HIDE DEF Above
  <2> QED BY <2>3, FS_CardinalityType
<1>2. Sizes \in SUBSET Nat /\ Sizes # {}
  <2> HIDE DEF Above
  <2> QED BY <1>1
<1>3. PICK c \in Sizes : \A d \in Sizes : c <= d
  <2> HIDE DEF Sizes
  <2> QED BY <1>2, LeastOf
<1>4. PICK m \in S : c = Cardinality(Above(m))
  BY <1>3
<1>5. SUFFICES ASSUME NEW x \in S, ~(f[x] <= f[m]) PROVE FALSE
  OBVIOUS
<1>6. Above(x) \in SUBSET Above(m) /\ x \in Above(m) /\ x \notin Above(x)
  BY <1>5
<1>7. Cardinality(Above(x)) \in Sizes
  OBVIOUS
<1> HIDE DEF Above, Sizes
<1>8. /\ Cardinality(Above(x)) <= Cardinality(Above(m))
      /\ Cardinality(Above(m)) = Cardinality(Above(x)) => Above(m) = Above(x)
  BY <1>1, <1>6, FS_Subset, Zenon
<1>9. Cardinality(Above(m)) <= Cardinality(Above(x))
  BY <1>3, <1>4, <1>7
<1> QED BY <1>1, <1>6, <1>8, <1>9

\* find_free_run gives sectors that are free, and at most what was asked for.
LEMMA FreeRunIsFree ==
  ASSUME NEW d, d.bitmap \subseteq Sectors, NEW request \in Nat \ {0}
  PROVE  LET run == FreeRun(d, request)
         IN run.count # 0 => /\ run \in Stretch /\ Run(run) \subseteq Sectors \ d.bitmap
                             /\ run.count <= request
<1> DEFINE free == Sectors \ d.bitmap
           first == Min(free)
           S == {s \in free : first .. s \subseteq free /\ s < first + request}
           run == FreeRun(d, request)
<1>1. SUFFICES ASSUME free # {}
               PROVE  /\ run \in Stretch /\ Run(run) \subseteq free /\ run.count <= request
  BY DEF FreeRun
<1>2. free \in SUBSET Nat
  BY TreeAssumption
<1>3. first \in free /\ first \in Nat
  <2> HIDE DEF free
  <2> QED BY <1>1, <1>2, MinIsLeast
<1>4. run = [start |-> first, count |-> Cardinality(S)]
  BY <1>1 DEF FreeRun
<1> HIDE DEF first, free
<1>5. first \in S /\ S \in SUBSET Nat /\ \A s \in S : s <= first + request
  <2>1. first .. first = {first} /\ first < first + request
    BY <1>3
  <2>2. first \in S
    BY <1>3, <2>1
  <2>3. \A s \in S : s \in free /\ s < first + request
    OBVIOUS
  <2> HIDE DEF S, run
  <2>4. ASSUME NEW s \in S PROVE s \in Nat /\ s <= first + request
    <3>1. s \in Nat
      BY <2>3, <1>2
    <3>2. s < first + request
      BY <2>3
    <3>3. request \in Nat
      OBVIOUS
    <3> QED BY <3>1, <3>2, <3>3, <1>3
  <2> QED BY <2>2, <2>4
<1>6. PICK m \in S : \A s \in S : s <= m
  <2>1. IsFiniteSet(S)
    <3> HIDE DEF S
    <3> QED BY <1>3, <1>5, FS_BoundedSetOfNaturals
  <2> DEFINE f == [s \in S |-> s]
  <2>2. f \in [S -> Nat] /\ \A s \in S : f[s] = s
    BY <1>5
  <2>3. PICK m \in S : \A s \in S : f[s] <= f[m]
    <3> HIDE DEF f, S
    <3> QED BY <1>5, <2>1, <2>2, GreatestOf
  <2> HIDE DEF f, S
  <2> QED BY <2>2, <2>3
<1>7. first <= m /\ m \in Nat /\ first .. m \subseteq free /\ m < first + request
  BY <1>5, <1>6
<1>8. S = first .. m
  <2>1. S \subseteq first .. m
    <3>1. ASSUME NEW s \in S PROVE first <= s
      <4>1. \A x \in free : first <= x
        BY <1>1, <1>2, MinIsLeast DEF first
      <4> QED BY <4>1
    <3> QED BY <1>3, <1>5, <1>6, <1>7, <3>1
  <2>2. first .. m \subseteq S
    BY <1>2, <1>3, <1>7
  <2> QED BY <2>1, <2>2
<1>9. Cardinality(S) = m - first + 1
  <2> HIDE DEF S
  <2> QED BY <1>3, <1>7, <1>8, FS_Interval
<1>10. run.start = first /\ run.count = m - first + 1
  BY <1>4, <1>9
<1> HIDE DEF S, run
<1>11. run = [start |-> first, count |-> m - first + 1]
  BY <1>4, <1>9
<1>12. Run(run) = first .. m
  BY <1>3, <1>7, <1>10 DEF Run
<1>13. run.count \in Nat \ {0} /\ run.count <= request
  BY <1>3, <1>7, <1>10
<1>14. run \in Stretch
  BY <1>3, <1>10, <1>11, <1>13 DEF Stretch
<1> QED BY <1>7, <1>12, <1>13, <1>14

-----------------------------------------------------------------------------
(* Paths, and the inode a removal takes first.                             *)

Names == STRING
Words == Seq(Names)

LEMMA PathsAreWords ==
  AnyPath \subseteq Words
<1>1. Paths \subseteq Words
  BY TreeAssumption DEF Words, Names
<1>2. Root \in Words
  BY EmptySeq DEF Words, Root
<1> QED BY <1>1, <1>2 DEF AnyPath

\* The first n names of a path.
LEMMA FirstNames ==
  ASSUME NEW q \in Words, NEW n \in 0 .. Len(q)
  PROVE  /\ SubSeq(q, 1, n) \in Words /\ Len(SubSeq(q, 1, n)) = n
         /\ \A k \in 1 .. n : SubSeq(q, 1, n)[k] = q[k]
BY SubSeqProperties DEF Words

LEMMA FrontOf ==
  ASSUME NEW q \in Words, q # <<>>
  PROVE  /\ Front(q) \in Words /\ Len(Front(q)) = Len(q) - 1 /\ Len(q) \in Nat \ {0}
         /\ \A n \in 1 .. Len(q) - 1 : Front(q)[n] = q[n]
<1>1. Len(q) \in Nat /\ Len(q) # 0 /\ \A n \in 1 .. Len(q) : q[n] \in Names
  BY DEF Words
<1>2. Len(q) - 1 \in 0 .. Len(q)
  BY <1>1
<1>3. /\ SubSeq(q, 1, Len(q) - 1) \in Words /\ Len(SubSeq(q, 1, Len(q) - 1)) = Len(q) - 1
      /\ \A i \in 1 .. Len(q) - 1 : SubSeq(q, 1, Len(q) - 1)[i] = q[i]
  BY <1>2, FirstNames
<1> QED BY <1>1, <1>3 DEF Front, Words

LEMMA SameNames ==
  ASSUME NEW q \in Words, NEW f \in Words, Len(q) = Len(f), \A k \in 1 .. Len(q) : q[k] = f[k]
  PROVE  q = f
BY SeqEqual DEF Words

LEMMA WholePath ==
  ASSUME NEW q \in Words
  PROVE  SubSeq(q, 1, Len(q)) = q
BY SubSeqFull DEF Words

LEMMA FrontBegins ==
  ASSUME NEW q \in Words, q # <<>>, NEW n \in 0 .. Len(q) - 1
  PROVE  SubSeq(q, 1, n) = SubSeq(Front(q), 1, n)
<1>1. Front(q) \in Words /\ Len(Front(q)) = Len(q) - 1 /\ Len(q) \in Nat \ {0}
      /\ \A k \in 1 .. Len(q) - 1 : Front(q)[k] = q[k]
  BY FrontOf
<1>2. n \in 0 .. Len(q) /\ n \in 0 .. Len(Front(q))
  BY <1>1
<1>3. /\ SubSeq(q, 1, n) \in Words /\ Len(SubSeq(q, 1, n)) = n
      /\ \A k \in 1 .. n : SubSeq(q, 1, n)[k] = q[k]
  BY <1>2, FirstNames
<1>4. /\ SubSeq(Front(q), 1, n) \in Words /\ Len(SubSeq(Front(q), 1, n)) = n
      /\ \A k \in 1 .. n : SubSeq(Front(q), 1, n)[k] = Front(q)[k]
  BY <1>1, <1>2, FirstNames
<1>5. \A k \in 1 .. n : Front(q)[k] = q[k]
  BY <1>1
<1> QED BY <1>3, <1>4, <1>5, SameNames

LEMMA UnderFront ==
  ASSUME NEW p \in Words, NEW q \in Words, q # <<>>, Front(q) = p \/ Under(Front(q), p)
  PROVE  Under(q, p) /\ Len(p) <= Len(q) - 1
<1>1. Len(Front(q)) = Len(q) - 1 /\ Len(q) \in Nat \ {0} /\ Len(p) \in Nat
  BY FrontOf DEF Words
<1>2. Len(p) <= Len(q) - 1 /\ SubSeq(p, 1, Len(p)) = SubSeq(Front(q), 1, Len(p))
  BY <1>1 DEF Under, IsStrictPrefix, IsPrefix
<1>3. Len(p) \in 0 .. Len(q) - 1
  BY <1>1, <1>2
<1>4. SubSeq(q, 1, Len(p)) = SubSeq(Front(q), 1, Len(p))
  BY <1>3, FrontBegins
<1>5. p # q /\ Len(p) <= Len(q)
  BY <1>1, <1>2
<1> QED BY <1>2, <1>4, <1>5 DEF Under, IsStrictPrefix, IsPrefix

\* A removal ends: there is a lowest inode, and nothing is below it.
LEMMA LowestIsLeaf ==
  ASSUME TreeTypeOK, NodesAreSound(disk), Whole(disk), NEW p \in Paths, At(disk, p) # {}
  PROVE  LET i == Lowest(disk, p)
         IN i \in Inodes /\ i \in Nodes(disk) /\ Children(disk, disk.nodes[i].path) = {}
<1> DEFINE path(i) == disk.nodes[i].path
           way(i) == /\ path(i) = p \/ Under(path(i), p)
                     /\ \A n \in Len(p) + 1 .. Len(path(i)) :
                          At(disk, SubSeq(path(i), 1, n))
                            = {Min(Children(disk, SubSeq(path(i), 1, n - 1)))}
           S == {i \in Nodes(disk) : way(i)}
<1>1. Nodes(disk) \subseteq Inodes \cup {0} /\ Nodes(disk) \subseteq Nat /\ IsFiniteSet(Nodes(disk))
  <2>1. Nodes(disk) \subseteq Inodes \cup {0}
    BY DEF TreeTypeOK, Disks, Nodes
  <2>2. IsFiniteSet(Inodes \cup {0})
    BY TreeAssumption, FS_AddElement
  <2>3. IsFiniteSet(Nodes(disk))
    BY <2>1, <2>2, FS_Subset
  <2>4. Inodes \cup {0} \subseteq Nat
    BY TreeAssumption
  <2> QED BY <2>1, <2>3, <2>4
<1>2. p \in Words /\ p # <<>> /\ Len(p) \in Nat \ {0} /\ path(0) = <<>>
  <2>1. p \in Words /\ p # <<>>
    BY TreeAssumption DEF Words, Names
  <2>2. path(0) = <<>>
    BY DEF NodesAreSound, RootNode, Free, Root
  <2> QED BY <2>1, <2>2 DEF Words
<1>3. \A i \in Nodes(disk) : path(i) \in Words /\ Len(path(i)) \in Nat
  <2>1. TAKE i \in Nodes(disk)
  <2>2. disk.nodes[i] \in Inode
    BY <1>1 DEF TreeTypeOK, Disks
  <2>3. disk.nodes[i].path \in AnyPath
    BY <2>2 DEF Inode
  <2>4. path(i) \in Words
    BY <2>3, PathsAreWords
  <2> QED BY <2>4 DEF Words
<1>4. S # {}
  <2>1. PICK i \in Nodes(disk) : path(i) = p
    BY DEF At
  <2>2. Len(p) + 1 .. Len(path(i)) = {}
    BY <1>2, <2>1
  <2> QED BY <2>1, <2>2
<1>5. IsFiniteSet(S)
  <2>1. S \in SUBSET Nodes(disk)
    OBVIOUS
  <2> HIDE DEF S
  <2> QED BY <1>1, <2>1, FS_Subset
<1>6. PICK m \in S : \A x \in S : Len(path(x)) <= Len(path(m))
  <2> DEFINE f == [i \in S |-> Len(path(i))]
  <2>1. f \in [S -> Nat] /\ \A i \in S : f[i] = Len(path(i))
    BY <1>3
  <2>2. PICK m \in S : \A x \in S : f[x] <= f[m]
    <3> HIDE DEF f, S
    <3> QED BY <1>4, <1>5, <2>1, GreatestOf
  <2> HIDE DEF f, S
  <2> QED BY <2>1, <2>2
<1>7. Children(disk, path(m)) = {}
  <2>1. SUFFICES ASSUME Children(disk, path(m)) # {} PROVE FALSE
    OBVIOUS
  <2> DEFINE c == Min(Children(disk, path(m)))
  <2>2. c \in Children(disk, path(m))
    <3>1. Children(disk, path(m)) \in SUBSET Nat
      BY <1>1 DEF Children
    <3> QED BY <2>1, <3>1, MinIsLeast
  <2>3. c \in Nodes(disk) /\ path(c) # <<>> /\ Front(path(c)) = path(m)
    BY <2>2 DEF Children, Parent, Root
  <2>4. path(c) \in Words /\ path(m) \in Words /\ c # 0 /\ way(m)
    BY <1>2, <1>3, <2>3
  <2>5. At(disk, path(c)) = {c}
    BY <2>3, <2>4 DEF Whole
  <2> DEFINE q == path(c)  r == path(m)
  <2>6. Under(q, p) /\ Len(p) <= Len(q) - 1
    BY <1>2, <2>3, <2>4, UnderFront
  <2>7. Len(r) = Len(q) - 1 /\ Len(q) \in Nat \ {0}
    BY <2>3, <2>4, FrontOf
  <2>8. \A n \in 0 .. Len(q) - 1 : SubSeq(q, 1, n) = SubSeq(r, 1, n)
    BY <2>3, <2>4, FrontBegins
  <2>9. ASSUME NEW n \in Len(p) + 1 .. Len(q)
        PROVE  At(disk, SubSeq(q, 1, n)) = {Min(Children(disk, SubSeq(q, 1, n - 1)))}
    <3>1. CASE n = Len(q)
      <4>1. SubSeq(q, 1, n) = q
        BY <2>4, <3>1, WholePath
      <4>2. SubSeq(q, 1, n - 1) = r
        <5>1. n - 1 = Len(r) /\ n - 1 \in 0 .. Len(q) - 1
          BY <3>1, <2>7
        <5> QED BY <5>1, <2>4, <2>8, WholePath
      <4> QED BY <4>1, <4>2, <2>5
    <3>2. CASE n # Len(q)
      <4>1. n \in Len(p) + 1 .. Len(r) /\ n \in 0 .. Len(q) - 1 /\ n - 1 \in 0 .. Len(q) - 1
        BY <3>2, <1>2, <2>7
      <4>2. SubSeq(q, 1, n) = SubSeq(r, 1, n) /\ SubSeq(q, 1, n - 1) = SubSeq(r, 1, n - 1)
        BY <4>1, <2>8
      <4>3. At(disk, SubSeq(r, 1, n)) = {Min(Children(disk, SubSeq(r, 1, n - 1)))}
        BY <4>1, <2>4
      <4> QED BY <4>2, <4>3
    <3> QED BY <3>1, <3>2
  <2>10. c \in S
    <3> HIDE DEF c
    <3> QED BY <2>3, <2>6, <2>9
  <2>11. Len(path(c)) <= Len(path(m))
    <3> HIDE DEF c, S
    <3> QED BY <1>6, <2>10
  <2> HIDE DEF c, S, path
  <2> QED BY <2>7, <2>11
<1>8. \E i \in Nodes(disk) : Children(disk, path(i)) = {} /\ way(i)
  BY <1>6, <1>7
<1> DEFINE low == Lowest(disk, p)
<1>9. low \in Nodes(disk) /\ Children(disk, path(low)) = {} /\ (path(low) = p \/ Under(path(low), p))
  BY <1>8 DEF Lowest
<1>10. low # 0
  <2>1. ~Under(<<>>, p)
    BY <1>2 DEF Under, IsStrictPrefix, IsPrefix
  <2> QED BY <1>2, <1>9, <2>1
<1> HIDE DEF low
<1> QED BY <1>1, <1>9, <1>10 DEF low

-----------------------------------------------------------------------------
(* Contents.                                                               *)

LEMMA MaxOfTwo ==
  ASSUME NEW a \in Nat, NEW b \in Nat
  PROVE  Max({a, b}) = IF a >= b THEN a ELSE b
<1>1. \A x \in {a, b} : x \in Nat
  OBVIOUS
<1>2. CASE a >= b
  <2>1. \A x \in {a, b} : (\A y \in {a, b} : x >= y) <=> x = a
    BY <1>2
  <2> QED BY <1>2, <2>1 DEF Max
<1>3. CASE ~(a >= b)
  <2>1. \A x \in {a, b} : (\A y \in {a, b} : x >= y) <=> x = b
    BY <1>3
  <2> QED BY <1>3, <2>1 DEF Max
<1> QED BY <1>2, <1>3

\* A function on 1 .. n is a text.
LEMMA TextOf ==
  ASSUME NEW n \in Nat, NEW f, f \in [1 .. n -> Value]
  PROVE  f \in Texts /\ Len(f) = n
BY DEF Texts

LEMMA TextIs ==
  ASSUME NEW t \in Texts
  PROVE  Len(t) \in Nat /\ t \in [1 .. Len(t) -> Value] /\ t = [n \in 1 .. Len(t) |-> t[n]]
BY DEF Texts

\* An inode whose sectors are all there.
Readable(node) ==
  /\ Nice(node.extents) /\ node.size \in Nat /\ node.size <= Reach(node.extents)
  /\ Owned(node) \subseteq Sectors

LEMMA SizeInReach ==
  ASSUME NEW node, Readable(node), NEW n \in 1 .. node.size
  PROVE  /\ n \in 1 .. Reach(node.extents) /\ SectorOf(node, n) \in Owned(node)
         /\ SectorOf(node, n) \in Sectors /\ Located(node, n - 1) = {SectorOf(node, n)}
<1>1. n \in 1 .. Reach(node.extents)
  BY ReachIsNat DEF Readable, Nice
<1> QED BY <1>1, SectorIsOwned DEF Readable

LEMMA ContentsAreRead ==
  ASSUME NEW d, NEW node, Readable(node)
  PROVE  Contents(d, node) = Reading(Flushed(d.data), node)
<1>1. ASSUME NEW n \in 1 .. node.size
      PROVE  LET s == CHOOSE x \in Located(node, n - 1) : TRUE
             IN (IF Located(node, n - 1) = {} THEN Stale
                 ELSE IF s \in DOMAIN cache THEN cache[s] ELSE d.data[s])
                = Flushed(d.data)[SectorOf(node, n)]
  <2>1. SectorOf(node, n) \in Sectors /\ Located(node, n - 1) # {}
    BY SizeInReach
  <2>2. (CHOOSE x \in Located(node, n - 1) : TRUE) = SectorOf(node, n)
    BY DEF SectorOf
  <2> QED BY <2>1, <2>2 DEF Flushed
<1> QED BY <1>1 DEF Contents, Reading

LEMMA ReadingType ==
  ASSUME NEW node, Readable(node), NEW data \in [Sectors -> Value]
  PROVE  Reading(data, node) \in Texts /\ Len(Reading(data, node)) = node.size
<1>1. Reading(data, node) \in [1 .. node.size -> Value]
  BY SizeInReach DEF Reading
<1> QED BY <1>1, TextOf DEF Readable

\* Only the file's own sectors matter.
LEMMA ReadingLocal ==
  ASSUME NEW node, Readable(node), NEW data, NEW other, \A s \in Owned(node) : other[s] = data[s]
  PROVE  Reading(other, node) = Reading(data, node)
<1>1. \A n \in 1 .. node.size : other[SectorOf(node, n)] = data[SectorOf(node, n)]
  BY SizeInReach
<1> QED BY <1>1 DEF Reading

\* A file that grows reads as before until its size is stored.
LEMMA ReadingGrown ==
  ASSUME NEW node, Readable(node), NEW grown, Nice(grown.extents),
         Begins(node.extents, grown.extents), grown.size = node.size, NEW data
  PROVE  Reading(data, grown) = Reading(data, node)
<1>1. \A n \in 1 .. node.size : SectorOf(grown, n) = SectorOf(node, n)
  BY SizeInReach, SectorsStay DEF Readable
<1> QED BY <1>1 DEF Reading

\* new, from sector offset on, has arrived in the file's sectors w: other is
\* what the disk holds then, data what it held before.
Arrived(node, data, other, offset, new, w) ==
  /\ w \subseteq offset + 1 .. offset + Len(new)
  /\ \A n \in w : other[SectorOf(node, n)] = new[n - offset]
  /\ \A s \in Owned(node) : (\A n \in w : s # SectorOf(node, n)) => other[s] = data[s]

LEMMA ReadingArrived ==
  ASSUME NEW node, Nice(node.extents), NEW data, NEW other, NEW offset \in Nat, NEW new \in Texts,
         NEW w, Arrived(node, data, other, offset, new, w),
         offset + Len(new) <= Reach(node.extents),
         NEW n \in 1 .. Reach(node.extents)
  PROVE  other[SectorOf(node, n)] = IF n \in w THEN new[n - offset] ELSE data[SectorOf(node, n)]
<1>1. CASE n \in w
  BY <1>1 DEF Arrived
<1>2. CASE n \notin w
  <2>1. ASSUME NEW m \in w PROVE SectorOf(node, n) # SectorOf(node, m)
    <3>1. m \in 1 .. Reach(node.extents)
      BY TextIs, ReachIsNat DEF Arrived, Nice
    <3> QED BY <1>2, <3>1, SectorsDiffer
  <2>2. SectorOf(node, n) \in Owned(node)
    BY SectorIsOwned
  <2> QED BY <1>2, <2>1, <2>2 DEF Arrived
<1> QED BY <1>1, <1>2

LEMMA ReadDuringWrite ==
  ASSUME NEW node, Readable(node), NEW data \in [Sectors -> Value], NEW other,
         NEW offset \in Nat, NEW new \in Texts,
         NEW w, Arrived(node, data, other, offset, new, w),
         offset + Len(new) <= Reach(node.extents)
  PROVE  Reading(other, node) \in DuringWrite(Reading(data, node), offset, new)
<1> DEFINE old == Reading(data, node)
           v == w \cap (1 .. node.size)
           mixed == [n \in 1 .. Len(old) |-> IF n \in v THEN new[n - offset] ELSE old[n]]
<1>1. Len(old) = node.size /\ old \in Texts
  BY ReadingType
<1>2. \A n \in 1 .. node.size : old[n] = data[SectorOf(node, n)]
  BY DEF Reading
<1>3. v \in SUBSET {n \in 1 .. Len(old) : n \in offset + 1 .. offset + Len(new)}
  BY <1>1 DEF Arrived
<1>4. \A n \in 1 .. node.size :
        other[SectorOf(node, n)] = IF n \in v THEN new[n - offset] ELSE old[n]
  BY <1>2, SizeInReach, ReadingArrived DEF Readable
<1> HIDE DEF v
<1>5. Reading(other, node) = mixed
  <2> HIDE DEF old
  <2> QED BY <1>1, <1>4 DEF Reading
<1>6. mixed \in DuringWrite(old, offset, new)
  <2> HIDE DEF old
  <2> QED BY <1>3 DEF DuringWrite
<1> HIDE DEF mixed
<1> QED BY <1>5, <1>6

\* All of it has arrived, and resized is the file with its new size.
Completed(node, data, other, offset, new, resized) ==
  /\ node \in Inode /\ Readable(node) /\ data \in [Sectors -> Value]
  /\ offset \in Nat /\ new \in Texts /\ offset <= node.size
  /\ offset + Len(new) <= Reach(node.extents)
  /\ Arrived(node, data, other, offset, new, offset + 1 .. offset + Len(new))
  /\ resized.size = Max({node.size, offset + Len(new)}) /\ resized.extents = node.extents

LEMMA ReadAfterWrite ==
  ASSUME NEW node, NEW data, NEW other, NEW offset, NEW new, NEW resized,
         Completed(node, data, other, offset, new, resized)
  PROVE  Reading(other, resized) = Patched(Reading(data, node), offset, new)
<1> USE DEF Completed
<1> DEFINE old == Reading(data, node)
           size == Max({node.size, offset + Len(new)})
<1>1. Len(old) = node.size /\ Len(new) \in Nat /\ node.size \in Nat /\ Reach(node.extents) \in Nat
  BY ReadingType, TextIs, ReachIsNat DEF Readable, Nice
<1>2. size = IF node.size >= offset + Len(new) THEN node.size ELSE offset + Len(new)
  BY <1>1, MaxOfTwo
<1> HIDE DEF size
<1>3. resized.size = size /\ resized.extents = node.extents
  BY DEF size
<1>4. \A n : SectorOf(resized, n) = SectorOf(node, n)
  BY <1>3 DEF SectorOf, Located
<1>5. ASSUME NEW n \in 1 .. size
      PROVE  other[SectorOf(resized, n)]
               = IF n \in offset + 1 .. offset + Len(new) THEN new[n - offset] ELSE old[n]
  <2>1. n \in 1 .. Reach(node.extents)
    BY <1>1, <1>2 DEF Readable
  <2>2. other[SectorOf(node, n)] = IF n \in offset + 1 .. offset + Len(new)
                                   THEN new[n - offset] ELSE data[SectorOf(node, n)]
    BY <2>1, ReadingArrived DEF Readable
  <2>3. n \notin offset + 1 .. offset + Len(new) => n \in 1 .. node.size
    BY <1>1, <1>2
  <2>4. n \in 1 .. node.size => old[n] = data[SectorOf(node, n)]
    BY DEF Reading
  <2> QED BY <1>4, <2>2, <2>3, <2>4
<1>6. Reading(other, resized) = [n \in 1 .. size |->
        IF n \in offset + 1 .. offset + Len(new) THEN new[n - offset] ELSE old[n]]
  BY <1>3, <1>5 DEF Reading
<1>7. Patched(old, offset, new) = [n \in 1 .. size |->
        IF n \in offset + 1 .. offset + Len(new) THEN new[n - offset] ELSE old[n]]
  <2> HIDE DEF old
  <2> QED BY <1>1 DEF Patched, size
<1> QED BY <1>6, <1>7

LEMMA PatchedType ==
  ASSUME NEW old \in Texts, NEW new \in Texts, NEW offset \in Nat, offset <= Len(old)
  PROVE  Patched(old, offset, new) \in Texts
<1> DEFINE size == Max({Len(old), offset + Len(new)})
           f == [n \in 1 .. size |-> IF n \in offset + 1 .. offset + Len(new)
                                     THEN new[n - offset] ELSE old[n]]
<1>1. /\ Len(old) \in Nat /\ Len(new) \in Nat
      /\ \A n \in 1 .. Len(old) : old[n] \in Value
      /\ \A n \in 1 .. Len(new) : new[n] \in Value
  BY DEF Texts
<1>2. size = IF Len(old) >= offset + Len(new) THEN Len(old) ELSE offset + Len(new)
  BY <1>1, MaxOfTwo
<1> HIDE DEF size
<1>3. size \in Nat
  BY <1>1, <1>2
<1>4. ASSUME NEW n \in 1 .. size
      PROVE  (IF n \in offset + 1 .. offset + Len(new) THEN new[n - offset] ELSE old[n]) \in Value
  <2>1. CASE n \in offset + 1 .. offset + Len(new)
    <3>1. n - offset \in 1 .. Len(new)
      BY <2>1, <1>1
    <3> QED BY <2>1, <3>1, <1>1
  <2>2. CASE n \notin offset + 1 .. offset + Len(new)
    <3>1. n \in 1 .. Len(old)
      BY <2>2, <1>1, <1>2
    <3> QED BY <2>2, <3>1, <1>1
  <2> QED BY <2>1, <2>2
<1>5. f \in [1 .. size -> Value]
  BY <1>4
<1> HIDE DEF f
<1>6. f \in Texts
  BY <1>3, <1>5, TextOf
<1> QED BY <1>6 DEF Patched, f, size

LEMMA DuringWriteType ==
  ASSUME NEW old \in Texts, NEW new \in Texts, NEW offset \in Nat, offset <= Len(old)
  PROVE  DuringWrite(old, offset, new) \subseteq Texts /\ old \in DuringWrite(old, offset, new)
<1> DEFINE Mixed(w) == [n \in 1 .. Len(old) |-> IF n \in w THEN new[n - offset] ELSE old[n]]
           Old == {n \in 1 .. Len(old) : n \in offset + 1 .. offset + Len(new)}
<1>1. /\ Len(old) \in Nat /\ Len(new) \in Nat
      /\ \A n \in 1 .. Len(old) : old[n] \in Value
      /\ \A n \in 1 .. Len(new) : new[n] \in Value
  BY DEF Texts
<1>2. ASSUME NEW w \in SUBSET Old PROVE Mixed(w) \in Texts
  <2>1. ASSUME NEW n \in w PROVE n - offset \in 1 .. Len(new)
    BY <1>1
  <2>2. Mixed(w) \in [1 .. Len(old) -> Value]
    BY <1>1, <2>1
  <2> HIDE DEF Mixed
  <2> QED BY <1>1, <2>2, TextOf
<1>3. Mixed({}) = old
  BY TextIs
<1>4. DuringWrite(old, offset, new) = {Mixed(w) : w \in SUBSET Old} \cup {Patched(old, offset, new)}
  BY DEF DuringWrite
<1> HIDE DEF Mixed
<1>5. {} \in SUBSET Old
  OBVIOUS
<1> HIDE DEF Old
<1> QED BY <1>2, <1>3, <1>4, <1>5, PatchedType

\* A new or emptied file is read as empty until the write is over.
LEMMA WriteIntoEmpty ==
  ASSUME NEW new \in Texts
  PROVE  Patched(<<>>, 0, new) = new /\ DuringWrite(<<>>, 0, new) = {<<>>, new}
<1>1. Len(new) \in Nat /\ new = [n \in 1 .. Len(new) |-> new[n]] /\ Len(<<>>) = 0
  BY TextIs
<1>2. Max({Len(<<>>), 0 + Len(new)}) = Len(new)
  BY <1>1, MaxOfTwo
<1>3. Patched(<<>>, 0, new) = [n \in 1 .. Len(new) |-> new[n]]
  <2>1. \A n \in 1 .. Len(new) : n \in 0 + 1 .. 0 + Len(new) /\ n - 0 = n
    BY <1>1
  <2> QED BY <1>2, <2>1 DEF Patched
<1>4. {n \in 1 .. Len(<<>>) : n \in 0 + 1 .. 0 + Len(new)} = {}
  BY <1>1
<1>5. \A w : [n \in 1 .. Len(<<>>) |-> IF n \in w THEN new[n - 0] ELSE <<>>[n]] = <<>>
  BY <1>1
<1>6. DuringWrite(<<>>, 0, new) = {<<>>} \cup {Patched(<<>>, 0, new)}
  <2>1. {[n \in 1 .. Len(<<>>) |-> IF n \in w THEN new[n - 0] ELSE <<>>[n]] :
           w \in SUBSET {n \in 1 .. Len(<<>>) : n \in 0 + 1 .. 0 + Len(new)}} = {<<>>}
    BY <1>4, <1>5
  <2> QED BY <2>1 DEF DuringWrite
<1> QED BY <1>1, <1>3, <1>6

-----------------------------------------------------------------------------
(* A transaction that stores one inode, and may reserve sectors.           *)

Stored(d, e, i, node, b) ==
  /\ e.nodes = [d.nodes EXCEPT ![i] = node] /\ e.bitmap = b /\ e.data = d.data
  /\ e = [nodes |-> e.nodes, bitmap |-> e.bitmap, data |-> e.data]

\* StoreNode is one.
LEMMA StoreNodeStores ==
  ASSUME disk \in Disks, NEW i, NEW node, StoreNode(i, node)
  PROVE  Stored(disk, disk', i, node, disk.bitmap)
BY DEF StoreNode, Stored, Disks

LEMMA DiskParts ==
  ASSUME NEW d \in Disks
  PROVE  /\ d.nodes \in [Numbers -> Inode] /\ d.bitmap \in SUBSET Sectors /\ d.data \in [Sectors -> Value]
         /\ d = [nodes |-> d.nodes, bitmap |-> d.bitmap, data |-> d.data]
         /\ \A i \in Numbers : d.nodes[i] \in Inode
BY DEF Disks, Numbers

LEMMA InodeParts ==
  ASSUME NEW node \in Inode
  PROVE  /\ node.kind \in {"free", "directory", "file"} /\ node.path \in AnyPath
         /\ node.size \in Nat /\ node.extents \in Extents
BY DEF Inode

LEMMA StoredParts ==
  ASSUME NEW d \in Disks, NEW i \in Inodes, NEW node \in Inode, NEW b \in SUBSET Sectors,
         NEW e, Stored(d, e, i, node, b)
  PROVE  /\ e \in Disks /\ e.bitmap = b /\ e.data = d.data
         /\ e.nodes[i] = node /\ \A j \in Numbers \ {i} : e.nodes[j] = d.nodes[j]
         /\ DOMAIN e.nodes = Numbers
<1>1. d.nodes \in [Numbers -> Inode] /\ d.data \in [Sectors -> Value] /\ i \in Numbers
  BY DiskParts DEF Numbers
<1>2. e.nodes \in [Numbers -> Inode] /\ e.bitmap \in SUBSET Sectors /\ e.data \in [Sectors -> Value]
  BY <1>1 DEF Stored
<1>3. e \in Disks
  BY <1>2 DEF Stored, Disks, Numbers
<1> QED BY <1>1, <1>2, <1>3 DEF Stored

\* An inode without extents owns nothing and is sound.
LEMMA OwnsNothing ==
  ASSUME NEW node, node.extents = <<>>
  PROVE  Owned(node) = {}
<1>1. ToSet(<<>>) = {}
  BY DEF ToSet
<1> QED BY <1>1 DEF Owned

LEMMA EmptyIsNice ==
  Nice(<<>>) /\ Reach(<<>>) = 0 /\ AllRuns(<<>>) = {} /\ Apart(<<>>)
<1>1. Len(<<>>) = 0 /\ <<>> \in Extents
  BY DEF Extents
<1>2. Chained(<<>>) /\ Apart(<<>>)
  BY <1>1 DEF Chained, Apart
<1>3. ToSet(<<>>) = {}
  BY DEF ToSet
<1> QED BY <1>1, <1>2, <1>3 DEF Nice, Reach, AllRuns

LEMMA EmptyIsSound ==
  ASSUME NEW node, node.extents = <<>>, node.size = 0
  PROVE  NodeIsSound(node) /\ Owned(node) = {}
BY EmptyIsNice, OwnsNothing DEF NodeIsSound, Nice

\* What is in use and in no file.
LEMMA OrphanedIs ==
  ASSUME NEW d \in Disks, NodesAreSound(d), NEW s
  PROVE  s \in Orphaned(d) <=> s \in d.bitmap /\ \A j \in Numbers : s \notin Owned(d.nodes[j])
<1>1. DOMAIN d.nodes = Numbers
  BY DiskParts
<1>2. ASSUME NEW j \in Numbers, d.nodes[j].kind = "free" PROVE Owned(d.nodes[j]) = {}
  <2>1. d.nodes[j].extents = <<>>
    BY <1>2 DEF NodesAreSound, NodeIsSound
  <2> QED BY <2>1, OwnsNothing
<1>3. \A j \in Numbers : j \in Nodes(d) \/ Owned(d.nodes[j]) = {}
  BY <1>1, <1>2 DEF Nodes
<1>4. Nodes(d) \subseteq Numbers
  BY <1>1 DEF Nodes
<1> QED BY <1>3, <1>4 DEF Orphaned

\* The inode may be stored as number i, with b as the bitmap.
Fits(d, i, node, b) ==
  /\ d \in Disks /\ NodesAreSound(d) /\ i \in Inodes
  /\ node \in Inode /\ NodeIsSound(node) /\ (node.kind # "free" => node.path # Root)
  /\ b \in SUBSET Sectors /\ d.bitmap \subseteq b /\ Owned(node) \subseteq b
  /\ \A j \in Numbers \ {i} : Owned(node) \cap Owned(d.nodes[j]) = {}

LEMMA StoredIsSound ==
  ASSUME NEW d, NEW i, NEW node, NEW b, Fits(d, i, node, b), NEW e, Stored(d, e, i, node, b)
  PROVE  /\ e \in Disks /\ NodesAreSound(e)
         /\ \A s : s \in Orphaned(e) <=> /\ s \in b /\ s \notin Owned(node)
                                         /\ \A j \in Numbers \ {i} : s \notin Owned(d.nodes[j])
<1>1. /\ e \in Disks /\ e.bitmap = b /\ e.nodes[i] = node
      /\ \A j \in Numbers \ {i} : e.nodes[j] = d.nodes[j]
  BY StoredParts DEF Fits
<1>2. i # 0 /\ 0 \in Numbers /\ i \in Numbers /\ Inodes \subseteq Numbers
  BY TreeAssumption DEF Numbers, Fits
<1>3. e.nodes[0] = RootNode
  BY <1>1, <1>2 DEF NodesAreSound, Fits
<1>4. ASSUME NEW j \in Numbers
      PROVE  NodeIsSound(e.nodes[j]) /\ Owned(e.nodes[j]) \subseteq e.bitmap
  BY <1>1 DEF NodesAreSound, Fits
<1>5. ASSUME NEW j \in Numbers, NEW k \in Numbers, j # k
      PROVE  Owned(e.nodes[j]) \cap Owned(e.nodes[k]) = {}
  <2>1. CASE j = i
    BY <1>1, <1>5, <2>1 DEF Fits
  <2>2. CASE k = i
    BY <1>1, <1>5, <2>2 DEF Fits
  <2>3. CASE j # i /\ k # i
    BY <1>1, <1>5, <2>3 DEF NodesAreSound, Fits
  <2> QED BY <2>1, <2>2, <2>3
<1>6. ASSUME NEW j \in Inodes, e.nodes[j].kind # "free" PROVE e.nodes[j].path # Root
  BY <1>1, <1>2, <1>6 DEF NodesAreSound, Fits
<1>7. NodesAreSound(e)
  BY <1>3, <1>4, <1>5, <1>6 DEF NodesAreSound, Fits
<1>8. ASSUME NEW s
      PROVE  s \in Orphaned(e) <=> /\ s \in b /\ s \notin Owned(node)
                                   /\ \A j \in Numbers \ {i} : s \notin Owned(d.nodes[j])
  <2>1. s \in Orphaned(e) <=> s \in b /\ \A j \in Numbers : s \notin Owned(e.nodes[j])
    BY <1>1, <1>7, OrphanedIs
  <2> QED BY <1>1, <1>2, <2>1
<1> QED BY <1>1, <1>7, <1>8

\* Nothing but extents and sizes changes: the tree stays.
LEMMA SameTree ==
  ASSUME NEW d, NEW e, Whole(d), DOMAIN e.nodes = DOMAIN d.nodes,
         \A i \in DOMAIN d.nodes : e.nodes[i].kind = d.nodes[i].kind /\ e.nodes[i].path = d.nodes[i].path
  PROVE  Whole(e)
<1>1. Nodes(e) = Nodes(d) /\ \A q : At(e, q) = At(d, q)
  BY DEF Nodes, At
<1>2. \A i \in Nodes(d) : i \in DOMAIN d.nodes
  BY DEF Nodes
<1>3. \A q : IsDirectory(d, q) => IsDirectory(e, q)
  <2>1. \A q : At(d, q) \subseteq DOMAIN d.nodes
    BY DEF At, Nodes
  <2> QED BY <1>1, <2>1 DEF IsDirectory
<1> QED BY <1>1, <1>2, <1>3 DEF Whole

LEMMA SameTreeStored ==
  ASSUME NEW d \in Disks, Whole(d), NEW i \in Inodes, NEW node \in Inode, NEW b \in SUBSET Sectors,
         NEW e, Stored(d, e, i, node, b), node.kind = d.nodes[i].kind, node.path = d.nodes[i].path
  PROVE  Whole(e)
<1>1. /\ e.nodes[i] = node /\ \A j \in Numbers \ {i} : e.nodes[j] = d.nodes[j]
      /\ DOMAIN e.nodes = Numbers
  BY StoredParts
<1>2. DOMAIN d.nodes = Numbers
  BY DiskParts
<1>3. \A j \in Numbers : e.nodes[j].kind = d.nodes[j].kind /\ e.nodes[j].path = d.nodes[j].path
  BY <1>1
<1> QED BY <1>1, <1>2, <1>3, SameTree

\* A new inode has a directory above it and a path of its own.
LEMMA CreatedTree ==
  ASSUME NEW d \in Disks, Whole(d), NEW p \in Paths, At(d, p) = {}, IsDirectory(d, Parent(p)),
         NEW i \in Inodes, d.nodes[i].kind = "free",
         NEW node \in Inode, node.kind # "free", node.path = p,
         NEW e, Stored(d, e, i, node, d.bitmap)
  PROVE  Whole(e)
<1>1. d.bitmap \in SUBSET Sectors /\ DOMAIN d.nodes = Numbers
  BY DiskParts
<1>2. /\ e.nodes[i] = node /\ \A j \in Numbers \ {i} : e.nodes[j] = d.nodes[j]
      /\ DOMAIN e.nodes = Numbers /\ i \in Numbers
  <2>1. i \in Numbers
    BY DEF Numbers
  <2>2. e.nodes = [d.nodes EXCEPT ![i] = node]
    BY DEF Stored
  <2>3. d.nodes \in [Numbers -> Inode]
    BY DiskParts
  <2> QED BY <2>1, <2>2, <2>3
<1>3. Nodes(e) = Nodes(d) \cup {i} /\ i \notin Nodes(d) /\ Nodes(d) \subseteq Numbers
  BY <1>1, <1>2 DEF Nodes
<1>4. \A q : At(e, q) = IF q = p THEN {i} ELSE At(d, q)
  <2>1. TAKE q
  <2>2. \A j \in Nodes(d) : e.nodes[j] = d.nodes[j]
    BY <1>2, <1>3
  <2>3. CASE q = p
    BY <1>2, <1>3, <2>2, <2>3 DEF At
  <2>4. CASE q # p
    BY <1>2, <1>3, <2>2, <2>4 DEF At
  <2> QED BY <2>3, <2>4
<1>5. ASSUME NEW q, IsDirectory(d, q) PROVE IsDirectory(e, q)
  <2>1. PICK k \in At(d, q) : d.nodes[k].kind = "directory"
    BY <1>5 DEF IsDirectory
  <2>2. k \in Nodes(d) /\ q # p
    BY <2>1 DEF At
  <2>3. k \in At(e, q) /\ e.nodes[k] = d.nodes[k]
    BY <1>2, <1>3, <1>4, <2>1, <2>2
  <2> QED BY <2>1, <2>3 DEF IsDirectory
<1>6. SUFFICES ASSUME NEW j \in Nodes(e) \ {0}
               PROVE  IsDirectory(e, Parent(e.nodes[j].path)) /\ At(e, e.nodes[j].path) = {j}
  BY DEF Whole
<1>7. CASE j = i
  BY <1>2, <1>4, <1>5, <1>7
<1>8. CASE j # i
  <2>1. j \in Nodes(d) \ {0} /\ e.nodes[j] = d.nodes[j]
    BY <1>2, <1>3, <1>6, <1>8
  <2>2. IsDirectory(d, Parent(d.nodes[j].path)) /\ At(d, d.nodes[j].path) = {j}
    BY <2>1 DEF Whole
  <2>3. d.nodes[j].path # p
    BY <2>2
  <2> QED BY <1>4, <1>5, <2>1, <2>2, <2>3
<1> QED BY <1>7, <1>8

\* An inode nobody is below can go.
LEMMA RemovedTree ==
  ASSUME NEW d \in Disks, Whole(d), NodesAreSound(d), NEW i \in Inodes, i \in Nodes(d),
         Children(d, d.nodes[i].path) = {},
         NEW e, Stored(d, e, i, Free, d.bitmap)
  PROVE  Whole(e)
<1>1. d.bitmap \in SUBSET Sectors /\ DOMAIN d.nodes = Numbers
  BY DiskParts
<1>2. Free \in Inode /\ Free.kind = "free"
  BY EmptyIsNice DEF Free, Inode, Nice, AnyPath
<1>3. /\ e.nodes[i] = Free /\ \A j \in Numbers \ {i} : e.nodes[j] = d.nodes[j]
      /\ DOMAIN e.nodes = Numbers /\ i \in Numbers
  <2>1. i \in Numbers
    BY DEF Numbers
  <2>2. e.nodes = [d.nodes EXCEPT ![i] = Free]
    BY DEF Stored
  <2>3. d.nodes \in [Numbers -> Inode]
    BY DiskParts
  <2> QED BY <2>1, <2>2, <2>3
<1>4. Nodes(e) = Nodes(d) \ {i} /\ Nodes(d) \subseteq Numbers
  BY <1>1, <1>2, <1>3 DEF Nodes
<1>5. \A j \in Nodes(e) : e.nodes[j] = d.nodes[j]
  BY <1>3, <1>4
<1>6. \A q : At(e, q) = At(d, q) \ {i}
  BY <1>4, <1>5 DEF At
<1>7. SUFFICES ASSUME NEW j \in Nodes(e) \ {0}
               PROVE  IsDirectory(e, Parent(e.nodes[j].path)) /\ At(e, e.nodes[j].path) = {j}
  BY DEF Whole
<1>8. j \in Nodes(d) \ {0} /\ j # i /\ e.nodes[j] = d.nodes[j] /\ j \in Inodes
  BY <1>4, <1>5, <1>7 DEF Numbers
<1>9. IsDirectory(d, Parent(d.nodes[j].path)) /\ At(d, d.nodes[j].path) = {j}
  BY <1>8 DEF Whole
<1>10. PICK k \in At(d, Parent(d.nodes[j].path)) : d.nodes[k].kind = "directory"
  BY <1>9 DEF IsDirectory
<1>11. k # i
  <2>1. SUFFICES ASSUME k = i PROVE FALSE
    OBVIOUS
  <2>2. d.nodes[i].path = Parent(d.nodes[j].path)
    BY <1>10, <2>1 DEF At
  <2>3. d.nodes[j].path # Root
    BY <1>8 DEF NodesAreSound, Nodes
  <2>4. j \in Children(d, d.nodes[i].path)
    BY <1>8, <2>2, <2>3 DEF Children
  <2> QED BY <2>4
<1>12. k \in At(e, Parent(d.nodes[j].path)) /\ e.nodes[k] = d.nodes[k]
  BY <1>5, <1>6, <1>10, <1>11, <1>4 DEF At
<1>13. IsDirectory(e, Parent(d.nodes[j].path))
  BY <1>10, <1>12 DEF IsDirectory
<1> QED BY <1>6, <1>8, <1>9, <1>13

-----------------------------------------------------------------------------
(* What the steps have in common.                                          *)

LEMMA ReadableNode ==
  ASSUME NEW d \in Disks, NodesAreSound(d), NEW i \in Numbers
  PROVE  d.nodes[i] \in Inode /\ Readable(d.nodes[i])
<1>1. d.nodes[i] \in Inode /\ d.bitmap \in SUBSET Sectors
  BY DiskParts
<1>2. NodeIsSound(d.nodes[i]) /\ Owned(d.nodes[i]) \subseteq d.bitmap
  BY DEF NodesAreSound
<1>3. d.nodes[i].size \in Nat /\ d.nodes[i].extents \in Extents
  BY <1>1, InodeParts
<1> QED BY <1>1, <1>2, <1>3 DEF Readable, NodeIsSound, Nice

\* Without a cache, reading gives what is on the disk.
Empty == [s \in {} |-> Stale]
LEMMA QuietContents ==
  ASSUME NEW d \in Disks, cache = Empty, NEW node, Readable(node)
  PROVE  Contents(d, node) = Reading(d.data, node)
<1>1. d.data \in [Sectors -> Value]
  BY DiskParts
<1>2. DOMAIN cache = {}
  BY DEF Empty
<1>3. Flushed(d.data) = d.data
  BY <1>1, <1>2 DEF Flushed
<1> QED BY <1>3, ContentsAreRead

LEMMA EmptyReading ==
  ASSUME NEW node, node.size = 0
  PROVE  \A data : Reading(data, node) = <<>>
<1>1. 1 .. node.size = {}
  OBVIOUS
<1> QED BY <1>1 DEF Reading

LEMMA EmptyText ==
  <<>> \in Texts /\ Len(<<>>) = 0
BY DEF Texts

\* The fields of a call.
LEMMA CallParts ==
  ASSUME NEW c \in Calls
  PROVE  /\ c.kind \in {"none", "write", "remove", "replace"}
         /\ c.phase \in {"idle", "reserve", "flush", "size", "release"}
         /\ c.inode \in Numbers /\ c.node \in Inode /\ c.offset \in Nat
         /\ c.data \in Texts /\ c.runs \in Extents /\ c.path \in AnyPath /\ c.goal \in Texts
BY DEF Calls, Numbers

LEMMA FreeType ==
  Free \in Inode /\ Free.kind = "free" /\ Free.size = 0 /\ Free.extents = <<>>
<1>1. <<>> \in Extents
  BY EmptyIsNice DEF Nice
<1> QED BY <1>1 DEF Free, Inode, AnyPath

NewNode(p, kind) == [Free EXCEPT !.kind = kind, !.path = p]

LEMMA NewNodeType ==
  ASSUME NEW p \in Paths, NEW kind \in {"directory", "file"}
  PROVE  /\ NewNode(p, kind) \in Inode
         /\ NewNode(p, kind).kind = kind /\ NewNode(p, kind).path = p
         /\ NewNode(p, kind).size = 0 /\ NewNode(p, kind).extents = <<>>
<1>1. <<>> \in Extents
  BY EmptyIsNice DEF Nice
<1> QED BY <1>1 DEF NewNode, Free, Inode, AnyPath

LEMMA IdleType ==
  /\ Idle \in Calls /\ Idle.phase = "idle" /\ Idle.runs = <<>> /\ Idle.inode = 0
<1>1. <<>> \in Extents /\ <<>> \in Texts /\ Free \in Inode
  BY EmptyIsNice, EmptyText, FreeType DEF Nice
<1> QED BY <1>1 DEF Idle, Calls, AnyPath

\* The call Writing makes, of the contents the file has on the disk.
WriteOf(i, node, offset, data, goal) ==
  [Idle EXCEPT !.kind = "write", !.phase = "reserve", !.inode = i, !.node = node,
               !.offset = offset, !.data = data, !.goal = goal]

LEMMA WriteOfType ==
  ASSUME NEW i \in Inodes, NEW node \in Inode, NEW offset \in Nat,
         NEW data \in Texts, NEW goal \in Texts
  PROVE  LET c == WriteOf(i, node, offset, data, goal)
         IN /\ c \in Calls /\ c.kind = "write" /\ c.phase = "reserve" /\ c.inode = i
            /\ c.node = node /\ c.offset = offset /\ c.data = data /\ c.goal = goal
            /\ c.runs = <<>>
<1>1. <<>> \in Extents /\ <<>> \in Texts /\ Free \in Inode
  BY EmptyIsNice, EmptyText, FreeType DEF Nice
<1> QED BY <1>1 DEF WriteOf, Idle, Calls, AnyPath

\* data may be written into inode i, and h says what it may read as meanwhile.
MayWrite(d, h, i, offset, data) ==
  /\ i \in Inodes /\ d.nodes[i] \in Inode /\ d.nodes[i].kind = "file"
  /\ Readable(d.nodes[i]) /\ d.data \in [Sectors -> Value]
  /\ offset \in Nat /\ offset <= d.nodes[i].size /\ data \in Texts
  /\ h[i] = DuringWrite(Reading(d.data, d.nodes[i]), offset, data)

WriteInto(d, i, offset, data) ==
  WriteOf(i, d.nodes[i], offset, data, Patched(Reading(d.data, d.nodes[i]), offset, data))

LEMMA WritingIsSound ==
  ASSUME NEW d, NEW h, NEW i, NEW offset, NEW data, MayWrite(d, h, i, offset, data)
  PROVE  /\ WriteInto(d, i, offset, data) \in Calls
         /\ WriteInto(d, i, offset, data).runs = <<>>
         /\ CallIsSound(d, WriteInto(d, i, offset, data), Empty, h)
<1> DEFINE old == Reading(d.data, d.nodes[i])
           goal == Patched(old, offset, data)
           c == WriteOf(i, d.nodes[i], offset, data, goal)
<1>1. old \in Texts /\ Len(old) = d.nodes[i].size
  BY ReadingType DEF MayWrite
<1>2. goal \in Texts
  BY <1>1, PatchedType DEF MayWrite
<1>3. /\ c \in Calls /\ c.kind = "write" /\ c.phase = "reserve" /\ c.inode = i
      /\ c.node = d.nodes[i] /\ c.offset = offset /\ c.data = data /\ c.goal = goal
      /\ c.runs = <<>>
  BY <1>2, WriteOfType DEF MayWrite
<1> HIDE DEF c, goal
<1>4. WriteIsSound(d, c, h)
  BY <1>3 DEF WriteIsSound, goal, MayWrite
<1>5. CallIsSound(d, c, Empty, h)
  BY <1>3, <1>4 DEF CallIsSound, Empty
<1> QED BY <1>3, <1>5 DEF c, goal, WriteInto

\* An inode changes, and what its file may be changes with it.
Revised(d, e, h, g, i, X) ==
  /\ e.data = d.data /\ i \in Inodes /\ \A j \in Inodes \ {i} : e.nodes[j] = d.nodes[j]
  /\ h \in [Inodes -> SUBSET Texts] /\ g = [h EXCEPT ![i] = X]
  /\ Reading(e.data, e.nodes[i]) \in X

LEMMA ExplainedStored ==
  ASSUME NEW d, NEW e, NEW h, NEW g, NEW i, NEW X, DiskIsExplained(d, h), Revised(d, e, h, g, i, X)
  PROVE  DiskIsExplained(e, g)
<1>1. \A j \in Inodes : g[j] = IF j = i THEN X ELSE h[j]
  BY DEF Revised
<1> QED BY <1>1 DEF DiskIsExplained, Revised

LEMMA HeldType ==
  ASSUME NEW h \in [Inodes -> SUBSET Texts], NEW i \in Inodes, NEW X \in SUBSET Texts
  PROVE  [h EXCEPT ![i] = X] \in [Inodes -> SUBSET Texts] /\ [h EXCEPT ![i] = X][i] = X
OBVIOUS

\* What holds between calls.
LEMMA IdleFacts ==
  ASSUME IInv
  PROVE  /\ disk \in Disks /\ NodesAreSound(disk) /\ Whole(disk)
         /\ call \in Calls /\ held \in [Inodes -> SUBSET Texts] /\ lost \subseteq Sectors
         /\ DOMAIN cache \subseteq Sectors /\ cache \in [DOMAIN cache -> Value]
         /\ call.phase # "flush" => cache = Empty
         /\ Ready => call = Idle /\ Orphaned(disk) = lost
         /\ DiskIsExplained(disk, held)
<1>1. Ready => call = Idle
  BY DEF IInv, CallIsSound, Ready
<1>2. Ready => Orphaned(disk) = lost
  BY <1>1, IdleType, EmptyIsNice DEF IInv, SpaceIsAccounted
<1> QED BY <1>1, <1>2 DEF IInv, TreeTypeOK, CallIsSound, Empty

\* A step after which no call runs and nothing is in the cache.
LEMMA IdleAfter ==
  ASSUME disk' \in Disks, NodesAreSound(disk'), Whole(disk'), DiskIsExplained(disk', held'),
         held' \in [Inodes -> SUBSET Texts], call' = Idle, cache' = Empty,
         lost' \subseteq Sectors, Orphaned(disk') = lost'
  PROVE  IInv'
<1>1. call' \in Calls /\ call'.phase = "idle" /\ call'.runs = <<>>
  BY IdleType
<1>2. SpaceIsAccounted(disk', lost', call'.runs)
  BY <1>1, EmptyIsNice DEF SpaceIsAccounted
<1>3. CallIsSound(disk', call', cache', held')
  BY <1>1 DEF CallIsSound, Empty
<1>4. DOMAIN cache' \subseteq Sectors /\ cache' \in [DOMAIN cache' -> Value]
  BY DEF Empty
<1> QED BY <1>1, <1>2, <1>3, <1>4 DEF IInv, TreeTypeOK

-----------------------------------------------------------------------------
(* Creating and beginning to write.                                        *)

LEMMA FreeInodeIsFree ==
  ASSUME NEW p, MayCreate(p)
  PROVE  FreeInode \in Inodes /\ disk.nodes[FreeInode].kind = "free"
<1>1. {i \in Inodes : disk.nodes[i].kind = "free"} # {}
  BY DEF MayCreate
<1>2. {i \in Inodes : disk.nodes[i].kind = "free"} \in SUBSET Nat
  BY TreeAssumption
<1>3. FreeInode \in {i \in Inodes : disk.nodes[i].kind = "free"}
  BY <1>1, <1>2, MinIsLeast DEF FreeInode
<1> QED BY <1>3

\* create_node's transaction.
LEMMA Created ==
  ASSUME IInv, NEW p \in Paths, NEW kind \in {"directory", "file"}, MayCreate(p),
         StoreNode(FreeInode, NewNode(p, kind))
  PROVE  /\ FreeInode \in Inodes
         /\ disk' \in Disks /\ NodesAreSound(disk') /\ Whole(disk')
         /\ Orphaned(disk') = Orphaned(disk) /\ disk'.data = disk.data
         /\ disk'.nodes[FreeInode] = NewNode(p, kind)
         /\ NewNode(p, kind) \in Inode /\ NewNode(p, kind).kind = kind
         /\ NewNode(p, kind).size = 0 /\ NewNode(p, kind).extents = <<>>
         /\ \A j \in Inodes \ {FreeInode} : disk'.nodes[j] = disk.nodes[j]
<1> DEFINE i == FreeInode
           node == NewNode(p, kind)
<1>1. i \in Inodes /\ disk.nodes[i].kind = "free"
  BY FreeInodeIsFree
<1>2. node \in Inode /\ node.kind = kind /\ node.path = p /\ node.size = 0 /\ node.extents = <<>>
  BY NewNodeType
<1>3. disk \in Disks /\ NodesAreSound(disk) /\ Whole(disk)
  BY IdleFacts
<1>4. Stored(disk, disk', i, node, disk.bitmap)
  BY <1>3, StoreNodeStores
<1>5. disk.bitmap \in SUBSET Sectors
  BY <1>3, DiskParts
<1>6. NodeIsSound(node) /\ Owned(node) = {} /\ p # Root
  BY <1>2, EmptyIsSound, TreeAssumption DEF Root
<1> HIDE DEF node, i
<1>7. /\ disk' \in Disks /\ disk'.data = disk.data /\ disk'.nodes[i] = node
      /\ \A j \in Numbers \ {i} : disk'.nodes[j] = disk.nodes[j]
  BY <1>1, <1>2, <1>3, <1>4, <1>5, StoredParts
<1>8. /\ NodesAreSound(disk')
      /\ \A s : s \in Orphaned(disk') <=> /\ s \in disk.bitmap /\ s \notin Owned(node)
                                          /\ \A j \in Numbers \ {i} : s \notin Owned(disk.nodes[j])
  <2>1. Fits(disk, i, node, disk.bitmap)
    BY <1>1, <1>2, <1>3, <1>5, <1>6 DEF Fits
  <2> QED BY <1>4, <2>1, StoredIsSound
<1>9. Owned(disk.nodes[i]) = {}
  <2>1. disk.nodes[i].extents = <<>>
    BY <1>1, <1>3 DEF NodesAreSound, NodeIsSound, Numbers
  <2> QED BY <2>1, OwnsNothing
<1>10. Orphaned(disk') = Orphaned(disk)
  <2>1. \A s : s \in Orphaned(disk) <=> s \in disk.bitmap /\ \A j \in Numbers : s \notin Owned(disk.nodes[j])
    BY <1>3, OrphanedIs
  <2> QED BY <1>6, <1>8, <1>9, <2>1
<1>11. Whole(disk')
  <2>1. node.kind # "free" /\ At(disk, p) = {} /\ IsDirectory(disk, Parent(p))
    BY <1>2 DEF MayCreate
  <2> QED BY <1>1, <1>2, <1>3, <1>4, <2>1, CreatedTree
<1>12. \A j \in Inodes \ {i} : disk'.nodes[j] = disk.nodes[j]
  BY <1>7 DEF Numbers
<1> QED BY <1>1, <1>2, <1>7, <1>8, <1>10, <1>11, <1>12 DEF node, i

\* A new inode, of a directory or of a file without contents.
LEMMA CreateKeeps ==
  ASSUME IInv, Ready, NEW p \in Paths, NEW kind \in {"directory", "file"}, MayCreate(p),
         StoreNode(FreeInode, NewNode(p, kind)), held' = [held EXCEPT ![FreeInode] = {<<>>}],
         UNCHANGED <<cache, call, lost>>
  PROVE  IInv'
<1>1. /\ FreeInode \in Inodes
      /\ disk' \in Disks /\ NodesAreSound(disk') /\ Whole(disk')
      /\ Orphaned(disk') = Orphaned(disk) /\ disk'.data = disk.data
      /\ disk'.nodes[FreeInode].size = 0
      /\ \A j \in Inodes \ {FreeInode} : disk'.nodes[j] = disk.nodes[j]
  BY Created, Zenon
<1>2. /\ call = Idle /\ Orphaned(disk) = lost /\ cache = Empty /\ lost \subseteq Sectors
      /\ held \in [Inodes -> SUBSET Texts] /\ DiskIsExplained(disk, held)
  <2>1. call.phase = "idle"
    BY DEF Ready
  <2> QED BY <2>1, IdleFacts
<1>3. held' \in [Inodes -> SUBSET Texts]
  BY <1>1, <1>2, EmptyText
<1>4. Reading(disk'.data, disk'.nodes[FreeInode]) \in {<<>>}
  BY <1>1, EmptyReading
<1>5. Revised(disk, disk', held, held', FreeInode, {<<>>})
  BY <1>1, <1>2, <1>4 DEF Revised
<1>6. DiskIsExplained(disk', held')
  BY <1>2, <1>5, ExplainedStored
<1> QED BY <1>1, <1>2, <1>3, <1>6, IdleAfter

LEMMA CreateDirectoryKeeps ==
  ASSUME IInv, CreateDirectory
  PROVE  IInv'
<1>1. PICK p \in Paths : Ready /\ CreateNode(p, "directory") /\ UNCHANGED <<cache, call, lost>>
  BY DEF CreateDirectory
<1>2. /\ MayCreate(p) /\ StoreNode(FreeInode, NewNode(p, "directory"))
      /\ held' = [held EXCEPT ![FreeInode] = {<<>>}]
  BY <1>1 DEF CreateNode, NewNode
<1> QED BY <1>1, <1>2, CreateKeeps

\* A call begins, and the disk is as it is.
LEMMA BeginAfter ==
  ASSUME disk' \in Disks, NodesAreSound(disk'), Whole(disk'), DiskIsExplained(disk', held'),
         held' \in [Inodes -> SUBSET Texts], cache' = Empty,
         lost' \subseteq Sectors, Orphaned(disk') = lost',
         call' \in Calls, call'.runs = <<>>, CallIsSound(disk', call', cache', held')
  PROVE  IInv'
<1>1. SpaceIsAccounted(disk', lost', call'.runs)
  BY EmptyIsNice DEF SpaceIsAccounted
<1>2. DOMAIN cache' \subseteq Sectors /\ cache' \in [DOMAIN cache' -> Value]
  BY DEF Empty
<1> QED BY <1>1, <1>2 DEF IInv, TreeTypeOK

\* The data a caller brings.
LEMMA DataIsText ==
  ASSUME NEW n \in Nat, NEW v \in Data
  PROVE  [k \in 1 .. n |-> v] \in Texts
<1>1. v \in Value
  BY DEF Value
<1> QED BY <1>1, TextOf

LEMMA WriteKeeps ==
  ASSUME IInv, Write
  PROVE  IInv'
<1>1. PICK p \in Paths, offset \in 0 .. MaxSize, n \in 1 .. MaxPatch, v \in Data :
        LET data == [k \in 1 .. n |-> v]
        IN \E i \in At(disk, p) :
             /\ Ready /\ disk.nodes[i].kind = "file"
             /\ offset <= disk.nodes[i].size /\ offset + n <= MaxSize
             /\ call' = Writing(i, disk.nodes[i], offset, data)
             /\ held' = [held EXCEPT ![i] = DuringWrite(Contents(disk, disk.nodes[i]), offset, data)]
             /\ UNCHANGED <<disk, cache, lost>>
  BY DEF Write
<1> DEFINE data == [k \in 1 .. n |-> v]
<1>2. data \in Texts /\ offset \in Nat
  <2>1. n \in Nat /\ offset \in Nat
    BY TreeAssumption
  <2> QED BY <2>1, DataIsText
<1> HIDE DEF data
<1>3. PICK i \in At(disk, p) :
        /\ Ready /\ disk.nodes[i].kind = "file" /\ offset <= disk.nodes[i].size
        /\ call' = Writing(i, disk.nodes[i], offset, data)
        /\ held' = [held EXCEPT ![i] = DuringWrite(Contents(disk, disk.nodes[i]), offset, data)]
        /\ UNCHANGED <<disk, cache, lost>>
  BY <1>1 DEF data
<1>4. /\ call = Idle /\ Orphaned(disk) = lost /\ cache = Empty /\ lost \subseteq Sectors
      /\ held \in [Inodes -> SUBSET Texts] /\ DiskIsExplained(disk, held)
      /\ disk \in Disks /\ NodesAreSound(disk) /\ Whole(disk)
  <2>1. call.phase = "idle"
    BY <1>3 DEF Ready
  <2> QED BY <1>3, <2>1, IdleFacts
<1>5. i \in Inodes
  <2>1. i \in Numbers
    BY <1>4, DiskParts DEF At, Nodes
  <2>2. i # 0
    BY <1>3, <1>4 DEF NodesAreSound, RootNode, Free
  <2> QED BY <2>1, <2>2 DEF Numbers
<1> DEFINE node == disk.nodes[i]
           old == Reading(disk.data, node)
           goal == Patched(old, offset, data)
           X == DuringWrite(old, offset, data)
<1>6. node \in Inode /\ Readable(node) /\ disk.data \in [Sectors -> Value]
  BY <1>4, <1>5, ReadableNode, DiskParts DEF Numbers
<1>7. Contents(disk, node) = old
  BY <1>4, <1>6, QuietContents
<1>8. old \in Texts /\ Len(old) = node.size
  BY <1>6, ReadingType
<1>9. X \in SUBSET Texts /\ old \in X
  BY <1>2, <1>3, <1>8, DuringWriteType
<1>10. held' \in [Inodes -> SUBSET Texts] /\ held'[i] = X
  BY <1>3, <1>4, <1>5, <1>7, <1>9, HeldType
<1>11. call' = WriteOf(i, node, offset, data, goal)
  BY <1>3, <1>7 DEF Writing, WriteOf
<1>12. /\ call' \in Calls /\ call'.runs = <<>>
       /\ CallIsSound(disk, call', Empty, held')
  <2>1. MayWrite(disk, held', i, offset, data)
    BY <1>2, <1>3, <1>5, <1>6, <1>10 DEF MayWrite
  <2>2. call' = WriteInto(disk, i, offset, data)
    BY <1>11 DEF WriteInto
  <2> QED BY <2>1, <2>2, WritingIsSound
<1>13. DiskIsExplained(disk, held')
  <2>1. Revised(disk, disk, held, held', i, X)
    BY <1>3, <1>4, <1>5, <1>7, <1>9 DEF Revised
  <2> HIDE DEF X
  <2> QED BY <1>4, <2>1, ExplainedStored
<1>14. disk' = disk /\ cache' = Empty /\ lost' = lost
  BY <1>3, <1>4
<1> QED BY <1>4, <1>10, <1>12, <1>13, <1>14, BeginAfter

LEMMA WriteNewKeeps ==
  ASSUME IInv, WriteNew
  PROVE  IInv'
<1>1. PICK p \in Paths, offset \in 0 .. 1, n \in 0 .. MaxSize, v \in Data :
        LET data == [k \in 1 .. n |-> v]
        IN /\ Ready /\ MayCreate(p)
           /\ StoreNode(FreeInode, [Free EXCEPT !.kind = "file", !.path = p])
           /\ IF offset = 0
              THEN /\ call' = Writing(FreeInode, disk'.nodes[FreeInode], 0, data)
                   /\ held' = [held EXCEPT ![FreeInode] = {<<>>, data}]
              ELSE /\ held' = [held EXCEPT ![FreeInode] = {<<>>}]
                   /\ UNCHANGED call
           /\ UNCHANGED <<cache, lost>>
  BY DEF WriteNew
<1> DEFINE data == [k \in 1 .. n |-> v]
           i == FreeInode
           node == NewNode(p, "file")
<1>2. data \in Texts
  <2>1. n \in Nat
    BY TreeAssumption
  <2> QED BY <2>1, DataIsText
<1>3. Ready /\ MayCreate(p) /\ StoreNode(i, node) /\ cache' = cache /\ lost' = lost
  BY <1>1 DEF NewNode
<1> HIDE DEF data
<1>4. CASE offset # 0
  <2>1. held' = [held EXCEPT ![FreeInode] = {<<>>}] /\ call' = call
    BY <1>1, <1>4 DEF data
  <2> QED BY <1>3, <2>1, CreateKeeps
<1>5. CASE offset = 0
  <2>1. call' = Writing(i, disk'.nodes[i], 0, data) /\ held' = [held EXCEPT ![i] = {<<>>, data}]
    BY <1>1, <1>5 DEF data
  <2>2. /\ i \in Inodes
        /\ disk' \in Disks /\ NodesAreSound(disk') /\ Whole(disk')
        /\ Orphaned(disk') = Orphaned(disk) /\ disk'.data = disk.data
        /\ disk'.nodes[i] = node /\ node \in Inode
        /\ node.kind = "file" /\ node.size = 0 /\ node.extents = <<>>
        /\ \A j \in Inodes \ {i} : disk'.nodes[j] = disk.nodes[j]
    BY <1>3, Created, Zenon
  <2>3. /\ call = Idle /\ Orphaned(disk) = lost /\ cache = Empty /\ lost \subseteq Sectors
        /\ held \in [Inodes -> SUBSET Texts] /\ DiskIsExplained(disk, held)
    <3>1. call.phase = "idle"
      BY <1>3 DEF Ready
    <3> QED BY <1>3, <3>1, IdleFacts
  <2> HIDE DEF i, node
  <2>4. Readable(node) /\ disk'.data \in [Sectors -> Value] /\ i \in Numbers
    <3>1. i \in Numbers
      BY <2>2 DEF Numbers
    <3> QED BY <2>2, <3>1, ReadableNode, DiskParts
  <2>5. Reading(disk'.data, node) = <<>> /\ Contents(disk, node) = <<>>
    <3>1. Reading(disk'.data, node) = <<>>
      BY <2>2, EmptyReading
    <3>2. 1 .. node.size = {}
      BY <2>2
    <3> QED BY <3>1, <3>2 DEF Contents
  <2>6. Patched(<<>>, 0, data) = data /\ DuringWrite(<<>>, 0, data) = {<<>>, data}
    BY <1>2, WriteIntoEmpty
  <2>7. {<<>>, data} \in SUBSET Texts
    BY <1>2, EmptyText
  <2>8. held' \in [Inodes -> SUBSET Texts] /\ held'[i] = {<<>>, data}
    BY <2>1, <2>2, <2>3, <2>7, HeldType
  <2>9. call' = WriteInto(disk', i, 0, data)
    BY <2>1, <2>2, <2>5 DEF Writing, WriteOf, WriteInto
  <2>10. /\ call' \in Calls /\ call'.runs = <<>>
         /\ CallIsSound(disk', call', Empty, held')
    <3>1. held'[i] = DuringWrite(Reading(disk'.data, disk'.nodes[i]), 0, data)
      BY <2>2, <2>5, <2>6, <2>8
    <3>2. MayWrite(disk', held', i, 0, data)
      BY <1>2, <2>2, <2>4, <3>1 DEF MayWrite
    <3> QED BY <2>9, <3>2, WritingIsSound
  <2>11. DiskIsExplained(disk', held')
    <3>1. Reading(disk'.data, disk'.nodes[i]) \in {<<>>, data}
      BY <2>2, <2>5
    <3>2. Revised(disk, disk', held, held', i, {<<>>, data})
      BY <2>1, <2>2, <2>3, <3>1 DEF Revised
    <3> QED BY <2>3, <3>2, ExplainedStored
  <2>12. cache' = Empty /\ lost' \subseteq Sectors /\ Orphaned(disk') = lost'
    BY <1>3, <2>2, <2>3
  <2> QED BY <2>2, <2>8, <2>10, <2>11, <2>12, BeginAfter
<1> QED BY <1>4, <1>5

-----------------------------------------------------------------------------
(* The steps of a write.                                                   *)

LEMMA WriteFacts ==
  ASSUME IInv, call.phase \in {"reserve", "flush"}
  PROVE  /\ call.inode \in Inodes /\ call.runs = <<>> /\ call.kind = "write"
         /\ call.node = disk.nodes[call.inode] /\ call.node \in Inode /\ Readable(call.node)
         /\ NodeIsSound(call.node) /\ call.node.kind = "file"
         /\ call.offset \in Nat /\ call.offset <= call.node.size /\ call.data \in Texts
         /\ Required = Upto(call) /\ Required \in Nat
         /\ Allocated(call.node) = Reach(call.node.extents) /\ Allocated(call.node) \in Nat
         /\ Orphaned(disk) = lost
         /\ WriteIsSound(disk, call, held)
<1>1. WriteIsSound(disk, call, held)
  BY DEF IInv, CallIsSound, FlushIsSound
<1>2. disk \in Disks /\ NodesAreSound(disk) /\ call \in Calls
  BY DEF IInv, TreeTypeOK
<1>3. /\ call.inode \in Inodes /\ call.runs = <<>> /\ call.kind = "write"
      /\ call.node = disk.nodes[call.inode] /\ call.node.kind = "file"
      /\ call.offset <= call.node.size
  BY <1>1 DEF WriteIsSound
<1>4. call.node \in Inode /\ Readable(call.node) /\ NodeIsSound(call.node)
  <2>1. call.inode \in Numbers
    BY <1>3 DEF Numbers
  <2> QED BY <1>2, <1>3, <2>1, ReadableNode DEF NodesAreSound
<1>5. call.offset \in Nat /\ call.data \in Texts
  BY <1>2, CallParts
<1>6. Required = Upto(call) /\ Required \in Nat
  BY <1>5, TextIs DEF Required, Upto
<1>7. Allocated(call.node) = Reach(call.node.extents) /\ Allocated(call.node) \in Nat
  BY <1>4, AllocatedIsReach, ReachIsNat DEF Readable, Nice
<1>8. Orphaned(disk) = lost
  BY <1>3, EmptyIsNice DEF IInv, SpaceIsAccounted
<1> QED BY <1>1, <1>3, <1>4, <1>5, <1>6, <1>7, <1>8

LEMMA ReserveKeeps ==
  ASSUME IInv, Reserve
  PROVE  IInv'
<1> DEFINE missing == Required - Allocated(call.node)
           run == FreeRun(disk, missing)
           node == Extended(call.node, run)
           i == call.inode
           b == disk.bitmap \cup Run(run)
<1>1. /\ call.phase = "reserve" /\ missing > 0 /\ run.count > 0
      /\ disk' = [disk EXCEPT !.bitmap = @ \cup Run(run), !.nodes[call.inode] = node]
      /\ call' = [call EXCEPT !.node = node]
      /\ cache' = cache /\ held' = held /\ lost' = lost
  BY DEF Reserve
<1>2. /\ i \in Inodes /\ call.runs = <<>> /\ call.node = disk.nodes[i] /\ call.node \in Inode
      /\ Readable(call.node) /\ NodeIsSound(call.node) /\ call.node.kind = "file"
      /\ Required \in Nat /\ Allocated(call.node) \in Nat
      /\ Orphaned(disk) = lost /\ WriteIsSound(disk, call, held)
  BY <1>1, WriteFacts
<1>3. /\ disk \in Disks /\ NodesAreSound(disk) /\ Whole(disk) /\ cache = Empty
      /\ call \in Calls /\ held \in [Inodes -> SUBSET Texts] /\ lost \subseteq Sectors
      /\ DiskIsExplained(disk, held)
  BY <1>1, IdleFacts
<1>4. disk.bitmap \in SUBSET Sectors /\ disk.data \in [Sectors -> Value]
  BY <1>3, DiskParts
<1>5. missing \in Nat \ {0}
  BY <1>1, <1>2
<1> HIDE DEF missing
<1>6. run \in Stretch /\ Run(run) \subseteq Sectors \ disk.bitmap
  BY <1>1, <1>4, <1>5, FreeRunIsFree
<1> HIDE DEF run
<1>7. Owned(call.node) \subseteq disk.bitmap /\ i \in Numbers
  BY <1>2, <1>3 DEF NodesAreSound, Numbers
<1>8. Run(run) \cap Owned(call.node) = {} /\ Nice(call.node.extents)
  BY <1>2, <1>6, <1>7 DEF Readable
<1>9. /\ node \in Inode /\ Nice(node.extents) /\ Begins(call.node.extents, node.extents)
      /\ node.kind = call.node.kind /\ node.path = call.node.path /\ node.size = call.node.size
      /\ Reach(node.extents) = Reach(call.node.extents) + run.count
      /\ Owned(node) = Owned(call.node) \cup Run(run)
  BY <1>2, <1>6, <1>8, ExtendedIsNice
<1> HIDE DEF node
<1>10. b \in SUBSET Sectors /\ disk.bitmap \subseteq b /\ Owned(node) \subseteq b
  BY <1>4, <1>6, <1>7, <1>9
<1>11. NodeIsSound(node)
  <2>1. node.size <= Reach(node.extents)
    BY <1>2, <1>6, <1>8, <1>9, ReachIsNat DEF Readable, Stretch, Nice
  <2> QED BY <1>2, <1>9, <2>1 DEF NodeIsSound, Nice
<1>12. Stored(disk, disk', i, node, b)
  BY <1>1, <1>3 DEF Stored, Disks
<1>13. Fits(disk, i, node, b)
  <2>1. \A j \in Numbers \ {i} : Owned(node) \cap Owned(disk.nodes[j]) = {}
    <3>1. TAKE j \in Numbers \ {i}
    <3>2. Owned(disk.nodes[j]) \subseteq disk.bitmap
      BY <1>3 DEF NodesAreSound
    <3>3. Owned(call.node) \cap Owned(disk.nodes[j]) = {}
      BY <1>2, <1>3, <1>7, <3>1 DEF NodesAreSound
    <3> QED BY <1>6, <1>9, <3>2, <3>3
  <2>2. node.path # Root
    BY <1>2, <1>3, <1>9 DEF NodesAreSound
  <2> QED BY <1>2, <1>3, <1>9, <1>10, <1>11, <2>1, <2>2 DEF Fits
<1> HIDE DEF b
<1>14. /\ disk' \in Disks /\ disk'.data = disk.data /\ disk'.nodes[i] = node
       /\ \A j \in Numbers \ {i} : disk'.nodes[j] = disk.nodes[j]
  <2>1. disk \in Disks /\ i \in Inodes /\ node \in Inode /\ b \in SUBSET Sectors
    BY <1>2, <1>3, <1>9, <1>10
  <2> HIDE DEF i
  <2> QED BY <2>1, <1>12, StoredParts
<1>15. /\ NodesAreSound(disk')
       /\ \A s : s \in Orphaned(disk') <=> /\ s \in b /\ s \notin Owned(node)
                                           /\ \A j \in Numbers \ {i} : s \notin Owned(disk.nodes[j])
  BY <1>12, <1>13, StoredIsSound
<1>16. Orphaned(disk') = Orphaned(disk)
  <2>1. \A s : s \in Orphaned(disk) <=> s \in disk.bitmap /\ \A j \in Numbers : s \notin Owned(disk.nodes[j])
    BY <1>3, OrphanedIs
  <2>2. \A s : s \in b <=> s \in disk.bitmap \/ s \in Run(run)
    BY DEF b
  <2>3. \A j \in Numbers : Owned(disk.nodes[j]) \subseteq disk.bitmap
    BY <1>3 DEF NodesAreSound
  <2> QED BY <1>2, <1>6, <1>7, <1>9, <1>15, <2>1, <2>2, <2>3
<1>17. Whole(disk')
  BY <1>2, <1>3, <1>9, <1>10, <1>12, SameTreeStored
<1>18. \A data : Reading(data, node) = Reading(data, call.node)
  BY <1>2, <1>9, ReadingGrown
<1>19. DiskIsExplained(disk', held')
  <2>1. ASSUME NEW j \in Inodes, disk'.nodes[j].kind = "file"
        PROVE  Reading(disk'.data, disk'.nodes[j]) \in held'[j]
    <3>1. CASE j = i
      BY <1>1, <1>2, <1>3, <1>14, <1>18, <3>1 DEF DiskIsExplained
    <3>2. CASE j # i
      <4>1. disk'.nodes[j] = disk.nodes[j]
        BY <1>14, <3>2 DEF Numbers
      <4> QED BY <1>1, <1>3, <1>14, <2>1, <4>1 DEF DiskIsExplained
    <3> QED BY <3>1, <3>2
  <2> QED BY <2>1 DEF DiskIsExplained
<1>20. /\ call' \in Calls /\ call'.node = node /\ call'.runs = <<>> /\ call'.phase = "reserve"
       /\ call'.kind = call.kind /\ call'.inode = i /\ call'.offset = call.offset
       /\ call'.data = call.data /\ call'.goal = call.goal
  BY <1>1, <1>2, <1>3, <1>9 DEF Calls
<1>21. CallIsSound(disk', call', cache', held')
  <2>1. WriteIsSound(disk', call', held')
    BY <1>1, <1>2, <1>9, <1>14, <1>18, <1>20 DEF WriteIsSound
  <2> QED BY <1>1, <1>3, <1>20, <2>1 DEF CallIsSound, Empty
<1>22. /\ cache' = Empty /\ held' \in [Inodes -> SUBSET Texts]
       /\ lost' \subseteq Sectors /\ Orphaned(disk') = lost'
  BY <1>1, <1>2, <1>3, <1>16
<1> QED BY <1>14, <1>15, <1>17, <1>19, <1>20, <1>21, <1>22, BeginAfter

\* What was reserved stays the file's, which reads as before.
LEMMA OutOfSpaceKeeps ==
  ASSUME IInv, OutOfSpace
  PROVE  IInv'
<1> DEFINE i == call.inode
           X == {Contents(disk, disk.nodes[i])}
<1>1. /\ call.phase = "reserve" /\ call' = Idle
      /\ held' = [held EXCEPT ![i] = X]
      /\ disk' = disk /\ cache' = cache /\ lost' = lost
  BY DEF OutOfSpace, Finish
<1>2. /\ i \in Inodes /\ call.node = disk.nodes[i] /\ Readable(call.node) /\ Orphaned(disk) = lost
  BY <1>1, WriteFacts
<1>3. /\ disk \in Disks /\ NodesAreSound(disk) /\ Whole(disk) /\ cache = Empty
      /\ held \in [Inodes -> SUBSET Texts] /\ lost \subseteq Sectors
      /\ DiskIsExplained(disk, held)
  BY <1>1, IdleFacts
<1>4. Contents(disk, disk.nodes[i]) = Reading(disk.data, disk.nodes[i])
  BY <1>2, <1>3, QuietContents
<1>5. X \in SUBSET Texts
  BY <1>2, <1>3, <1>4, ReadingType, DiskParts
<1>6. held' \in [Inodes -> SUBSET Texts]
  BY <1>1, <1>2, <1>3, <1>5, HeldType
<1>7. Revised(disk, disk, held, held', i, X)
  BY <1>1, <1>2, <1>3, <1>4 DEF Revised
<1> HIDE DEF X
<1>8. DiskIsExplained(disk, held')
  BY <1>3, <1>7, ExplainedStored
<1> QED BY <1>1, <1>2, <1>3, <1>6, <1>8, IdleAfter

\* The cache holds the data of the call, in the sectors of its file.
LEMMA WriteSectorsKeeps ==
  ASSUME IInv, WriteSectors
  PROVE  IInv'
<1> DEFINE node == call.node
           Place(n) == CHOOSE s \in Located(node, call.offset + n - 1) : TRUE
           written == {Place(n) : n \in 1 .. Len(call.data)}
<1>1. /\ call.phase = "reserve" /\ Required <= Allocated(node)
      /\ cache' = [s \in written \cup DOMAIN cache |->
                     IF s \in written THEN call.data[CHOOSE n \in 1 .. Len(call.data) : Place(n) = s]
                                      ELSE cache[s]]
      /\ call' = [call EXCEPT !.phase = "flush"]
      /\ disk' = disk /\ held' = held /\ lost' = lost
  BY DEF WriteSectors
<1>2. /\ call.inode \in Inodes /\ call.runs = <<>> /\ node \in Inode /\ Readable(node)
      /\ call.offset \in Nat /\ call.data \in Texts
      /\ Required = Upto(call) /\ Allocated(node) = Reach(node.extents)
      /\ Orphaned(disk) = lost /\ WriteIsSound(disk, call, held)
  BY <1>1, WriteFacts
<1>3. /\ disk \in Disks /\ NodesAreSound(disk) /\ Whole(disk) /\ cache = Empty
      /\ call \in Calls /\ held \in [Inodes -> SUBSET Texts] /\ lost \subseteq Sectors
      /\ DiskIsExplained(disk, held)
  BY <1>1, IdleFacts
<1> HIDE DEF node
<1>4. Len(call.data) \in Nat /\ \A n \in 1 .. Len(call.data) : call.data[n] \in Value
  BY <1>2, TextIs
<1>5. Reach(node.extents) \in Nat /\ Upto(call) = call.offset + Len(call.data)
  BY <1>2, ReachIsNat DEF Readable, Nice, Upto
<1>6. Upto(call) <= Reach(node.extents)
  BY <1>1, <1>2
<1>7. \A n \in 1 .. Len(call.data) :
         /\ call.offset + n \in Covered(call) /\ call.offset + n \in 1 .. Reach(node.extents)
         /\ Place(n) = SectorOf(node, call.offset + n)
  <2>1. TAKE n \in 1 .. Len(call.data)
  <2>2. n \in Nat /\ call.offset + n - 1 = (call.offset + n) - 1
    BY <1>2, <1>4
  <2>3. call.offset + n \in Covered(call) /\ call.offset + n \in 1 .. Reach(node.extents)
    BY <1>2, <1>4, <1>5, <1>6, <2>1 DEF Covered
  <2> QED BY <2>2, <2>3 DEF SectorOf
<1>8. \A m \in Covered(call) :
         /\ m \in Nat /\ m - call.offset \in 1 .. Len(call.data)
         /\ call.offset + (m - call.offset) = m /\ m \in 1 .. Reach(node.extents)
  BY <1>2, <1>4, <1>5, <1>6 DEF Covered
<1> HIDE DEF Place
<1>9. written = {SectorOf(node, m) : m \in Covered(call)}
  <2>1. ASSUME NEW n \in 1 .. Len(call.data)
        PROVE  \E m \in Covered(call) : Place(n) = SectorOf(node, m)
    BY <1>7
  <2>2. ASSUME NEW m \in Covered(call)
        PROVE  \E n \in 1 .. Len(call.data) : Place(n) = SectorOf(node, m)
    BY <1>7, <1>8
  <2> QED BY <2>1, <2>2
<1>10. DOMAIN cache = {}
  BY <1>3 DEF Empty
<1>11. DOMAIN cache' = {SectorOf(node, m) : m \in Covered(call)}
  BY <1>1, <1>9, <1>10
<1>12. ASSUME NEW m \in Covered(call)
       PROVE  /\ SectorOf(node, m) \in written
              /\ cache'[SectorOf(node, m)] = call.data[m - call.offset]
  <2> DEFINE s == SectorOf(node, m)
             n == CHOOSE x \in 1 .. Len(call.data) : Place(x) = s
  <2>1. s \in written
    BY <1>9
  <2>2. cache'[s] = call.data[n]
    BY <1>1, <2>1
  <2>3. Place(m - call.offset) = s
    BY <1>7, <1>8
  <2>4. n \in 1 .. Len(call.data) /\ Place(n) = s
    BY <1>8, <2>3
  <2> HIDE DEF n
  <2>5. SectorOf(node, call.offset + n) = SectorOf(node, m)
    BY <1>7, <2>4
  <2>6. call.offset + n = m
    BY <1>2, <1>7, <1>8, <2>4, <2>5, SectorsDiffer DEF Readable
  <2>7. n = m - call.offset
    BY <1>2, <1>4, <2>4, <2>6
  <2> QED BY <2>1, <2>2, <2>7
<1> HIDE DEF written
<1>13. DOMAIN cache' \subseteq Sectors /\ cache' \in [DOMAIN cache' -> Value]
  <2>1. \A m \in Covered(call) : SectorOf(node, m) \in Sectors
    BY <1>2, <1>8, SectorIsOwned DEF Readable
  <2>2. \A m \in Covered(call) : cache'[SectorOf(node, m)] \in Value
    BY <1>4, <1>8, <1>12
  <2>3. cache' = [s \in DOMAIN cache' |-> cache'[s]]
    BY <1>1, <1>10
  <2>4. \A s \in DOMAIN cache' : s \in Sectors /\ cache'[s] \in Value
    BY <1>11, <2>1, <2>2
  <2> QED BY <2>3, <2>4
<1>14. /\ call' \in Calls /\ call'.phase = "flush" /\ call'.runs = <<>>
       /\ call'.kind = call.kind /\ call'.inode = call.inode /\ call'.node = call.node
       /\ call'.offset = call.offset /\ call'.data = call.data /\ call'.goal = call.goal
  BY <1>1, <1>2, <1>3 DEF Calls
<1>15. CallIsSound(disk', call', cache', held')
  <2>1. WriteIsSound(disk', call', held')
    BY <1>1, <1>2, <1>14 DEF WriteIsSound
  <2>2. Upto(call') = Upto(call) /\ Covered(call') = Covered(call)
    BY <1>14 DEF Upto, Covered
  <2>3. FlushIsSound(disk', call', cache', held')
    BY <1>6, <1>11, <1>12, <1>14, <2>1, <2>2 DEF FlushIsSound, node
  <2> QED BY <1>14, <2>3 DEF CallIsSound
<1>16. SpaceIsAccounted(disk', lost', call'.runs)
  BY <1>1, <1>2, <1>14, EmptyIsNice DEF SpaceIsAccounted
<1> QED BY <1>1, <1>3, <1>13, <1>14, <1>15, <1>16 DEF IInv, TreeTypeOK

-----------------------------------------------------------------------------
(* Sectors that reach the disk, flushed or not.                            *)

\* Only data sectors differ.
LEMMA SameNodes ==
  ASSUME NEW d \in Disks, NodesAreSound(d), Whole(d),
         NEW e, e \in Disks, e.nodes = d.nodes, e.bitmap = d.bitmap
  PROVE  NodesAreSound(e) /\ Whole(e) /\ Orphaned(e) = Orphaned(d)
<1>1. NodesAreSound(e)
  BY DEF NodesAreSound
<1>2. Whole(e)
  BY SameTree
<1>3. Nodes(e) = Nodes(d)
  BY DEF Nodes
<1> QED BY <1>1, <1>2, <1>3 DEF Orphaned

\* What the disk's sectors hold when those of arrived have got there.
Arriving(data, arrived) == [s \in Sectors |-> IF s \in arrived THEN cache[s] ELSE data[s]]

LEMMA CacheIsOwned ==
  ASSUME IInv, call.phase = "flush"
  PROVE  /\ Upto(call) <= Reach(call.node.extents)
         /\ DOMAIN cache = {SectorOf(call.node, n) : n \in Covered(call)}
         /\ \A n \in Covered(call) : /\ n \in 1 .. Reach(call.node.extents)
                                     /\ SectorOf(call.node, n) \in Owned(call.node)
                                     /\ cache[SectorOf(call.node, n)] = call.data[n - call.offset]
         /\ DOMAIN cache \subseteq Owned(call.node)
<1>1. FlushIsSound(disk, call, cache, held)
  BY DEF IInv, CallIsSound
<1>2. Readable(call.node) /\ call.offset \in Nat /\ call.data \in Texts
  BY WriteFacts
<1>3. Len(call.data) \in Nat /\ Reach(call.node.extents) \in Nat
  BY <1>2, TextIs, ReachIsNat DEF Readable, Nice
<1>4. /\ Upto(call) <= Reach(call.node.extents)
      /\ DOMAIN cache = {SectorOf(call.node, n) : n \in Covered(call)}
      /\ \A n \in Covered(call) : cache[SectorOf(call.node, n)] = call.data[n - call.offset]
  BY <1>1 DEF FlushIsSound
<1>5. \A n \in Covered(call) : n \in 1 .. Reach(call.node.extents)
  BY <1>2, <1>3, <1>4 DEF Covered, Upto
<1>6. \A n \in Covered(call) : SectorOf(call.node, n) \in Owned(call.node)
  BY <1>2, <1>5, SectorIsOwned DEF Readable
<1> QED BY <1>4, <1>5, <1>6

\* Which of the data has arrived.
There(arrived) == {n \in Covered(call) : SectorOf(call.node, n) \in arrived}

LEMMA SomeArrive ==
  ASSUME IInv, call.phase = "flush", NEW arrived \in SUBSET DOMAIN cache
  PROVE  Arrived(call.node, disk.data, Arriving(disk.data, arrived), call.offset, call.data, There(arrived))
<1> DEFINE other == Arriving(disk.data, arrived)
<1>1. /\ \A n \in Covered(call) : /\ SectorOf(call.node, n) \in Owned(call.node)
                                  /\ cache[SectorOf(call.node, n)] = call.data[n - call.offset]
      /\ DOMAIN cache = {SectorOf(call.node, n) : n \in Covered(call)}
  BY CacheIsOwned
<1>2. Owned(call.node) \subseteq Sectors
  BY WriteFacts DEF Readable
<1>3. \A n \in There(arrived) : other[SectorOf(call.node, n)] = call.data[n - call.offset]
  BY <1>1, <1>2 DEF There, Arriving
<1>4. ASSUME NEW s \in Owned(call.node), \A n \in There(arrived) : s # SectorOf(call.node, n)
      PROVE  other[s] = disk.data[s]
  <2>1. s \notin arrived
    BY <1>1, <1>4 DEF There
  <2> QED BY <1>2, <2>1 DEF Arriving
<1>5. There(arrived) \subseteq call.offset + 1 .. call.offset + Len(call.data)
  BY DEF There, Covered, Upto
<1> HIDE DEF other
<1> QED BY <1>3, <1>4, <1>5 DEF Arrived, other

\* Any of the unflushed sectors may get to the disk: every file still reads
\* as one of the contents it may have.
LEMMA ArrivalsAreExplained ==
  ASSUME IInv, NEW arrived \in SUBSET DOMAIN cache, NEW i \in Inodes, disk.nodes[i].kind = "file"
  PROVE  Reading(Arriving(disk.data, arrived), disk.nodes[i]) \in held[i]
<1> DEFINE other == Arriving(disk.data, arrived)
           node == disk.nodes[i]
<1>1. disk \in Disks /\ NodesAreSound(disk) /\ DiskIsExplained(disk, held)
  BY IdleFacts
<1>2. Readable(node) /\ disk.data \in [Sectors -> Value]
  BY <1>1, ReadableNode, DiskParts DEF Numbers
<1>3. ASSUME \A s \in Owned(node) : s \notin arrived
      PROVE  Reading(other, node) \in held[i]
  <2>1. \A s \in Owned(node) : other[s] = disk.data[s]
    BY <1>2, <1>3 DEF Arriving, Readable
  <2> HIDE DEF other, node
  <2>2. Reading(other, node) = Reading(disk.data, node)
    BY <1>2, <2>1, ReadingLocal
  <2> QED BY <1>1, <2>2 DEF DiskIsExplained, node
<1>4. CASE call.phase # "flush"
  <2>1. DOMAIN cache = {}
    BY <1>4, IdleFacts DEF Empty
  <2> QED BY <1>3, <2>1
<1>5. CASE call.phase = "flush"
  <2>1. /\ call.node = disk.nodes[call.inode] /\ call.offset \in Nat /\ call.data \in Texts
        /\ WriteIsSound(disk, call, held) /\ call.inode \in Inodes
    BY <1>5, WriteFacts
  <2>2. CASE i = call.inode
    <3>1. Arrived(node, disk.data, other, call.offset, call.data, There(arrived))
      BY <1>5, <2>1, <2>2, SomeArrive
    <3>2. call.offset + Len(call.data) <= Reach(node.extents)
      BY <1>5, <2>1, <2>2, CacheIsOwned DEF Upto
    <3>3. held[i] = DuringWrite(Reading(disk.data, node), call.offset, call.data)
      BY <2>1, <2>2 DEF WriteIsSound
    <3> HIDE DEF other, node
    <3> QED BY <1>2, <2>1, <3>1, <3>2, <3>3, ReadDuringWrite DEF other, node
  <2>3. CASE i # call.inode
    <3>1. Owned(node) \cap Owned(call.node) = {}
      BY <1>1, <2>1, <2>3 DEF NodesAreSound, Numbers
    <3>2. DOMAIN cache \subseteq Owned(call.node)
      BY <1>5, CacheIsOwned
    <3> QED BY <1>3, <3>1, <3>2
  <2> QED BY <2>2, <2>3
<1> QED BY <1>4, <1>5

LEMMA ArrivingKeeps ==
  ASSUME IInv, NEW arrived \in SUBSET DOMAIN cache,
         disk' = [disk EXCEPT !.data = Arriving(@, arrived)]
  PROVE  /\ disk' \in Disks /\ NodesAreSound(disk') /\ Whole(disk')
         /\ Orphaned(disk') = Orphaned(disk) /\ DiskIsExplained(disk', held)
         /\ disk'.nodes = disk.nodes /\ disk'.data = Arriving(disk.data, arrived)
<1>1. /\ disk \in Disks /\ NodesAreSound(disk) /\ Whole(disk)
      /\ DOMAIN cache \subseteq Sectors /\ cache \in [DOMAIN cache -> Value]
  BY IdleFacts
<1>2. Arriving(disk.data, arrived) \in [Sectors -> Value]
  <2>1. disk.data \in [Sectors -> Value]
    BY <1>1, DiskParts
  <2> QED BY <1>1, <2>1 DEF Arriving
<1>3. /\ disk' \in Disks /\ disk'.nodes = disk.nodes /\ disk'.bitmap = disk.bitmap
      /\ disk'.data = Arriving(disk.data, arrived)
  BY <1>1, <1>2 DEF Disks
<1>4. NodesAreSound(disk') /\ Whole(disk') /\ Orphaned(disk') = Orphaned(disk)
  BY <1>1, <1>3, SameNodes
<1>5. DiskIsExplained(disk', held)
  BY <1>3, ArrivalsAreExplained DEF DiskIsExplained
<1> QED BY <1>3, <1>4, <1>5

LEMMA PowerFailsKeeps ==
  ASSUME IInv, PowerFails
  PROVE  IInv'
<1>1. PICK arrived \in SUBSET DOMAIN cache :
        disk' = [disk EXCEPT !.data = [s \in Sectors |-> IF s \in arrived THEN cache[s] ELSE @[s]]]
  BY DEF PowerFails
<1>2. disk' = [disk EXCEPT !.data = Arriving(@, arrived)]
  BY <1>1 DEF Arriving
<1>3. cache' = Empty /\ call' = Idle /\ lost' = Orphaned(disk) /\ held' = held
  BY DEF PowerFails, Empty
<1>4. /\ disk' \in Disks /\ NodesAreSound(disk') /\ Whole(disk')
      /\ Orphaned(disk') = Orphaned(disk) /\ DiskIsExplained(disk', held)
  BY <1>2, ArrivingKeeps
<1>5. held \in [Inodes -> SUBSET Texts] /\ Orphaned(disk) \subseteq Sectors
  <2>1. disk \in Disks /\ held \in [Inodes -> SUBSET Texts]
    BY IdleFacts
  <2>2. disk.bitmap \in SUBSET Sectors
    BY <2>1, DiskParts
  <2> QED BY <2>1, <2>2 DEF Orphaned
<1> QED BY <1>3, <1>4, <1>5, IdleAfter

\* After the flush the file's sectors hold the data; its size is still old.
LEMMA FlushDataKeeps ==
  ASSUME IInv, FlushData
  PROVE  IInv'
<1> DEFINE node == call.node
           arrived == DOMAIN cache
           resized == [node EXCEPT !.size = Max({@, Upto(call)})]
<1>1. /\ call.phase = "flush" /\ cache' = Empty /\ held' = held /\ lost' = lost
      /\ disk' = [disk EXCEPT !.data = Arriving(@, arrived)]
      /\ call' = [call EXCEPT !.phase = "size", !.node.size = Max({@, Required})]
  BY DEF FlushData, Flushed, Arriving, Empty
<1>2. /\ call.inode \in Inodes /\ call.runs = <<>> /\ node = disk.nodes[call.inode]
      /\ node \in Inode /\ Readable(node) /\ node.kind = "file"
      /\ call.offset \in Nat /\ call.offset <= node.size /\ call.data \in Texts
      /\ Required = Upto(call) /\ Required \in Nat /\ Orphaned(disk) = lost
      /\ WriteIsSound(disk, call, held)
  BY <1>1, WriteFacts
<1>3. /\ disk' \in Disks /\ NodesAreSound(disk') /\ Whole(disk')
      /\ Orphaned(disk') = Orphaned(disk) /\ DiskIsExplained(disk', held)
      /\ disk'.nodes = disk.nodes /\ disk'.data = Arriving(disk.data, arrived)
  BY <1>1, ArrivingKeeps
<1>4. /\ disk \in Disks /\ call \in Calls /\ held \in [Inodes -> SUBSET Texts]
      /\ lost \subseteq Sectors
  BY IdleFacts
<1>5. /\ Upto(call) <= Reach(node.extents)
      /\ \A n \in Covered(call) : SectorOf(node, n) \in arrived
  BY <1>1, CacheIsOwned
<1>6. /\ Covered(call) = call.offset + 1 .. call.offset + Len(call.data)
      /\ Arrived(node, disk.data, disk'.data, call.offset, call.data, Covered(call))
  <2>1. Arrived(node, disk.data, disk'.data, call.offset, call.data, There(arrived))
    BY <1>1, <1>3, SomeArrive
  <2>2. There(arrived) = Covered(call)
    BY <1>5 DEF There
  <2>3. Covered(call) = call.offset + 1 .. call.offset + Len(call.data)
    BY DEF Covered, Upto
  <2> QED BY <2>1, <2>2, <2>3
<1>7. call.goal = Reading(disk'.data, resized)
  <2>1. disk.data \in [Sectors -> Value]
    BY <1>4, DiskParts
  <2>2. Upto(call) = call.offset + Len(call.data)
    BY DEF Upto
  <2>3. call.goal = Patched(Reading(disk.data, node), call.offset, call.data)
    BY <1>2 DEF WriteIsSound
  <2> HIDE DEF node
  <2>4. resized.size = Max({node.size, Upto(call)}) /\ resized.extents = node.extents
    BY <1>2 DEF Inode
  <2> HIDE DEF resized
  <2>5. Reading(disk'.data, resized) = Patched(Reading(disk.data, node), call.offset, call.data)
    <3>1. Completed(node, disk.data, disk'.data, call.offset, call.data, resized)
      BY <1>2, <1>5, <1>6, <2>1, <2>2, <2>4 DEF Completed
    <3> QED BY <3>1, ReadAfterWrite
  <2> QED BY <2>3, <2>5
<1>8. Max({node.size, Upto(call)}) \in Nat
  BY <1>2, InodeParts, MaxOfTwo
<1>9. resized \in Inode
  BY <1>2, <1>8 DEF Inode
<1>10. call' = [call EXCEPT !.phase = "size", !.node = resized]
  BY <1>1, <1>2, <1>4 DEF Calls
<1> HIDE DEF resized
<1>11. /\ call' \in Calls /\ call'.phase = "size" /\ call'.node = resized /\ call'.runs = <<>>
       /\ call'.inode = call.inode /\ call'.offset = call.offset /\ call'.data = call.data
       /\ call'.goal = call.goal
  BY <1>2, <1>4, <1>9, <1>10 DEF Calls
<1>12. Upto(call') = Upto(call)
  BY <1>11 DEF Upto
<1>13. SizeIsSound(disk', call')
  BY <1>2, <1>3, <1>5, <1>7, <1>11, <1>12 DEF SizeIsSound, resized
<1>14. CallIsSound(disk', call', cache', held')
  BY <1>1, <1>11, <1>13 DEF CallIsSound, Empty
<1> QED BY <1>1, <1>2, <1>3, <1>4, <1>11, <1>14, BeginAfter

LEMMA StoreSizeKeeps ==
  ASSUME IInv, StoreSize
  PROVE  IInv'
<1> DEFINE i == call.inode
           old == disk.nodes[call.inode]
           node == call.node
<1>1. /\ call.phase = "size" /\ StoreNode(i, node)
      /\ held' = [held EXCEPT ![i] = {call.goal}]
      /\ call' = Idle /\ cache' = cache /\ lost' = lost
  BY DEF StoreSize, Finish
<1>2. /\ disk \in Disks /\ NodesAreSound(disk) /\ Whole(disk) /\ cache = Empty
      /\ call \in Calls /\ held \in [Inodes -> SUBSET Texts] /\ lost \subseteq Sectors
      /\ DiskIsExplained(disk, held)
  BY <1>1, IdleFacts
<1>3. SizeIsSound(disk, call)
  BY <1>1 DEF IInv, CallIsSound
<1>4. /\ i \in Inodes /\ old.kind = "file" /\ call.runs = <<>>
      /\ node = [old EXCEPT !.size = Max({@, Upto(call)})]
      /\ Upto(call) <= Reach(old.extents) /\ call.goal = Reading(disk.data, node)
  BY <1>3 DEF SizeIsSound
<1>5. old \in Inode /\ Readable(old) /\ i \in Numbers /\ NodeIsSound(old)
      /\ disk.bitmap \in SUBSET Sectors /\ Owned(old) \subseteq disk.bitmap
  <2>1. i \in Numbers
    BY <1>4 DEF Numbers
  <2> QED BY <1>2, <2>1, ReadableNode, DiskParts DEF NodesAreSound
<1>6. node \in Inode /\ call.goal \in Texts /\ call.offset \in Nat /\ call.data \in Texts
  BY <1>2, CallParts
<1>7. node.kind = old.kind /\ node.path = old.path /\ node.extents = old.extents
      /\ node.size = Max({old.size, Upto(call)})
  BY <1>4, <1>5 DEF Inode
<1>8. Orphaned(disk) = lost
  BY <1>4, EmptyIsNice DEF IInv, SpaceIsAccounted
<1> HIDE DEF i, old, node
<1>9. Owned(node) = Owned(old)
  BY <1>7 DEF Owned
<1>10. NodeIsSound(node)
  <2>1. Upto(call) \in Nat /\ old.size \in Nat
    BY <1>5, <1>6, TextIs, InodeParts DEF Upto
  <2>2. node.size <= Reach(old.extents)
    BY <1>4, <1>5, <1>7, <2>1, MaxOfTwo DEF Readable
  <2> QED BY <1>4, <1>5, <1>7, <2>2 DEF NodeIsSound
<1>11. Fits(disk, i, node, disk.bitmap)
  <2>1. \A j \in Numbers \ {i} : Owned(node) \cap Owned(disk.nodes[j]) = {}
    BY <1>2, <1>5, <1>9 DEF NodesAreSound, i, old
  <2>2. node.path # Root
    BY <1>2, <1>4, <1>7 DEF NodesAreSound, i, old
  <2> QED BY <1>2, <1>4, <1>5, <1>6, <1>9, <1>10, <2>1, <2>2 DEF Fits
<1>12. Stored(disk, disk', i, node, disk.bitmap)
  BY <1>1, <1>2, StoreNodeStores
<1>13. /\ disk' \in Disks /\ disk'.data = disk.data /\ disk'.nodes[i] = node
       /\ \A j \in Numbers \ {i} : disk'.nodes[j] = disk.nodes[j]
  BY <1>2, <1>4, <1>5, <1>6, <1>12, StoredParts
<1>14. /\ NodesAreSound(disk')
       /\ \A s : s \in Orphaned(disk') <=> /\ s \in disk.bitmap /\ s \notin Owned(node)
                                           /\ \A j \in Numbers \ {i} : s \notin Owned(disk.nodes[j])
  BY <1>11, <1>12, StoredIsSound
<1>15. Orphaned(disk') = Orphaned(disk)
  <2>1. \A s : s \in Orphaned(disk) <=> s \in disk.bitmap /\ \A j \in Numbers : s \notin Owned(disk.nodes[j])
    BY <1>2, OrphanedIs
  <2> QED BY <1>5, <1>9, <1>14, <2>1 DEF i, old
<1>16. Whole(disk')
  <2>1. node.kind = disk.nodes[i].kind /\ node.path = disk.nodes[i].path
    BY <1>7 DEF i, old
  <2> QED BY <1>2, <1>4, <1>5, <1>6, <1>12, <2>1, SameTreeStored
<1>17. held' \in [Inodes -> SUBSET Texts]
  BY <1>1, <1>2, <1>4, <1>6, HeldType
<1>18. DiskIsExplained(disk', held')
  <2>1. \A j \in Inodes \ {i} : disk'.nodes[j] = disk.nodes[j]
    BY <1>13 DEF Numbers
  <2>2. Revised(disk, disk', held, held', i, {call.goal})
    BY <1>1, <1>2, <1>4, <1>13, <2>1 DEF Revised
  <2> QED BY <1>2, <2>2, ExplainedStored
<1> QED BY <1>1, <1>2, <1>8, <1>13, <1>14, <1>15, <1>16, <1>17, <1>18, IdleAfter

-----------------------------------------------------------------------------
(* Giving space back.                                                      *)

\* What an inode owned is nobody's once it is stored without its extents.
LEMMA Vacated ==
  ASSUME disk \in Disks, NodesAreSound(disk), NEW i \in Inodes, NEW node \in Inode,
         node.extents = <<>>, node.size = 0, node.kind # "free" => node.path # Root,
         StoreNode(i, node)
  PROVE  /\ disk' \in Disks /\ NodesAreSound(disk') /\ disk'.data = disk.data
         /\ disk'.nodes[i] = node /\ \A j \in Inodes \ {i} : disk'.nodes[j] = disk.nodes[j]
         /\ SpaceIsAccounted(disk', Orphaned(disk), disk.nodes[i].extents)
         /\ Stored(disk, disk', i, node, disk.bitmap)
         /\ disk.nodes[i].extents \in Extents
<1>1. disk.bitmap \in SUBSET Sectors /\ i \in Numbers
  BY DiskParts DEF Numbers
<1>2. NodeIsSound(node) /\ Owned(node) = {}
  BY EmptyIsSound
<1>3. Stored(disk, disk', i, node, disk.bitmap)
  BY StoreNodeStores
<1>4. /\ disk' \in Disks /\ disk'.data = disk.data /\ disk'.nodes[i] = node
      /\ \A j \in Numbers \ {i} : disk'.nodes[j] = disk.nodes[j]
  BY <1>1, <1>3, StoredParts
<1>5. Fits(disk, i, node, disk.bitmap)
  BY <1>1, <1>2 DEF Fits
<1>6. /\ NodesAreSound(disk')
      /\ \A s : s \in Orphaned(disk') <=> /\ s \in disk.bitmap /\ s \notin Owned(node)
                                          /\ \A j \in Numbers \ {i} : s \notin Owned(disk.nodes[j])
  BY <1>3, <1>5, StoredIsSound
<1>7. \A s : s \in Orphaned(disk) <=> s \in disk.bitmap /\ \A j \in Numbers : s \notin Owned(disk.nodes[j])
  BY OrphanedIs
<1>8. Owned(disk.nodes[i]) = AllRuns(disk.nodes[i].extents)
  BY DEF Owned, AllRuns
<1>9. Owned(disk.nodes[i]) \subseteq disk.bitmap /\ Apart(disk.nodes[i].extents)
  BY <1>1 DEF NodesAreSound, NodeIsSound
<1>10. \A j \in Numbers \ {i} : Owned(disk.nodes[i]) \cap Owned(disk.nodes[j]) = {}
  BY <1>1 DEF NodesAreSound
<1>11. SpaceIsAccounted(disk', Orphaned(disk), disk.nodes[i].extents)
  <2>1. \A s : s \in Orphaned(disk') <=> s \in Orphaned(disk) \/ s \in Owned(disk.nodes[i])
    BY <1>1, <1>2, <1>6, <1>7, <1>9, <1>10
  <2>2. \A s \in Orphaned(disk) : s \notin Owned(disk.nodes[i])
    BY <1>1, <1>7
  <2> QED BY <1>8, <1>9, <2>1, <2>2 DEF SpaceIsAccounted
<1>12. disk.nodes[i].extents \in Extents
  BY <1>1, DiskParts, InodeParts
<1>13. \A j \in Inodes \ {i} : disk'.nodes[j] = disk.nodes[j]
  BY <1>4 DEF Numbers
<1> QED BY <1>3, <1>4, <1>6, <1>11, <1>12, <1>13

LEMMA ReleasingType ==
  ASSUME NEW kind \in {"remove", "replace"}, NEW runs \in Extents, NEW p \in Paths,
         NEW i \in Inodes, NEW data \in Texts
  PROVE  LET c == Releasing(kind, runs, p, i, data)
         IN /\ c \in Calls /\ c.kind = kind /\ c.phase = "release" /\ c.runs = runs
            /\ c.path = p /\ c.inode = i /\ c.data = data
<1>1. <<>> \in Extents /\ <<>> \in Texts /\ Free \in Inode
  BY EmptyIsNice, EmptyText, FreeType DEF Nice
<1> QED BY <1>1 DEF Releasing, Idle, Calls, AnyPath

\* A call that still has runs to give back.
LEMMA ReleaseAfter ==
  ASSUME disk' \in Disks, NodesAreSound(disk'), Whole(disk'), DiskIsExplained(disk', held'),
         held' \in [Inodes -> SUBSET Texts], cache' = Empty, lost' \subseteq Sectors,
         call' \in Calls, call'.phase = "release", ReleaseIsSound(disk', call', held'),
         SpaceIsAccounted(disk', lost', call'.runs)
  PROVE  IInv'
<1>1. CallIsSound(disk', call', cache', held')
  BY DEF CallIsSound, Empty
<1>2. DOMAIN cache' \subseteq Sectors /\ cache' \in [DOMAIN cache' -> Value]
  BY DEF Empty
<1> QED BY <1>1, <1>2 DEF IInv, TreeTypeOK

LEMMA ReplaceKeeps ==
  ASSUME IInv, Replace
  PROVE  IInv'
<1>1. PICK p \in Paths, n \in 0 .. MaxSize, v \in Data : \E i \in At(disk, p) :
        /\ Ready /\ disk.nodes[i].kind = "file"
        /\ StoreNode(i, Emptied(disk.nodes[i]))
        /\ call' = Releasing("replace", disk.nodes[i].extents, p, i, [k \in 1 .. n |-> v])
        /\ held' = [held EXCEPT ![i] = {<<>>, [k \in 1 .. n |-> v]}]
        /\ UNCHANGED <<cache, lost>>
  BY DEF Replace
<1> DEFINE data == [k \in 1 .. n |-> v]
<1>2. data \in Texts
  <2>1. n \in Nat
    BY TreeAssumption
  <2> QED BY <2>1, DataIsText
<1>3. PICK i \in At(disk, p) :
        /\ Ready /\ disk.nodes[i].kind = "file"
        /\ StoreNode(i, Emptied(disk.nodes[i]))
        /\ call' = Releasing("replace", disk.nodes[i].extents, p, i, data)
        /\ held' = [held EXCEPT ![i] = {<<>>, data}]
        /\ UNCHANGED <<cache, lost>>
  BY <1>1
<1> HIDE DEF data
<1>4. /\ call = Idle /\ Orphaned(disk) = lost /\ cache = Empty /\ lost \subseteq Sectors
      /\ held \in [Inodes -> SUBSET Texts] /\ DiskIsExplained(disk, held)
      /\ disk \in Disks /\ NodesAreSound(disk) /\ Whole(disk)
  <2>1. call.phase = "idle"
    BY <1>3 DEF Ready
  <2> QED BY <1>3, <2>1, IdleFacts
<1>5. i \in Inodes
  <2>1. i \in Numbers
    BY <1>4, DiskParts DEF At, Nodes
  <2>2. i # 0
    BY <1>3, <1>4 DEF NodesAreSound, RootNode, Free
  <2> QED BY <2>1, <2>2 DEF Numbers
<1> DEFINE old == disk.nodes[i]
           node == Emptied(old)
<1>6. old \in Inode /\ (old.kind # "free" => old.path # Root)
  BY <1>4, <1>5, ReadableNode DEF Numbers, NodesAreSound
<1>7. /\ node \in Inode /\ node.extents = <<>> /\ node.size = 0
      /\ node.kind = old.kind /\ node.path = old.path
  BY <1>6, EmptyIsNice DEF Emptied, Inode, Nice
<1>8. StoreNode(i, node)
  BY <1>3
<1> HIDE DEF node
<1>9. /\ disk' \in Disks /\ NodesAreSound(disk') /\ disk'.data = disk.data
      /\ disk'.nodes[i] = node /\ \A j \in Inodes \ {i} : disk'.nodes[j] = disk.nodes[j]
      /\ SpaceIsAccounted(disk', Orphaned(disk), old.extents)
      /\ Stored(disk, disk', i, node, disk.bitmap)
      /\ old.extents \in Extents
  BY <1>4, <1>5, <1>6, <1>7, <1>8, Vacated
<1>10. Whole(disk')
  <2>1. disk.bitmap \in SUBSET Sectors
    BY <1>4, DiskParts
  <2> QED BY <1>4, <1>5, <1>7, <1>9, <2>1, SameTreeStored
<1>11. {<<>>, data} \in SUBSET Texts
  BY <1>2, EmptyText
<1>12. held' \in [Inodes -> SUBSET Texts] /\ held'[i] = {<<>>, data}
  BY <1>3, <1>4, <1>5, <1>11, HeldType
<1>13. DiskIsExplained(disk', held')
  <2>1. Reading(disk'.data, disk'.nodes[i]) \in {<<>>, data}
    BY <1>7, <1>9, EmptyReading
  <2>2. Revised(disk, disk', held, held', i, {<<>>, data})
    BY <1>3, <1>4, <1>5, <1>9, <2>1 DEF Revised
  <2> QED BY <1>4, <2>2, ExplainedStored
<1>14. /\ call' \in Calls /\ call'.kind = "replace" /\ call'.phase = "release"
       /\ call'.runs = old.extents /\ call'.inode = i /\ call'.data = data
  BY <1>2, <1>3, <1>5, <1>9, ReleasingType
<1>15. ReleaseIsSound(disk', call', held')
  BY <1>3, <1>5, <1>7, <1>9, <1>12, <1>14 DEF ReleaseIsSound
<1>16. cache' = Empty /\ lost' \subseteq Sectors /\ SpaceIsAccounted(disk', lost', call'.runs)
  BY <1>3, <1>4, <1>9, <1>14
<1> QED BY <1>9, <1>10, <1>12, <1>13, <1>14, <1>15, <1>16, ReleaseAfter

\* The lowest inode below the path goes, and keeps its sectors reserved.
LEMMA RemoveNodeKeeps ==
  ASSUME IInv, cache = Empty, Orphaned(disk) = lost, NEW p \in Paths, NEW recursive,
         RemoveNode(p, recursive)
  PROVE  IInv'
<1> DEFINE i == Lowest(disk, p)
           old == disk.nodes[i]
<1>1. /\ At(disk, p) # {} /\ StoreNode(i, Free)
      /\ call' = Releasing("remove", disk.nodes[i].extents, p, i, <<>>)
      /\ held' = [held EXCEPT ![i] = {<<>>}]
      /\ cache' = cache /\ lost' = lost
  BY DEF RemoveNode
<1>2. /\ disk \in Disks /\ NodesAreSound(disk) /\ Whole(disk) /\ lost \subseteq Sectors
      /\ held \in [Inodes -> SUBSET Texts] /\ DiskIsExplained(disk, held)
  BY IdleFacts
<1>3. i \in Inodes /\ i \in Nodes(disk) /\ Children(disk, disk.nodes[i].path) = {}
  <2>1. TreeTypeOK
    BY DEF IInv
  <2> QED BY <1>1, <1>2, <2>1, LowestIsLeaf
<1> HIDE DEF i
<1>4. Free \in Inode /\ Free.kind = "free" /\ Free.size = 0 /\ Free.extents = <<>>
  BY FreeType
<1>5. /\ disk' \in Disks /\ NodesAreSound(disk') /\ disk'.data = disk.data
      /\ disk'.nodes[i] = Free /\ \A j \in Inodes \ {i} : disk'.nodes[j] = disk.nodes[j]
      /\ SpaceIsAccounted(disk', Orphaned(disk), disk.nodes[i].extents)
      /\ Stored(disk, disk', i, Free, disk.bitmap)
      /\ disk.nodes[i].extents \in Extents
  BY <1>1, <1>2, <1>3, <1>4, Vacated
<1>6. Whole(disk')
  BY <1>2, <1>3, <1>5, RemovedTree
<1>7. {<<>>} \in SUBSET Texts /\ <<>> \in Texts
  BY EmptyText
<1>8. held' \in [Inodes -> SUBSET Texts]
  BY <1>1, <1>2, <1>3, <1>7, HeldType
<1>9. DiskIsExplained(disk', held')
  <2>1. Reading(disk'.data, disk'.nodes[i]) \in {<<>>}
    BY <1>4, <1>5, EmptyReading
  <2>2. Revised(disk, disk', held, held', i, {<<>>})
    BY <1>1, <1>2, <1>3, <1>5, <2>1 DEF Revised
  <2> QED BY <1>2, <2>2, ExplainedStored
<1>10. /\ call' \in Calls /\ call'.kind = "remove" /\ call'.phase = "release"
       /\ call'.runs = disk.nodes[i].extents /\ call'.path = p
  BY <1>1, <1>3, <1>5, <1>7, ReleasingType
<1>11. ReleaseIsSound(disk', call', held')
  BY <1>10 DEF ReleaseIsSound
<1>12. cache' = Empty /\ lost' \subseteq Sectors /\ SpaceIsAccounted(disk', lost', call'.runs)
  BY <1>1, <1>2, <1>5, <1>10
<1> QED BY <1>5, <1>6, <1>8, <1>9, <1>10, <1>11, <1>12, ReleaseAfter

LEMMA RemovePathKeeps ==
  ASSUME IInv, RemovePath
  PROVE  IInv'
<1>1. PICK p \in Paths, recursive \in BOOLEAN : Ready /\ RemoveNode(p, recursive)
  BY DEF RemovePath
<1>2. cache = Empty /\ Orphaned(disk) = lost
  <2>1. call.phase = "idle"
    BY <1>1 DEF Ready
  <2> QED BY <1>1, <2>1, IdleFacts
<1> QED BY <1>1, <1>2, RemoveNodeKeeps

\* The first run is given back, and no other has one of its sectors.
LEMMA FirstRun ==
  ASSUME NEW es \in Extents, es # <<>>, Apart(es)
  PROVE  /\ Tail(es) \in Extents /\ Apart(Tail(es)) /\ Run(Head(es)) \subseteq AllRuns(es)
         /\ AllRuns(Tail(es)) = AllRuns(es) \ Run(Head(es))
<1>1. /\ Len(es) \in Nat \ {0} /\ Tail(es) \in Extents /\ Len(Tail(es)) = Len(es) - 1
      /\ \A k \in 1 .. Len(es) - 1 : Tail(es)[k] = es[k + 1]
      /\ Head(es) = es[1]
  BY DEF Extents
<1>2. \A s : s \in AllRuns(es) <=> \E k \in 1 .. Len(es) : s \in Run(es[k])
  BY RunsOf
<1>3. \A s : s \in AllRuns(Tail(es)) <=> \E k \in 1 .. Len(es) - 1 : s \in Run(es[k + 1])
  <2>1. \A s : s \in AllRuns(Tail(es)) <=> \E k \in 1 .. Len(Tail(es)) : s \in Run(Tail(es)[k])
    BY <1>1, RunsOf
  <2> QED BY <1>1, <2>1
<1>4. Apart(Tail(es))
  <2>1. ASSUME NEW j \in 1 .. Len(es) - 1, NEW k \in 1 .. Len(es) - 1, j # k
        PROVE  Run(Tail(es)[j]) \cap Run(Tail(es)[k]) = {}
    <3>1. j + 1 \in 1 .. Len(es) /\ k + 1 \in 1 .. Len(es) /\ j + 1 # k + 1
      BY <1>1, <2>1
    <3>2. Run(es[j + 1]) \cap Run(es[k + 1]) = {}
      BY <3>1 DEF Apart
    <3> QED BY <1>1, <3>2
  <2> QED BY <1>1, <2>1 DEF Apart
<1>5. Run(Head(es)) \subseteq AllRuns(es)
  BY <1>1, <1>2
<1>6. ASSUME NEW s
      PROVE  s \in AllRuns(Tail(es)) <=> s \in AllRuns(es) /\ s \notin Run(Head(es))
  <2>1. ASSUME NEW k \in 1 .. Len(es) - 1, s \in Run(es[k + 1])
        PROVE  s \in AllRuns(es) /\ s \notin Run(Head(es))
    <3>1. k + 1 \in 1 .. Len(es) /\ 1 \in 1 .. Len(es) /\ k + 1 # 1
      BY <1>1, <2>1
    <3>2. Run(es[k + 1]) \cap Run(es[1]) = {}
      BY <3>1 DEF Apart
    <3> QED BY <1>1, <1>2, <2>1, <3>1, <3>2
  <2>2. ASSUME s \in AllRuns(es), s \notin Run(Head(es)) PROVE s \in AllRuns(Tail(es))
    <3>1. PICK k \in 1 .. Len(es) : s \in Run(es[k])
      BY <1>2, <2>2
    <3>2. k # 1
      BY <1>1, <2>2, <3>1
    <3>3. k - 1 \in 1 .. Len(es) - 1 /\ (k - 1) + 1 = k
      BY <1>1, <3>1, <3>2
    <3> QED BY <1>3, <3>1, <3>3
  <2> QED BY <1>3, <2>1, <2>2
<1> QED BY <1>1, <1>4, <1>5, <1>6

LEMMA ReleaseKeeps ==
  ASSUME IInv, Release
  PROVE  IInv'
<1> DEFINE run == Run(Head(call.runs))
<1>1. /\ call.phase = "release" /\ call.runs # <<>>
      /\ disk' = [disk EXCEPT !.bitmap = @ \ run]
      /\ call' = [call EXCEPT !.runs = Tail(@)]
      /\ cache' = cache /\ held' = held /\ lost' = lost
  BY DEF Release
<1>2. /\ disk \in Disks /\ NodesAreSound(disk) /\ Whole(disk) /\ cache = Empty
      /\ call \in Calls /\ held \in [Inodes -> SUBSET Texts] /\ lost \subseteq Sectors
      /\ DiskIsExplained(disk, held)
  BY <1>1, IdleFacts
<1>3. /\ Orphaned(disk) = lost \cup AllRuns(call.runs)
      /\ lost \cap AllRuns(call.runs) = {} /\ Apart(call.runs)
  BY DEF IInv, SpaceIsAccounted
<1>4. call.runs \in Extents
  BY <1>2, CallParts
<1>5. /\ Tail(call.runs) \in Extents /\ Apart(Tail(call.runs)) /\ run \subseteq AllRuns(call.runs)
      /\ AllRuns(Tail(call.runs)) = AllRuns(call.runs) \ run
  BY <1>1, <1>3, <1>4, FirstRun
<1> HIDE DEF run
<1>6. /\ disk' \in Disks /\ disk'.nodes = disk.nodes /\ disk'.data = disk.data
      /\ disk'.bitmap = disk.bitmap \ run
  <2>1. disk.bitmap \ run \in SUBSET Sectors
    BY <1>2, DiskParts
  <2> QED BY <1>1, <1>2, <2>1 DEF Disks
<1>7. \A s : s \in Orphaned(disk) <=> s \in disk.bitmap /\ \A j \in Numbers : s \notin Owned(disk.nodes[j])
  BY <1>2, OrphanedIs
<1>8. NodesAreSound(disk')
  <2>1. \A j \in Numbers : Owned(disk'.nodes[j]) \subseteq disk'.bitmap
    <3>1. TAKE j \in Numbers
    <3>2. Owned(disk.nodes[j]) \subseteq disk.bitmap
      BY <1>2 DEF NodesAreSound
    <3>3. \A s \in run : s \notin Owned(disk.nodes[j])
      BY <1>3, <1>5, <1>7, <3>1
    <3> QED BY <1>6, <3>2, <3>3
  <2> QED BY <1>2, <1>6, <2>1 DEF NodesAreSound
<1>9. \A s : s \in Orphaned(disk') <=> s \in disk'.bitmap /\ \A j \in Numbers : s \notin Owned(disk'.nodes[j])
  BY <1>6, <1>8, OrphanedIs
<1>10. Orphaned(disk') = lost \cup AllRuns(Tail(call.runs))
  <2>1. \A s : s \in Orphaned(disk') <=> s \in Orphaned(disk) /\ s \notin run
    BY <1>6, <1>7, <1>9
  <2> QED BY <1>3, <1>5, <2>1
<1>11. Whole(disk')
  BY <1>2, <1>6, SameTree
<1>12. DiskIsExplained(disk', held')
  BY <1>1, <1>2, <1>6 DEF DiskIsExplained
<1>13. /\ call' \in Calls /\ call'.phase = "release" /\ call'.runs = Tail(call.runs)
       /\ call'.kind = call.kind /\ call'.path = call.path /\ call'.inode = call.inode
       /\ call'.data = call.data
  BY <1>1, <1>2, <1>5 DEF Calls
<1>14. ReleaseIsSound(disk', call', held')
  <2>1. ReleaseIsSound(disk, call, held)
    BY <1>1 DEF IInv, CallIsSound
  <2> QED BY <1>1, <1>6, <1>13, <2>1 DEF ReleaseIsSound
<1>15. SpaceIsAccounted(disk', lost', call'.runs)
  <2>1. lost \cap AllRuns(Tail(call.runs)) = {}
    BY <1>3, <1>5
  <2> QED BY <1>1, <1>5, <1>10, <1>13, <2>1 DEF SpaceIsAccounted
<1>16. cache' = Empty /\ lost' \subseteq Sectors /\ held' \in [Inodes -> SUBSET Texts]
  BY <1>1, <1>2
<1> QED BY <1>6, <1>8, <1>11, <1>12, <1>13, <1>14, <1>15, <1>16, ReleaseAfter

LEMMA ReleasedKeeps ==
  ASSUME IInv, Released
  PROVE  IInv'
<1>1. call.phase = "release" /\ call.runs = <<>>
  BY DEF Released
<1>2. /\ disk \in Disks /\ NodesAreSound(disk) /\ Whole(disk) /\ cache = Empty
      /\ call \in Calls /\ held \in [Inodes -> SUBSET Texts] /\ lost \subseteq Sectors
      /\ DiskIsExplained(disk, held)
  BY <1>1, IdleFacts
<1>3. Orphaned(disk) = lost
  BY <1>1, EmptyIsNice DEF IInv, SpaceIsAccounted
<1>4. ReleaseIsSound(disk, call, held)
  BY <1>1 DEF IInv, CallIsSound
<1>5. CASE call.kind = "remove" /\ RemoveNode(call.path, TRUE)
  <2>1. call.path \in Paths
    BY <1>4, <1>5 DEF ReleaseIsSound
  <2> QED BY <1>2, <1>3, <1>5, <2>1, RemoveNodeKeeps
<1>6. CASE Finish /\ UNCHANGED <<disk, cache, held, lost>>
  BY <1>2, <1>3, <1>6, IdleAfter DEF Finish
<1>7. CASE /\ call.kind = "replace"
           /\ call' = Writing(call.inode, disk.nodes[call.inode], 0, call.data)
           /\ UNCHANGED <<disk, cache, held, lost>>
  <2> DEFINE i == call.inode
             node == disk.nodes[i]
  <2>1. i \in Inodes /\ node.kind = "file" /\ node.size = 0 /\ held[i] = {<<>>, call.data}
    BY <1>4, <1>7 DEF ReleaseIsSound
  <2>2. node \in Inode /\ Readable(node) /\ disk.data \in [Sectors -> Value] /\ call.data \in Texts
    <3>1. i \in Numbers
      BY <2>1 DEF Numbers
    <3> QED BY <1>2, <3>1, ReadableNode, DiskParts, CallParts
  <2>3. Reading(disk.data, node) = <<>> /\ Contents(disk, node) = <<>>
    <3>1. Reading(disk.data, node) = <<>>
      BY <2>1, EmptyReading
    <3> HIDE DEF node
    <3> QED BY <1>2, <2>2, <3>1, QuietContents
  <2>4. DuringWrite(<<>>, 0, call.data) = {<<>>, call.data}
    BY <2>2, WriteIntoEmpty
  <2>5. call' = WriteInto(disk, i, 0, call.data)
    BY <1>7, <2>3 DEF Writing, WriteOf, WriteInto
  <2>6. MayWrite(disk, held, i, 0, call.data)
    <3>1. 0 \in Nat /\ 0 <= node.size
      BY <2>1
    <3> QED BY <2>1, <2>2, <2>3, <2>4, <3>1 DEF MayWrite
  <2>7. call' \in Calls /\ call'.runs = <<>> /\ CallIsSound(disk, call', Empty, held)
    BY <2>5, <2>6, WritingIsSound
  <2> HIDE DEF i, node
  <2> QED BY <1>2, <1>3, <1>7, <2>7, BeginAfter
<1> QED BY <1>5, <1>6, <1>7 DEF Released

-----------------------------------------------------------------------------
(* The theorems.                                                           *)

LEMMA InitIsSound ==
  ASSUME TreeInit
  PROVE  IInv
<1>1. /\ disk = Formatted /\ cache = Empty /\ call = Idle
      /\ held = [i \in Inodes |-> {<<>>}] /\ lost = {}
  BY DEF TreeInit, Empty
<1>2. Free \in Inode /\ Free.kind = "free" /\ Free.size = 0 /\ Free.extents = <<>>
  BY FreeType
<1>3. /\ RootNode \in Inode /\ RootNode.kind = "directory" /\ RootNode.path = Root
      /\ RootNode.size = 0 /\ RootNode.extents = <<>>
  BY EmptyIsNice DEF RootNode, Free, Inode, AnyPath, Nice
<1>4. 0 \notin Inodes /\ \A i \in Inodes : i \in Numbers /\ i # 0
  BY TreeAssumption DEF Numbers
<1>5. /\ disk.nodes = [i \in Numbers |-> IF i = 0 THEN RootNode ELSE Free]
      /\ disk.bitmap = {} /\ disk.data = [s \in Sectors |-> Stale]
      /\ disk = [nodes |-> disk.nodes, bitmap |-> disk.bitmap, data |-> disk.data]
  BY <1>1 DEF Formatted, Numbers
<1>6. disk \in Disks
  <2>1. disk.nodes \in [Inodes \cup {0} -> Inode]
    BY <1>2, <1>3, <1>5 DEF Numbers
  <2>2. disk.data \in [Sectors -> Value] /\ disk.bitmap \in SUBSET Sectors
    BY <1>5 DEF Value
  <2> QED BY <1>5, <2>1, <2>2 DEF Disks
<1>7. \A i \in Numbers : disk.nodes[i].size = 0 /\ disk.nodes[i].extents = <<>>
  BY <1>2, <1>3, <1>5
<1>8. \A i \in Numbers : NodeIsSound(disk.nodes[i]) /\ Owned(disk.nodes[i]) = {}
  BY <1>7, EmptyIsSound
<1>9. NodesAreSound(disk)
  <2>1. disk.nodes[0] = RootNode /\ \A i \in Inodes : disk.nodes[i].kind = "free"
    BY <1>2, <1>4, <1>5 DEF Numbers
  <2> QED BY <1>8, <2>1 DEF NodesAreSound
<1>10. Whole(disk)
  <2>1. Nodes(disk) \subseteq {0}
    BY <1>2, <1>5 DEF Nodes
  <2> QED BY <2>1 DEF Whole
<1>11. Orphaned(disk) = lost
  BY <1>1, <1>5 DEF Orphaned
<1>12. held \in [Inodes -> SUBSET Texts]
  BY <1>1, EmptyText
<1>13. DiskIsExplained(disk, held)
  <2>1. \A i \in Inodes : Reading(disk.data, disk.nodes[i]) = <<>>
    BY <1>4, <1>7, EmptyReading
  <2> QED BY <1>1, <2>1 DEF DiskIsExplained
<1>14. call \in Calls /\ call.phase = "idle" /\ call.runs = <<>>
  BY <1>1, IdleType
<1>15. SpaceIsAccounted(disk, lost, call.runs)
  BY <1>11, <1>14, EmptyIsNice DEF SpaceIsAccounted
<1>16. CallIsSound(disk, call, cache, held)
  BY <1>1, <1>14 DEF CallIsSound, Empty
<1>17. DOMAIN cache \subseteq Sectors /\ cache \in [DOMAIN cache -> Value]
  BY <1>1 DEF Empty
<1>18. lost \subseteq Sectors
  BY <1>1
<1> QED BY <1>6, <1>9, <1>10, <1>12, <1>13, <1>14, <1>15, <1>16, <1>17, <1>18 DEF IInv, TreeTypeOK

LEMMA StutterKeeps ==
  ASSUME IInv, UNCHANGED dfsVars
  PROVE  IInv'
BY Zenon DEF dfsVars, IInv, TreeTypeOK

LEMMA TreeStepKeeps ==
  ASSUME IInv, [TreeNext]_dfsVars
  PROVE  IInv'
<1>1. CASE CreateDirectory BY <1>1, CreateDirectoryKeeps
<1>2. CASE Write           BY <1>2, WriteKeeps
<1>3. CASE WriteNew        BY <1>3, WriteNewKeeps
<1>4. CASE Reserve         BY <1>4, ReserveKeeps
<1>5. CASE OutOfSpace      BY <1>5, OutOfSpaceKeeps
<1>6. CASE WriteSectors    BY <1>6, WriteSectorsKeeps
<1>7. CASE FlushData       BY <1>7, FlushDataKeeps
<1>8. CASE StoreSize       BY <1>8, StoreSizeKeeps
<1>9. CASE Replace         BY <1>9, ReplaceKeeps
<1>10. CASE RemovePath     BY <1>10, RemovePathKeeps
<1>11. CASE Release        BY <1>11, ReleaseKeeps
<1>12. CASE Released       BY <1>12, ReleasedKeeps
<1>13. CASE PowerFails     BY <1>13, PowerFailsKeeps
<1>14. CASE UNCHANGED dfsVars BY <1>14, StutterKeeps
<1> QED
  BY <1>1, <1>2, <1>3, <1>4, <1>5, <1>6, <1>7, <1>8, <1>9, <1>10, <1>11, <1>12, <1>13, <1>14
  DEF TreeNext

\* Every call on the root is a call on one of its two file systems: of the
\* root's steps those that touch the disk are steps of the disk (DfsTree),
\* the pivot's directory and sentinel and the start from the archive among
\* them (Vfs::current, pivot_root_to).
THEOREM RootUsesTheDisk == VfsSpec => TreeSpec
<1>1. VfsInit => TreeInit
  BY DEF VfsInit
<1>2. [VfsNext]_vfsVars => [TreeNext]_dfsVars
  <2> SUFFICES ASSUME [VfsNext]_vfsVars PROVE [TreeNext]_dfsVars
    OBVIOUS
  <2>1. CASE OnRamFs
    BY <2>1 DEF OnRamFs
  <2>2. CASE OnDisk
    BY <2>2 DEF OnDisk, NewDiskCall, TreeNext
  <2>3. CASE DiskGoesOn
    BY <2>3 DEF DiskGoesOn, TreeNext
  <2>4. CASE Pivot
    <3>1. CASE MayCreate(RunDirectory)
      <4>1. CreateNode(RunDirectory, "directory") /\ UNCHANGED <<cache, call, lost>> /\ Ready
        BY <2>4, <3>1 DEF Pivot
      <4>2. CreateDirectory
        BY <4>1, SentinelAssumption DEF CreateDirectory
      <4> QED BY <4>2 DEF TreeNext
    <3>2. CASE ~MayCreate(RunDirectory)
      BY <2>4, <3>2 DEF Pivot
    <3> QED BY <3>1, <3>2
  <2>5. CASE MarkPivoted
    BY <2>5 DEF MarkPivoted, TreeNext
  <2>6. CASE Restart
    BY <2>6 DEF Restart, TreeNext
  <2>7. CASE UNCHANGED vfsVars
    BY <2>7 DEF vfsVars
  <2> QED BY <2>1, <2>2, <2>3, <2>4, <2>5, <2>6, <2>7 DEF VfsNext
<1> QED BY <1>1, <1>2, PTL DEF VfsSpec, TreeSpec

\* The invariant of the disk, across every call and every power failure
\* between the transactions of dfs.rs: types, sound inodes, a whole tree,
\* accounted space, a running call that knows what it writes, and explained
\* contents.
THEOREM TreeIsSound == TreeSpec => []IInv
<1>1. TreeInit => IInv
  BY InitIsSound
<1>2. IInv /\ [TreeNext]_dfsVars => IInv'
  BY TreeStepKeeps
<1> QED BY <1>1, <1>2, PTL DEF TreeSpec

\* The invariant, of the root of the system.
THEOREM RootIsSound == VfsSpec => []IInv
BY RootUsesTheDisk, TreeIsSound, PTL

\* The bitmap covers every sector of a file, no two files share one and a
\* file's extents reach to its size, whatever find_free_run, add_extent,
\* truncate, remove, release_run and a power failure between them do.
THEOREM NoSectorHasTwoOwners == VfsSpec => []SectorsHaveOneOwner
<1>1. IInv => SectorsHaveOneOwner
  <2>1. SUFFICES ASSUME IInv PROVE SectorsHaveOneOwner
    OBVIOUS
  <2>2. disk \in Disks /\ NodesAreSound(disk)
    BY <2>1 DEF IInv, TreeTypeOK
  <2>3. Nodes(disk) \subseteq Numbers
    BY <2>2, DiskParts DEF Nodes
  <2>4. ASSUME NEW i \in Nodes(disk)
        PROVE  /\ Owned(disk.nodes[i]) \subseteq disk.bitmap
               /\ Cardinality(Owned(disk.nodes[i])) = Allocated(disk.nodes[i])
               /\ disk.nodes[i].size <= Allocated(disk.nodes[i])
               /\ \A n \in 0 .. Allocated(disk.nodes[i]) - 1 : Cardinality(Located(disk.nodes[i], n)) = 1
    <3> DEFINE node == disk.nodes[i]
    <3>1. Owned(node) \subseteq disk.bitmap /\ Readable(node)
      BY <2>2, <2>3, <2>4, ReadableNode DEF NodesAreSound
    <3> HIDE DEF node
    <3>2. Nice(node.extents) /\ node.size <= Reach(node.extents) /\ Reach(node.extents) \in Nat
      BY <3>1, ReachIsNat DEF Readable, Nice
    <3>3. Allocated(node) = Reach(node.extents)
      BY <3>2, AllocatedIsReach DEF Nice
    <3>4. Cardinality(Owned(node)) = Allocated(node)
      BY <3>2, OwnedIsCounted
    <3>5. ASSUME NEW n \in 0 .. Allocated(node) - 1 PROVE Cardinality(Located(node, n)) = 1
      <4>1. n + 1 \in 1 .. Reach(node.extents) /\ (n + 1) - 1 = n
        BY <3>2, <3>3
      <4>2. Located(node, n) = {SectorOf(node, n + 1)}
        BY <3>2, <4>1, SectorIsOwned
      <4> QED BY <4>2, FS_Singleton
    <3> QED BY <3>1, <3>2, <3>3, <3>4, <3>5 DEF node
  <2>5. \A i, j \in Nodes(disk) : i # j => Owned(disk.nodes[i]) \cap Owned(disk.nodes[j]) = {}
    BY <2>2, <2>3 DEF NodesAreSound
  <2> QED BY <2>4, <2>5 DEF SectorsHaveOneOwner
<1> QED BY <1>1, RootIsSound, PTL

\* A file reads as the last write left it; while one runs, and after the
\* power failed in one, as the old or the new contents, never as what its
\* sectors held before (the flush of write_file between data and size).
THEOREM EveryReadIsExplained == VfsSpec => []ReadsAreExplained
<1>1. IInv => ReadsAreExplained
  <2>1. SUFFICES ASSUME IInv, NEW i \in Nodes(disk), disk.nodes[i].kind = "file"
                 PROVE  Contents(disk, disk.nodes[i]) \in held[i]
    BY DEF ReadsAreExplained
  <2>2. disk \in Disks /\ NodesAreSound(disk)
    BY <2>1 DEF IInv, TreeTypeOK
  <2>3. i \in Numbers /\ i \in Inodes
    <3>1. i \in Numbers
      BY <2>1, <2>2, DiskParts DEF Nodes
    <3>2. i # 0
      BY <2>1, <2>2 DEF NodesAreSound, RootNode, Free
    <3> QED BY <3>1, <3>2 DEF Numbers
  <2>4. Readable(disk.nodes[i])
    BY <2>2, <2>3, ReadableNode
  <2>5. Contents(disk, disk.nodes[i]) = Reading(Flushed(disk.data), disk.nodes[i])
    BY <2>4, ContentsAreRead
  <2>6. Flushed(disk.data) = Arriving(disk.data, DOMAIN cache)
    BY DEF Flushed, Arriving
  <2>7. Reading(Arriving(disk.data, DOMAIN cache), disk.nodes[i]) \in held[i]
    BY <2>1, <2>3, ArrivalsAreExplained
  <2> QED BY <2>5, <2>6, <2>7
<1> QED BY <1>1, RootIsSound, PTL

\* Whoever has a path has its parent directory and no two have one path, in
\* the middle of a recursive removal too (create_node, find_index, remove).
THEOREM TreeStaysWhole == VfsSpec => []TreeIsWhole
<1>1. IInv => TreeIsWhole
  BY DEF IInv, Whole, TreeIsWhole
<1> QED BY <1>1, RootIsSound, PTL

\* Between calls every reserved sector is in a file, but for those a power
\* failure took: failed writes and removals leak nothing (reserve_run,
\* release_run).
THEOREM OnlyPowerLosesSectors == VfsSpec => []NothingLeaks
<1>1. IInv => NothingLeaks
  BY IdleFacts DEF NothingLeaks, Ready
<1> QED BY <1>1, RootIsSound, PTL
-----------------------------------------------------------------------------
(* The overlay (RamFs): what its calls keep.                               *)

\* Types.
NodeIsTyped(node) ==
  /\ node.kind \in Overlay!Kinds
  /\ node.start \in Nat /\ node.length \in Nat /\ node.capacity \in Nat

OverlayTyped(fs) ==
  /\ fs = [overlay |-> fs.overlay, pool |-> fs.pool, used |-> fs.used]
  /\ DOMAIN fs.overlay \subseteq OverlayPaths
  /\ \A p \in DOMAIN fs.overlay : NodeIsTyped(fs.overlay[p])
  /\ fs.pool \in [1 .. PoolSize -> Nat] /\ fs.used \in 0 .. PoolSize

Files(fs) == {p \in DOMAIN fs.overlay : fs.overlay[p].kind = "file"}
EndOf(node) == node.start + node.capacity

\* The files lie in the used part of the pool, and no two share a byte.
PoolIsShared(fs) ==
  /\ \A p \in Files(fs) : /\ fs.overlay[p].length <= fs.overlay[p].capacity
                          /\ fs.overlay[p].length <= MaxFileSize
                          /\ EndOf(fs.overlay[p]) <= fs.used
  /\ \A p, q \in Files(fs) : p # q => \/ EndOf(fs.overlay[p]) <= fs.overlay[q].start
                                      \/ EndOf(fs.overlay[q]) <= fs.overlay[p].start

\* A node is in a directory: one of the table or one of the archive.
Rooted(fs) ==
  \A p \in DOMAIN fs.overlay :
    Overlay!Parent(p) \in DOMAIN fs.overlay \/ Overlay!ArchiveHasDirectory(Overlay!Parent(p))

Exists(fs, p) == Overlay!IsFile(fs, p) \/ Overlay!IsDirectory(fs, p)

\* Whoever is there without its directory was uncovered by a call.
StrayAreKnown(fs, os) ==
  \A p \in OverlayPaths : Exists(fs, p) /\ ~Overlay!IsDirectory(fs, Overlay!Parent(p)) => p \in os

\* Every path reads as the callers left it.
Believed(fs, now, os) == \A p \in OverlayPaths \ os : Overlay!Read(fs, p) = now[p]

-----------------------------------------------------------------------------
(* Paths.                                                                  *)

LEMMA PathFacts ==
  /\ OverlayPaths \subseteq Words /\ Overlay!Root \in Words /\ Overlay!Root \notin OverlayPaths
  /\ ArchiveFiles \subseteq Words /\ ArchiveDirectories \subseteq Words
  /\ Overlay!Root \notin ArchiveFiles /\ Overlay!Root \notin ArchiveDirectories
BY OverlayAssumption DEF Words, Overlay!Root, Names

LEMMA PathIs ==
  ASSUME NEW p \in Words
  PROVE  Len(p) \in Nat /\ (\A i \in 1 .. Len(p) : p[i] \in Names)
         /\ (p = Overlay!Root <=> Len(p) = 0)
BY DEF Words, Overlay!Root

LEMMA UnderParts ==
  ASSUME NEW p \in Words, NEW q \in Words
  PROVE  Overlay!Under(p, q) <=> Len(q) < Len(p) /\ \A i \in 1 .. Len(q) : q[i] = p[i]
<1>1. Len(p) \in Nat /\ Len(q) \in Nat
  BY PathIs
<1>2. CASE Len(q) > Len(p)
  BY <1>1, <1>2 DEF Overlay!Under, Overlay!IsStrictPrefix, Overlay!IsPrefix
<1>3. CASE Len(q) <= Len(p)
  <2>1. SubSeq(q, 1, Len(q)) = q
    BY SubSeqFull DEF Words
  <2>2. /\ SubSeq(p, 1, Len(q)) \in Words /\ Len(SubSeq(p, 1, Len(q))) = Len(q)
        /\ \A i \in 1 .. Len(q) : SubSeq(p, 1, Len(q))[i] = p[i]
    BY <1>1, <1>3, FirstNames
  <2>3. Overlay!IsPrefix(q, p) <=> q = SubSeq(p, 1, Len(q))
    BY <1>3, <2>1, Zenon DEF Overlay!IsPrefix
  <2>4. (q = SubSeq(p, 1, Len(q))) <=> \A i \in 1 .. Len(q) : q[i] = p[i]
    BY <2>2, SameNames
  <2>5. Len(q) = Len(p) /\ (\A i \in 1 .. Len(q) : q[i] = p[i]) => q = p
    BY SameNames
  <2> QED BY <1>1, <1>3, <2>3, <2>4, <2>5 DEF Overlay!Under, Overlay!IsStrictPrefix
<1> QED BY <1>1, <1>2, <1>3

LEMMA UnderOrder ==
  ASSUME NEW p \in Words, NEW q \in Words, Overlay!Under(p, q)
  PROVE  /\ ~Overlay!Under(q, p) /\ p # q /\ p # Overlay!Root
         /\ \A r \in Words : Overlay!Under(q, r) => Overlay!Under(p, r)
<1>1. Len(p) \in Nat /\ Len(q) \in Nat /\ Len(q) < Len(p) /\ \A i \in 1 .. Len(q) : q[i] = p[i]
  BY UnderParts, PathIs
<1>2. ~Overlay!Under(q, p) /\ p # q /\ p # Overlay!Root
  BY <1>1, UnderParts, PathIs
<1>3. ASSUME NEW r \in Words, Overlay!Under(q, r)
      PROVE  Overlay!Under(p, r)
  <2>1. Len(r) < Len(q) /\ Len(r) \in Nat /\ \A i \in 1 .. Len(r) : r[i] = q[i]
    BY <1>3, UnderParts, PathIs
  <2>2. Len(r) < Len(p) /\ \A i \in 1 .. Len(r) : r[i] = p[i]
    BY <1>1, <2>1
  <2> QED BY <2>2, UnderParts
<1> QED BY <1>2, <1>3

\* Two paths above the same path: one is above the other.
LEMMA UnderLinear ==
  ASSUME NEW p \in Words, NEW q \in Words, NEW r \in Words, Overlay!Under(p, q), Overlay!Under(p, r)
  PROVE  q = r \/ Overlay!Under(q, r) \/ Overlay!Under(r, q)
<1>1. /\ Len(q) \in Nat /\ Len(r) \in Nat
      /\ \A i \in 1 .. Len(q) : q[i] = p[i]
      /\ \A i \in 1 .. Len(r) : r[i] = p[i]
  BY UnderParts, PathIs
<1>2. CASE Len(q) = Len(r)
  <2>1. \A i \in 1 .. Len(q) : q[i] = r[i]
    BY <1>1, <1>2
  <2> QED BY <1>2, <2>1, SameNames
<1>3. CASE Len(q) < Len(r)
  <2>1. \A i \in 1 .. Len(q) : q[i] = r[i]
    BY <1>1, <1>3
  <2> QED BY <1>3, <2>1, UnderParts
<1>4. CASE Len(r) < Len(q)
  <2>1. \A i \in 1 .. Len(r) : r[i] = q[i]
    BY <1>1, <1>4
  <2> QED BY <1>4, <2>1, UnderParts
<1> QED BY <1>1, <1>2, <1>3, <1>4

LEMMA ParentFacts ==
  ASSUME NEW p \in Words, p # Overlay!Root
  PROVE  /\ Overlay!Parent(p) \in Words /\ Overlay!Under(p, Overlay!Parent(p))
            /\ Overlay!Parent(p) # p
         /\ Len(p) = Len(Overlay!Parent(p)) + 1 /\ Overlay!Last(p) = p[Len(Overlay!Parent(p)) + 1]
         /\ Append(Overlay!Parent(p), Overlay!Last(p)) = p
         /\ \A q \in Words :
              Overlay!Under(p, q) => q = Overlay!Parent(p) \/ Overlay!Under(Overlay!Parent(p), q)
<1>1. Len(p) \in Nat \ {0} /\ \A i \in 1 .. Len(p) : p[i] \in Names
  BY PathIs
<1>2. Len(p) - 1 \in 0 .. Len(p)
  BY <1>1
<1>3. /\ Overlay!Parent(p) \in Words /\ Len(Overlay!Parent(p)) = Len(p) - 1
      /\ \A i \in 1 .. Len(p) - 1 : Overlay!Parent(p)[i] = p[i]
  BY <1>2, FirstNames DEF Overlay!Parent, Overlay!Front
<1>4. Overlay!Under(p, Overlay!Parent(p)) /\ Overlay!Parent(p) # p
  <2>1. Len(Overlay!Parent(p)) < Len(p)
        /\ \A i \in 1 .. Len(Overlay!Parent(p)) : Overlay!Parent(p)[i] = p[i]
    BY <1>1, <1>3
  <2> QED BY <1>3, <2>1, UnderParts
<1>5. Append(Overlay!Parent(p), Overlay!Last(p)) = p
  <2> DEFINE a == Append(Overlay!Parent(p), p[Len(p)])
  <2>1. p[Len(p)] \in Names
    BY <1>1
  <2>2. /\ a \in Words /\ Len(a) = Len(Overlay!Parent(p)) + 1
        /\ \A i \in 1 .. Len(Overlay!Parent(p)) : a[i] = Overlay!Parent(p)[i]
        /\ a[Len(Overlay!Parent(p)) + 1] = p[Len(p)]
    BY <1>3, <2>1, AppendProperties DEF Words
  <2>3. a = Append(Overlay!Parent(p), Overlay!Last(p))
    BY Zenon DEF Overlay!Last
  <2> HIDE DEF a
  <2>4. Len(a) = Len(p) /\ \A i \in 1 .. Len(a) : a[i] = p[i]
    BY <1>1, <1>3, <2>2
  <2>5. a = p
    BY <2>2, <2>4, SameNames
  <2> QED BY <2>3, <2>5
<1>6. ASSUME NEW q \in Words, Overlay!Under(p, q)
      PROVE  q = Overlay!Parent(p) \/ Overlay!Under(Overlay!Parent(p), q)
  <2>1. Len(q) < Len(p) /\ Len(q) \in Nat
    BY <1>6, UnderParts, PathIs
  <2>2. ~Overlay!Under(q, Overlay!Parent(p))
    BY <1>1, <1>3, <2>1, UnderParts
  <2> QED BY <1>3, <1>4, <1>6, <2>2, UnderLinear
<1>7. Len(p) = Len(Overlay!Parent(p)) + 1
  BY <1>1, <1>3
<1>8. Overlay!Last(p) = p[Len(Overlay!Parent(p)) + 1]
  BY <1>7, Zenon DEF Overlay!Last
<1> QED BY <1>3, <1>4, <1>5, <1>6, <1>7, <1>8


\* The paths that start with a name of a directory.
LEMMA StartsWith ==
  ASSUME NEW p \in Words, p # Overlay!Root, NEW r \in Words
  PROVE  Overlay!Under(r, Overlay!Parent(p)) /\ r[Len(Overlay!Parent(p)) + 1] = Overlay!Last(p)
         <=> r = p \/ Overlay!Under(r, p)
<1> DEFINE d == Overlay!Parent(p)
<1>1. /\ d \in Words /\ Len(p) = Len(d) + 1 /\ Overlay!Last(p) = p[Len(d) + 1]
      /\ Len(d) \in Nat /\ Len(r) \in Nat
      /\ \A i \in 1 .. Len(d) : d[i] = p[i]
  BY ParentFacts, UnderParts, PathIs
<1>2. SUFFICES Overlay!Under(r, d) /\ r[Len(d) + 1] = Overlay!Last(p) <=> r = p \/ Overlay!Under(r, p)
  OBVIOUS
<1> HIDE DEF d
<1>3. Overlay!Under(r, d) <=> Len(d) < Len(r) /\ \A i \in 1 .. Len(d) : r[i] = p[i]
  BY <1>1, UnderParts
<1>4. Overlay!Under(r, p) <=> Len(p) < Len(r) /\ \A i \in 1 .. Len(p) : r[i] = p[i]
  BY UnderParts
<1>5. r = p <=> Len(r) = Len(p) /\ (\A i \in 1 .. Len(p) : r[i] = p[i])
  BY SameNames
<1>6. (\A i \in 1 .. Len(p) : r[i] = p[i])
      <=> (\A i \in 1 .. Len(d) : r[i] = p[i]) /\ r[Len(d) + 1] = p[Len(d) + 1]
  BY <1>1
<1>7. Len(d) < Len(r) <=> Len(r) = Len(p) \/ Len(p) < Len(r)
  BY <1>1
<1> QED BY <1>1, <1>3, <1>4, <1>5, <1>6, <1>7

\* What is above a path that is named is named as well.
LEMMA PathsAreClosed ==
  ASSUME NEW p \in OverlayPaths, NEW q \in Words, Overlay!Under(p, q), q # Overlay!Root
  PROVE  q \in OverlayPaths
<1>1. /\ p \in Words /\ Len(q) < Len(p) /\ Len(q) \in Nat \ {0} /\ Len(p) \in Nat
      /\ \A i \in 1 .. Len(q) : q[i] = p[i]
  BY UnderParts, PathFacts, PathIs
<1>2. /\ SubSeq(p, 1, Len(q)) \in Words /\ Len(SubSeq(p, 1, Len(q))) = Len(q)
      /\ \A i \in 1 .. Len(q) : SubSeq(p, 1, Len(q))[i] = p[i]
  BY <1>1, FirstNames
<1>3. SubSeq(p, 1, Len(q)) = q
  BY <1>1, <1>2, SameNames
<1>4. Len(q) \in 1 .. Len(p)
  BY <1>1
<1> QED BY <1>3, <1>4, OverlayAssumption

-----------------------------------------------------------------------------
(* Lookups.                                                                *)

\* Something above hides what the archive has at p.
Above(fs, p) == \E q \in Words : Overlay!Under(p, q) /\ Overlay!Kind(fs, q) \in {"whiteout", "opaque"}

LEMMA KindIs ==
  ASSUME NEW fs, OverlayTyped(fs), NEW p \in Words
  PROVE  /\ Overlay!Kind(fs, p) \in Overlay!Kinds \cup {"none"}
         /\ Overlay!HasNode(fs, p) <=> Overlay!Kind(fs, p) # "none"
         /\ Overlay!HasNode(fs, p) => Overlay!Kind(fs, p) = fs.overlay[p].kind /\ p \in OverlayPaths
BY DEF OverlayTyped, NodeIsTyped, Overlay!Kind, Overlay!HasNode, Overlay!Kinds

\* What is above an entry of the archive is a directory of it.
LEMMA ArchiveUp ==
  ASSUME NEW p \in Words, NEW q \in Words, Overlay!Under(p, q), Overlay!InArchive(p)
  PROVE  Overlay!ArchiveHasDirectory(q)
<1>1. p # Overlay!Root /\ ArchiveFiles \subseteq Words /\ ArchiveDirectories \subseteq Words
  BY UnderOrder, PathFacts
<1>2. CASE p \in ArchiveFiles \cup ArchiveDirectories
  BY <1>2 DEF Overlay!ArchiveHasDirectory
<1>3. CASE \E r \in ArchiveFiles \cup ArchiveDirectories : Overlay!Under(r, p)
  <2>1. PICK r \in ArchiveFiles \cup ArchiveDirectories : Overlay!Under(r, p)
    BY <1>3
  <2>2. Overlay!Under(r, q)
    BY <1>1, <2>1, UnderOrder
  <2> QED BY <2>2 DEF Overlay!ArchiveHasDirectory
<1> QED BY <1>1, <1>2, <1>3 DEF Overlay!InArchive, Overlay!ArchiveHasDirectory

\* Nodes are made in directories: above a node is a node or the archive.
LEMMA NodeAbove ==
  ASSUME NEW fs, OverlayTyped(fs), Rooted(fs), NEW p \in Words, ~Overlay!HasNode(fs, p),
         NEW q \in DOMAIN fs.overlay, Overlay!Under(q, p)
  PROVE  Overlay!ArchiveHasDirectory(p)
<1> DEFINE Below == {r \in DOMAIN fs.overlay : Overlay!Under(r, p)}
           Lengths == {Len(r) : r \in Below}
<1>1. DOMAIN fs.overlay \subseteq Words /\ Overlay!Root \notin DOMAIN fs.overlay
  BY PathFacts DEF OverlayTyped
<1>2. Lengths \subseteq Nat /\ Lengths # {}
  BY <1>1, PathIs
<1>3. PICK m \in Lengths : \A x \in Lengths : m <= x
  BY <1>2, LeastOf
<1>4. PICK r \in Below : m = Len(r)
  BY <1>3
<1>5. r \in Words /\ r # Overlay!Root /\ Overlay!Under(r, p) /\ r \in DOMAIN fs.overlay
  BY <1>1, <1>4
<1>6. /\ Overlay!Parent(r) \in Words /\ Len(r) = Len(Overlay!Parent(r)) + 1
         /\ Len(Overlay!Parent(r)) \in Nat
      /\ p = Overlay!Parent(r) \/ Overlay!Under(Overlay!Parent(r), p)
  BY <1>5, ParentFacts, PathIs
<1>7. Overlay!Parent(r) \in DOMAIN fs.overlay \/ Overlay!ArchiveHasDirectory(Overlay!Parent(r))
  BY <1>5 DEF Rooted
<1>8. CASE p = Overlay!Parent(r)
  BY <1>7, <1>8 DEF Overlay!HasNode
<1>9. CASE Overlay!Under(Overlay!Parent(r), p)
  <2>1. ~(m <= Len(Overlay!Parent(r)))
    BY <1>4, <1>6
  <2>2. Overlay!Parent(r) \notin DOMAIN fs.overlay
    BY <1>3, <1>9, <2>1
  <2> QED BY <1>6, <1>7, <1>9, <2>2, ArchiveUp DEF Overlay!InArchive
<1> QED BY <1>6, <1>8, <1>9

\* What the three questions answer, by the node of a path and what is above.
LookedUp(fs, p) ==
  /\ Overlay!Kind(fs, p) = "file" =>
       Overlay!Read(fs, p) = {Overlay!InPool(fs, fs.overlay[p])} /\ Overlay!IsFile(fs, p)
       /\ ~Overlay!IsDirectory(fs, p)
  /\ Overlay!Kind(fs, p) \in {"directory", "opaque"} =>
       Overlay!Read(fs, p) = {} /\ ~Overlay!IsFile(fs, p) /\ Overlay!IsDirectory(fs, p)
  /\ Overlay!Kind(fs, p) = "whiteout" \/ (Overlay!Kind(fs, p) = "none" /\ Above(fs, p)) =>
       Overlay!Read(fs, p) = {} /\ ~Overlay!IsFile(fs, p) /\ ~Overlay!IsDirectory(fs, p)
  /\ Overlay!Kind(fs, p) = "none" /\ ~Above(fs, p) =>
       /\ Overlay!Read(fs, p) = Overlay!ArchiveFind(p)
       /\ Overlay!IsFile(fs, p) <=> p \in ArchiveFiles
       /\ Overlay!IsDirectory(fs, p) <=> Overlay!ArchiveHasDirectory(p)

LEMMA HiddenIs ==
  ASSUME NEW fs, OverlayTyped(fs), NEW p \in Words
  PROVE  Overlay!Hidden(fs, p)
         <=> Overlay!Kind(fs, p) = "whiteout" \/ (Overlay!Kind(fs, p) = "none" /\ Above(fs, p))
<1>1. \A q \in Words : Overlay!Kind(fs, q) \in {"whiteout", "opaque"} => q \in DOMAIN fs.overlay
  BY DEF Overlay!Kind, Overlay!HasNode
<1>2. DOMAIN fs.overlay \subseteq Words
  BY PathFacts DEF OverlayTyped
<1>3. Above(fs, p) <=> \E q \in DOMAIN fs.overlay :
                         Overlay!Under(p, q) /\ Overlay!Kind(fs, q) \in {"whiteout", "opaque"}
  BY <1>1, <1>2 DEF Above
<1> QED BY <1>3, KindIs DEF Overlay!Hidden

LEMMA Lookup ==
  ASSUME NEW fs, OverlayTyped(fs), Rooted(fs), NEW p \in Words
  PROVE  LookedUp(fs, p)
<1>1. /\ Overlay!Kind(fs, p) \in Overlay!Kinds \cup {"none"}
      /\ Overlay!HasNode(fs, p) <=> Overlay!Kind(fs, p) # "none"
  BY KindIs
<1>2. Overlay!Hidden(fs, p)
      <=> Overlay!Kind(fs, p) = "whiteout" \/ (Overlay!Kind(fs, p) = "none" /\ Above(fs, p))
  BY HiddenIs
<1>3. CASE Overlay!Kind(fs, p) = "file"
  <2>1. ~Overlay!Hidden(fs, p)
    BY <1>2, <1>3
  <2>2. Overlay!Read(fs, p) = {Overlay!InPool(fs, fs.overlay[p])}
    BY <1>3, <2>1 DEF Overlay!Read
  <2> QED BY <1>1, <1>3, <2>2 DEF LookedUp, Overlay!IsFile, Overlay!IsDirectory
<1>4. CASE Overlay!Kind(fs, p) \in {"directory", "opaque"}
  <2>1. ~Overlay!Hidden(fs, p)
    BY <1>2, <1>4
  <2>2. Overlay!Read(fs, p) = {}
    BY <1>4, <2>1 DEF Overlay!Read
  <2> QED BY <1>1, <1>4, <2>2 DEF LookedUp, Overlay!IsFile, Overlay!IsDirectory
<1>5. CASE Overlay!Kind(fs, p) = "whiteout" \/ (Overlay!Kind(fs, p) = "none" /\ Above(fs, p))
  <2>1. Overlay!Hidden(fs, p)
    BY <1>2, <1>5
  <2>2. Overlay!Read(fs, p) = {}
    BY <1>1, <1>5, <2>1 DEF Overlay!Read, Overlay!Kinds
  <2> QED BY <1>1, <1>5, <2>1, <2>2 DEF LookedUp, Overlay!IsFile, Overlay!IsDirectory
<1>6. CASE Overlay!Kind(fs, p) = "none" /\ ~Above(fs, p)
  <2>1. ~Overlay!Hidden(fs, p)
    BY <1>2, <1>6
  <2>2. Overlay!Read(fs, p) = Overlay!ArchiveFind(p)
    BY <1>6, <2>1 DEF Overlay!Read
  <2>3. Overlay!IsFile(fs, p) <=> p \in ArchiveFiles
    BY <2>2 DEF Overlay!IsFile, Overlay!ArchiveFind
  <2>4. (\E q \in DOMAIN fs.overlay : Overlay!Kind(fs, q) # "whiteout" /\ Overlay!Under(q, p))
          => Overlay!ArchiveHasDirectory(p)
    BY <1>1, <1>6, NodeAbove
  <2>5. Overlay!IsDirectory(fs, p) <=> Overlay!ArchiveHasDirectory(p)
    BY <1>1, <1>6, <2>1, <2>4 DEF Overlay!IsDirectory
  <2> QED BY <1>6, <2>2, <2>3, <2>5 DEF LookedUp
<1> QED BY <1>1, <1>3, <1>4, <1>5, <1>6 DEF Overlay!Kinds

\* A path that a call has nothing to do with is found as before.
SameAnswers(fs, gs, q) ==
  /\ Overlay!Read(gs, q) = Overlay!Read(fs, q)
  /\ Overlay!IsFile(gs, q) <=> Overlay!IsFile(fs, q)
  /\ Overlay!IsDirectory(gs, q) <=> Overlay!IsDirectory(fs, q)

SameNode(fs, gs, q) ==
  /\ Overlay!Kind(gs, q) = Overlay!Kind(fs, q)
  /\ Overlay!Kind(fs, q) = "file"
     => Overlay!InPool(gs, gs.overlay[q]) = Overlay!InPool(fs, fs.overlay[q])

LEMMA Unmoved ==
  ASSUME NEW fs, OverlayTyped(fs), Rooted(fs), NEW gs, OverlayTyped(gs), Rooted(gs),
         NEW q \in Words, SameNode(fs, gs, q),
         Overlay!Kind(fs, q) = "none" => (Above(gs, q) <=> Above(fs, q)) \/ ~Overlay!InArchive(q)
  PROVE  SameAnswers(fs, gs, q)
<1>1. LookedUp(fs, q) /\ LookedUp(gs, q)
  BY Lookup
<1>2. Overlay!Kind(fs, q) \in Overlay!Kinds \cup {"none"}
  BY KindIs
<1>3. ~Overlay!InArchive(q)
      => q \notin ArchiveFiles /\ ~Overlay!ArchiveHasDirectory(q) /\ Overlay!ArchiveFind(q) = {}
  BY DEF Overlay!InArchive, Overlay!ArchiveFind
<1>4. CASE Overlay!Kind(fs, q) = "file"
  BY <1>1, <1>4 DEF LookedUp, SameNode, SameAnswers
<1>5. CASE Overlay!Kind(fs, q) \in {"directory", "opaque"}
  BY <1>1, <1>5 DEF LookedUp, SameNode, SameAnswers
<1>6. CASE Overlay!Kind(fs, q) = "whiteout"
  BY <1>1, <1>6 DEF LookedUp, SameNode, SameAnswers
<1>7. CASE Overlay!Kind(fs, q) = "none"
  <2>1. CASE Above(gs, q) <=> Above(fs, q)
    BY <1>1, <1>7, <2>1 DEF LookedUp, SameNode, SameAnswers
  <2>2. CASE ~Overlay!InArchive(q)
    BY <1>1, <1>3, <1>7, <2>2 DEF LookedUp, SameNode, SameAnswers
  <2> QED BY <1>7, <2>1, <2>2
<1> QED BY <1>2, <1>4, <1>5, <1>6, <1>7 DEF Overlay!Kinds

LEMMA RootedIs ==
  ASSUME NEW fs, OverlayTyped(fs)
  PROVE  Rooted(fs) <=> \A q \in Words : Overlay!Kind(fs, q) # "none" =>
                          Overlay!Kind(fs, Overlay!Parent(q)) # "none"
                          \/ Overlay!ArchiveHasDirectory(Overlay!Parent(q))
<1>1. DOMAIN fs.overlay \subseteq Words /\ Overlay!Root \notin DOMAIN fs.overlay
  BY PathFacts DEF OverlayTyped
<1>2. \A q \in Words : q \in DOMAIN fs.overlay <=> Overlay!Kind(fs, q) # "none"
  BY KindIs DEF Overlay!HasNode
<1>3. \A q \in DOMAIN fs.overlay : Overlay!Parent(q) \in Words
  BY <1>1, ParentFacts
<1> QED BY <1>1, <1>2, <1>3 DEF Rooted

\* Of all paths only p got another node.
Replaced(fs, gs, p) == \A q \in Words : q # p => SameNode(fs, gs, q)

\* A file where there was a file, or no directory but one around it.
LEMMA FilePlaced ==
  ASSUME NEW fs, OverlayTyped(fs), Rooted(fs), NEW gs, OverlayTyped(gs),
         NEW p \in OverlayPaths, Replaced(fs, gs, p), Overlay!Kind(gs, p) = "file",
         ~Overlay!IsDirectory(fs, p),
         Overlay!IsFile(fs, p) \/ Overlay!IsDirectory(fs, Overlay!Parent(p)),
         NEW os, StrayAreKnown(fs, os), NEW more, os \subseteq more,
         Overlay!Kind(fs, p) = "whiteout" => Overlay!Uncovered(gs, p) \subseteq more
  PROVE  /\ Rooted(gs)
         /\ StrayAreKnown(gs, more)
         /\ \A q \in OverlayPaths \ more : q # p => Overlay!Read(gs, q) = Overlay!Read(fs, q)
<1>1. p \in Words /\ p # Overlay!Root
  BY PathFacts
<1>2. Overlay!Parent(p) \in Words /\ Overlay!Under(p, Overlay!Parent(p)) /\ Overlay!Parent(p) # p
  BY <1>1, ParentFacts
<1>3. \A q \in Words : q # p => Overlay!Kind(gs, q) = Overlay!Kind(fs, q)
  BY DEF Replaced, SameNode
<1>4. LookedUp(fs, p) /\ Overlay!Kind(fs, p) \in {"none", "whiteout", "file"}
  BY <1>1, Lookup, KindIs DEF LookedUp, Overlay!Kinds
<1>5. \A q \in Words : Above(gs, q) => Above(fs, q)
  BY <1>1, <1>3 DEF Above
<1>6. \A q \in Words : Above(fs, q)
      => Above(gs, q) \/ (Overlay!Under(q, p) /\ Overlay!Kind(fs, p) = "whiteout")
  BY <1>1, <1>3, <1>4 DEF Above
<1>7. Rooted(gs)
  <2>1. Overlay!Kind(gs, Overlay!Parent(p)) # "none" \/ Overlay!ArchiveHasDirectory(Overlay!Parent(p))
    <3>1. CASE Overlay!Kind(fs, p) # "none"
      BY <1>1, <1>2, <1>3, <3>1, RootedIs
    <3>2. CASE Overlay!IsDirectory(fs, Overlay!Parent(p))
      <4>1. LookedUp(fs, Overlay!Parent(p))
        BY <1>2, Lookup
      <4>2. Overlay!Kind(fs, Overlay!Parent(p)) # "none"
            \/ Overlay!ArchiveHasDirectory(Overlay!Parent(p))
        BY <3>2, <4>1 DEF LookedUp
      <4> QED BY <1>2, <1>3, <4>2
    <3>3. CASE Overlay!Kind(fs, p) = "none" /\ Overlay!IsFile(fs, p)
      <4>1. p \in ArchiveFiles
        BY <1>4, <3>3 DEF LookedUp
      <4> QED BY <1>1, <1>2, <4>1, ArchiveUp DEF Overlay!InArchive
    <3> QED BY <3>1, <3>2, <3>3
  <2>2. ASSUME NEW q \in Words, Overlay!Kind(gs, q) # "none", q # p
        PROVE  Overlay!Kind(gs, Overlay!Parent(q)) # "none"
               \/ Overlay!ArchiveHasDirectory(Overlay!Parent(q))
    <3>1. Overlay!Kind(fs, q) # "none" /\ q # Overlay!Root
      BY <1>3, <2>2, KindIs, PathFacts
    <3>2. Overlay!Kind(fs, Overlay!Parent(q)) # "none"
          \/ Overlay!ArchiveHasDirectory(Overlay!Parent(q))
      BY <3>1, RootedIs
    <3>3. Overlay!Parent(q) \in Words
      BY <3>1, ParentFacts
    <3> QED BY <1>3, <3>2, <3>3
  <2> QED BY <2>1, <2>2, RootedIs
<1>8. ASSUME NEW q \in Words, q # p
      PROVE  SameAnswers(fs, gs, q) \/ (q \in OverlayPaths => q \in more)
  <2>1. SameNode(fs, gs, q)
    BY <1>8 DEF Replaced
  <2>2. CASE (Above(gs, q) <=> Above(fs, q)) \/ ~Overlay!InArchive(q)
    BY <1>7, <2>1, <2>2, Unmoved
  <2>3. CASE Overlay!Under(q, p) /\ Overlay!InArchive(q) /\ Overlay!Kind(fs, p) = "whiteout"
    <3>1. Overlay!ArchiveHasDirectory(p)
      BY <1>1, <2>3, ArchiveUp
    <3> QED BY <2>3, <3>1 DEF Overlay!Uncovered
  <2> QED BY <1>5, <1>6, <2>2, <2>3
<1>9. ASSUME NEW q \in Words, Overlay!IsDirectory(fs, q)
      PROVE  Overlay!IsDirectory(gs, q)
  <2>1. q # p
    BY <1>9
  <2>2. LookedUp(fs, q) /\ LookedUp(gs, q) /\ Overlay!Kind(fs, q) \in Overlay!Kinds \cup {"none"}
    BY <1>7, Lookup, KindIs
  <2>3. Overlay!Kind(fs, q) \in {"directory", "opaque"}
        \/ (Overlay!Kind(fs, q) = "none" /\ ~Above(fs, q))
    BY <1>9, <2>2 DEF LookedUp, Overlay!Kinds
  <2>4. CASE Overlay!Kind(fs, q) \in {"directory", "opaque"}
    BY <1>3, <2>1, <2>2, <2>4 DEF LookedUp
  <2>5. CASE Overlay!Kind(fs, q) = "none" /\ ~Above(fs, q)
    <3>1. Overlay!Kind(gs, q) = "none" /\ ~Above(gs, q) /\ Overlay!ArchiveHasDirectory(q)
      BY <1>3, <1>5, <1>9, <2>1, <2>2, <2>5 DEF LookedUp
    <3> QED BY <2>2, <3>1 DEF LookedUp
  <2> QED BY <2>3, <2>4, <2>5
<1>10. ASSUME NEW q \in OverlayPaths, Exists(gs, q), ~Overlay!IsDirectory(gs, Overlay!Parent(q))
       PROVE  q \in more
  <2>1. q \in Words /\ Overlay!Parent(q) \in Words
    BY PathFacts, ParentFacts
  <2>2. ~Overlay!IsDirectory(fs, Overlay!Parent(q))
    BY <1>9, <1>10, <2>1
  <2>3. CASE q = p
    BY <2>2, <2>3 DEF StrayAreKnown, Exists
  <2>4. CASE q # p
    <3>1. Exists(fs, q) \/ q \in more
      BY <1>8, <1>10, <2>1, <2>4 DEF SameAnswers, Exists
    <3> QED BY <2>2, <3>1 DEF StrayAreKnown
  <2> QED BY <2>3, <2>4
<1>11. StrayAreKnown(gs, more)
  BY <1>10 DEF StrayAreKnown
<1>12. \A q \in OverlayPaths \ more : q # p => Overlay!Read(gs, q) = Overlay!Read(fs, q)
  BY <1>8, PathFacts DEF SameAnswers
<1> QED BY <1>7, <1>11, <1>12

\* A directory where nothing was, opaque over a directory of the archive.
LEMMA DirectoryPlaced ==
  ASSUME NEW fs, OverlayTyped(fs), Rooted(fs), NEW gs, OverlayTyped(gs),
         NEW p \in OverlayPaths, Replaced(fs, gs, p),
         Overlay!Kind(gs, p) = IF Overlay!ArchiveHasDirectory(p) THEN "opaque" ELSE "directory",
         ~Exists(fs, p), Overlay!IsDirectory(fs, Overlay!Parent(p)),
         NEW os, StrayAreKnown(fs, os)
  PROVE  /\ Rooted(gs)
         /\ StrayAreKnown(gs, os)
         /\ \A q \in OverlayPaths : Overlay!Read(gs, q) = Overlay!Read(fs, q)
<1>1. p \in Words /\ p # Overlay!Root
  BY PathFacts
<1>2. Overlay!Parent(p) \in Words /\ Overlay!Under(p, Overlay!Parent(p)) /\ Overlay!Parent(p) # p
  BY <1>1, ParentFacts
<1>3. \A q \in Words : q # p => Overlay!Kind(gs, q) = Overlay!Kind(fs, q)
  BY DEF Replaced, SameNode
<1>4. LookedUp(fs, p) /\ Overlay!Kind(fs, p) \in {"none", "whiteout"}
  BY <1>1, Lookup, KindIs DEF LookedUp, Overlay!Kinds, Exists
<1>5. Overlay!ArchiveHasDirectory(p) => Overlay!Kind(fs, p) = "whiteout" \/ Above(fs, p)
  BY <1>4 DEF LookedUp, Exists
<1>6. \A q \in Words : Above(gs, q) => Above(fs, q)
  <2>1. SUFFICES ASSUME NEW q \in Words, NEW r \in Words,
                        Overlay!Under(q, r), Overlay!Kind(gs, r) \in {"whiteout", "opaque"}
                 PROVE  Above(fs, q)
    BY DEF Above
  <2>2. CASE r # p
    BY <1>3, <2>1, <2>2 DEF Above
  <2>3. CASE r = p /\ Overlay!Kind(fs, p) = "whiteout"
    BY <1>1, <2>1, <2>3 DEF Above
  <2>4. CASE r = p /\ Overlay!Kind(fs, p) # "whiteout"
    <3>1. Overlay!ArchiveHasDirectory(p)
      BY <2>1, <2>4
    <3>2. PICK t \in Words : Overlay!Under(p, t) /\ Overlay!Kind(fs, t) \in {"whiteout", "opaque"}
      BY <1>5, <2>4, <3>1 DEF Above
    <3>3. Overlay!Under(q, t)
      BY <1>1, <2>1, <2>4, <3>2, UnderOrder
    <3> QED BY <3>2, <3>3 DEF Above
  <2> QED BY <2>2, <2>3, <2>4
<1>7. \A q \in Words : Above(fs, q) => Above(gs, q) \/ ~Overlay!InArchive(q)
  <2>1. SUFFICES ASSUME NEW q \in Words, NEW r \in Words, Overlay!InArchive(q),
                        Overlay!Under(q, r), Overlay!Kind(fs, r) \in {"whiteout", "opaque"}
                 PROVE  Above(gs, q)
    BY DEF Above
  <2>2. CASE r # p
    BY <1>3, <2>1, <2>2 DEF Above
  <2>3. CASE r = p
    <3>1. Overlay!ArchiveHasDirectory(p)
      BY <1>1, <2>1, <2>3, ArchiveUp
    <3> QED BY <1>1, <2>1, <2>3, <3>1 DEF Above
  <2> QED BY <2>2, <2>3
<1>8. Rooted(gs)
  <2>1. LookedUp(fs, Overlay!Parent(p))
    BY <1>2, Lookup
  <2>2. Overlay!Kind(fs, Overlay!Parent(p)) # "none" \/ Overlay!ArchiveHasDirectory(Overlay!Parent(p))
    BY <2>1 DEF LookedUp
  <2>3. Overlay!Kind(gs, Overlay!Parent(p)) # "none" \/ Overlay!ArchiveHasDirectory(Overlay!Parent(p))
    BY <1>2, <1>3, <2>2
  <2>4. ASSUME NEW q \in Words, Overlay!Kind(gs, q) # "none", q # p
        PROVE  Overlay!Kind(gs, Overlay!Parent(q)) # "none"
               \/ Overlay!ArchiveHasDirectory(Overlay!Parent(q))
    <3>1. Overlay!Kind(fs, q) # "none" /\ q # Overlay!Root
      BY <1>3, <2>4, KindIs, PathFacts
    <3>2. Overlay!Kind(fs, Overlay!Parent(q)) # "none"
          \/ Overlay!ArchiveHasDirectory(Overlay!Parent(q))
      BY <3>1, RootedIs
    <3>3. Overlay!Parent(q) \in Words
      BY <3>1, ParentFacts
    <3>4. Overlay!Kind(gs, p) # "none"
      OBVIOUS
    <3> QED BY <1>3, <3>2, <3>3, <3>4
  <2> QED BY <2>3, <2>4, RootedIs
<1>9. ASSUME NEW q \in Words, q # p
      PROVE  SameAnswers(fs, gs, q)
  <2>1. SameNode(fs, gs, q)
    BY <1>9 DEF Replaced
  <2>2. (Above(gs, q) <=> Above(fs, q)) \/ ~Overlay!InArchive(q)
    BY <1>6, <1>7
  <2> QED BY <1>8, <2>1, <2>2, Unmoved
<1>10. Overlay!Read(gs, p) = {} /\ Overlay!IsDirectory(gs, p) /\ Overlay!Read(fs, p) = {}
  <2>1. LookedUp(gs, p) /\ Overlay!Kind(gs, p) \in {"directory", "opaque"}
    BY <1>1, <1>8, Lookup
  <2>2. ~Overlay!IsFile(fs, p)
    BY DEF Exists
  <2> QED BY <2>1, <2>2 DEF LookedUp, Overlay!IsFile
<1>11. ASSUME NEW q \in OverlayPaths, Exists(gs, q), ~Overlay!IsDirectory(gs, Overlay!Parent(q))
       PROVE  q \in os
  <2>1. q \in Words /\ Overlay!Parent(q) \in Words
    BY PathFacts, ParentFacts
  <2>2. Overlay!Parent(q) # p
    BY <1>10, <1>11
  <2>3. ~Overlay!IsDirectory(fs, Overlay!Parent(q))
    BY <1>9, <1>11, <2>1, <2>2 DEF SameAnswers
  <2>4. q # p
    BY <2>3
  <2>5. Exists(fs, q)
    BY <1>9, <1>11, <2>1, <2>4 DEF SameAnswers, Exists
  <2> QED BY <2>3, <2>5 DEF StrayAreKnown
<1>12. StrayAreKnown(gs, os)
  BY <1>11 DEF StrayAreKnown
<1>13. \A q \in OverlayPaths : Overlay!Read(gs, q) = Overlay!Read(fs, q)
  BY <1>9, <1>10, PathFacts DEF SameAnswers
<1> QED BY <1>8, <1>12, <1>13

\* A whiteout in the place of what was there.
LEMMA WhiteoutPlaced ==
  ASSUME NEW fs, OverlayTyped(fs), Rooted(fs), NEW gs, OverlayTyped(gs),
         NEW p \in OverlayPaths, Replaced(fs, gs, p), Overlay!Kind(gs, p) = "whiteout",
         Overlay!InArchive(p),
         NEW os, StrayAreKnown(fs, os), NEW more,
         more = (os \ {p})
                  \cup {q \in DOMAIN fs.overlay :
                          Overlay!Under(q, p) /\ Overlay!Kind(fs, q) # "whiteout"}
  PROVE  /\ Rooted(gs)
         /\ StrayAreKnown(gs, more)
         /\ \A q \in OverlayPaths \ more :
              /\ q = p \/ Overlay!Under(q, p) => Overlay!Read(gs, q) = {}
              /\ q # p /\ ~Overlay!Under(q, p) => Overlay!Read(gs, q) = Overlay!Read(fs, q)
<1>1. p \in Words /\ p # Overlay!Root
  BY PathFacts
<1>2. Overlay!Parent(p) \in Words /\ Overlay!Under(p, Overlay!Parent(p)) /\ Overlay!Parent(p) # p
  BY <1>1, ParentFacts
<1>3. \A q \in Words : q # p => Overlay!Kind(gs, q) = Overlay!Kind(fs, q)
  BY DEF Replaced, SameNode
<1>4. \A q \in Words : Above(gs, q) <=> Above(fs, q) \/ Overlay!Under(q, p)
  BY <1>1, <1>3 DEF Above
<1>5. Rooted(gs)
  <2>1. Overlay!ArchiveHasDirectory(Overlay!Parent(p))
    BY <1>1, <1>2, ArchiveUp
  <2>2. ASSUME NEW q \in Words, Overlay!Kind(gs, q) # "none", q # p
        PROVE  Overlay!Kind(gs, Overlay!Parent(q)) # "none"
               \/ Overlay!ArchiveHasDirectory(Overlay!Parent(q))
    <3>1. Overlay!Kind(fs, q) # "none" /\ q # Overlay!Root
      BY <1>3, <2>2, KindIs, PathFacts
    <3>2. Overlay!Kind(fs, Overlay!Parent(q)) # "none"
          \/ Overlay!ArchiveHasDirectory(Overlay!Parent(q))
      BY <3>1, RootedIs
    <3>3. Overlay!Parent(q) \in Words
      BY <3>1, ParentFacts
    <3> QED BY <1>3, <3>2, <3>3
  <2> QED BY <2>1, <2>2, RootedIs
<1>6. ASSUME NEW q \in Words, q # p, ~Overlay!Under(q, p)
      PROVE  SameAnswers(fs, gs, q)
  <2>1. SameNode(fs, gs, q) /\ (Above(gs, q) <=> Above(fs, q))
    BY <1>4, <1>6 DEF Replaced
  <2> QED BY <1>5, <2>1, Unmoved
<1>7. ASSUME NEW q \in Words, q = p \/ Overlay!Under(q, p), q \notin more
      PROVE  Overlay!Read(gs, q) = {} /\ ~Exists(gs, q)
  <2>1. LookedUp(gs, q) /\ Overlay!Kind(gs, q) \in Overlay!Kinds \cup {"none"}
    BY <1>5, Lookup, KindIs
  <2>2. CASE q = p
    BY <2>1, <2>2 DEF LookedUp, Exists
  <2>3. CASE Overlay!Under(q, p)
    <3>1. q # p /\ Above(gs, q)
      BY <1>1, <1>4, <2>3, UnderOrder
    <3>2. Overlay!Kind(gs, q) \in {"whiteout", "none"}
      BY <1>3, <1>7, <2>3, <3>1, KindIs DEF Overlay!HasNode
    <3> QED BY <2>1, <3>1, <3>2 DEF LookedUp, Exists
  <2> QED BY <1>7, <2>2, <2>3
<1>8. ASSUME NEW q \in OverlayPaths, Exists(gs, q), ~Overlay!IsDirectory(gs, Overlay!Parent(q))
      PROVE  q \in more
  <2>1. q \in Words /\ q # Overlay!Root
    BY PathFacts
  <2>2. Overlay!Parent(q) \in Words /\ Overlay!Under(q, Overlay!Parent(q))
    BY <2>1, ParentFacts
  <2>3. CASE q = p \/ Overlay!Under(q, p)
    BY <1>7, <1>8, <2>1, <2>3
  <2>4. CASE q # p /\ ~Overlay!Under(q, p)
    <3>1. Overlay!Parent(q) # p /\ ~Overlay!Under(Overlay!Parent(q), p)
      BY <1>1, <2>1, <2>2, <2>4, UnderOrder
    <3>2. Exists(fs, q) /\ ~Overlay!IsDirectory(fs, Overlay!Parent(q))
      BY <1>6, <1>8, <2>1, <2>2, <2>4, <3>1 DEF SameAnswers, Exists
    <3> QED BY <2>4, <3>2 DEF StrayAreKnown
  <2> QED BY <2>3, <2>4
<1>9. StrayAreKnown(gs, more)
  BY <1>8 DEF StrayAreKnown
<1>10. \A q \in OverlayPaths \ more :
         /\ q = p \/ Overlay!Under(q, p) => Overlay!Read(gs, q) = {}
         /\ q # p /\ ~Overlay!Under(q, p) => Overlay!Read(gs, q) = Overlay!Read(fs, q)
  BY <1>6, <1>7, PathFacts DEF SameAnswers
<1> QED BY <1>5, <1>9, <1>10

\* The nodes of p and below it are gone, and the archive has none of them.
LEMMA ClearedIs ==
  ASSUME NEW fs, OverlayTyped(fs), Rooted(fs), NEW gs, OverlayTyped(gs),
         NEW p \in OverlayPaths, ~Overlay!InArchive(p),
         \A q \in Words : IF q = p \/ Overlay!Under(q, p)
                          THEN Overlay!Kind(gs, q) = "none"
                          ELSE SameNode(fs, gs, q),
         NEW os, StrayAreKnown(fs, os)
  PROVE  /\ Rooted(gs)
         /\ StrayAreKnown(gs, {q \in os : q # p /\ ~Overlay!Under(q, p)})
         /\ \A q \in OverlayPaths :
              /\ q = p \/ Overlay!Under(q, p) => Overlay!Read(gs, q) = {}
              /\ q # p /\ ~Overlay!Under(q, p) => Overlay!Read(gs, q) = Overlay!Read(fs, q)
<1>1. p \in Words /\ p # Overlay!Root
  BY PathFacts
<1>2. \A q \in Words : IF q = p \/ Overlay!Under(q, p) THEN Overlay!Kind(gs, q) = "none"
                      ELSE Overlay!Kind(gs, q) = Overlay!Kind(fs, q)
  BY DEF SameNode
<1>3. ASSUME NEW q \in Words, q # p, ~Overlay!Under(q, p), NEW r \in Words, Overlay!Under(q, r)
      PROVE  Overlay!Kind(gs, r) = Overlay!Kind(fs, r)
  <2>1. r # p /\ ~Overlay!Under(r, p)
    BY <1>1, <1>3, UnderOrder
  <2> QED BY <1>2, <2>1
<1>4. \A q \in Words : q # p /\ ~Overlay!Under(q, p) => (Above(gs, q) <=> Above(fs, q))
  BY <1>3 DEF Above
<1>5. Rooted(gs)
  <2>1. ASSUME NEW q \in Words, Overlay!Kind(gs, q) # "none"
        PROVE  Overlay!Kind(gs, Overlay!Parent(q)) # "none"
               \/ Overlay!ArchiveHasDirectory(Overlay!Parent(q))
    <3>1. q # p /\ ~Overlay!Under(q, p) /\ Overlay!Kind(fs, q) # "none" /\ q # Overlay!Root
      BY <1>2, <2>1, KindIs, PathFacts
    <3>2. Overlay!Kind(fs, Overlay!Parent(q)) # "none"
          \/ Overlay!ArchiveHasDirectory(Overlay!Parent(q))
      BY <3>1, RootedIs
    <3>3. Overlay!Parent(q) \in Words /\ Overlay!Under(q, Overlay!Parent(q))
      BY <3>1, ParentFacts
    <3> QED BY <1>3, <3>1, <3>2, <3>3
  <2> QED BY <2>1, RootedIs
<1>6. ASSUME NEW q \in Words, q # p, ~Overlay!Under(q, p)
      PROVE  SameAnswers(fs, gs, q)
  <2>1. SameNode(fs, gs, q) /\ (Above(gs, q) <=> Above(fs, q))
    BY <1>4, <1>6
  <2> QED BY <1>5, <2>1, Unmoved
<1>7. ASSUME NEW q \in Words, q = p \/ Overlay!Under(q, p)
      PROVE  Overlay!Read(gs, q) = {} /\ ~Exists(gs, q)
  <2>1. LookedUp(gs, q) /\ Overlay!Kind(gs, q) = "none"
    BY <1>2, <1>5, <1>7, Lookup
  <2>2. ~Overlay!InArchive(q)
    BY <1>1, <1>7, ArchiveUp DEF Overlay!InArchive
  <2>3. q \notin ArchiveFiles /\ ~Overlay!ArchiveHasDirectory(q) /\ Overlay!ArchiveFind(q) = {}
    BY <2>2 DEF Overlay!InArchive, Overlay!ArchiveFind
  <2> QED BY <2>1, <2>3 DEF LookedUp, Exists
<1>8. ASSUME NEW q \in OverlayPaths, Exists(gs, q), ~Overlay!IsDirectory(gs, Overlay!Parent(q))
      PROVE  q \in os /\ q # p /\ ~Overlay!Under(q, p)
  <2>1. q \in Words /\ q # Overlay!Root
    BY PathFacts
  <2>2. Overlay!Parent(q) \in Words /\ Overlay!Under(q, Overlay!Parent(q))
    BY <2>1, ParentFacts
  <2>3. q # p /\ ~Overlay!Under(q, p)
    BY <1>7, <1>8, <2>1
  <2>4. Overlay!Parent(q) # p /\ ~Overlay!Under(Overlay!Parent(q), p)
    BY <1>1, <2>1, <2>2, <2>3, UnderOrder
  <2>5. Exists(fs, q) /\ ~Overlay!IsDirectory(fs, Overlay!Parent(q))
    BY <1>6, <1>8, <2>1, <2>2, <2>3, <2>4 DEF SameAnswers, Exists
  <2> QED BY <2>3, <2>5 DEF StrayAreKnown
<1>9. StrayAreKnown(gs, {q \in os : q # p /\ ~Overlay!Under(q, p)})
  BY <1>8 DEF StrayAreKnown
<1>10. \A q \in OverlayPaths :
         /\ q = p \/ Overlay!Under(q, p) => Overlay!Read(gs, q) = {}
         /\ q # p /\ ~Overlay!Under(q, p) => Overlay!Read(gs, q) = Overlay!Read(fs, q)
  BY <1>6, <1>7, PathFacts DEF SameAnswers
<1> QED BY <1>5, <1>9, <1>10

-----------------------------------------------------------------------------
(* The pool.                                                               *)

LEMMA MaxOfThree ==
  ASSUME NEW a \in Nat, NEW b \in Nat, NEW c \in Nat
  PROVE  Overlay!Max({a, b, c}) \in Nat /\ Overlay!Max({a, b, c}) >= a
         /\ Overlay!Max({a, b, c}) >= b /\ Overlay!Max({a, b, c}) >= c
<1> DEFINE S == {a, b, c}
<1>1. \E x \in S : \A y \in S : x >= y
  <2>1. CASE a >= b /\ a >= c
    BY <2>1
  <2>2. CASE b >= a /\ b >= c
    BY <2>2
  <2>3. CASE c >= a /\ c >= b
    BY <2>3
  <2> QED BY <2>1, <2>2, <2>3
<1>2. S \subseteq Nat /\ a \in S /\ b \in S /\ c \in S
  OBVIOUS
<1> HIDE DEF S
<1>3. Overlay!Max(S) \in S /\ \A y \in S : Overlay!Max(S) >= y
  BY <1>1 DEF Overlay!Max
<1>4. Overlay!Max(S) \in Nat /\ Overlay!Max(S) >= a /\ Overlay!Max(S) >= b /\ Overlay!Max(S) >= c
  BY <1>2, <1>3
<1> QED BY <1>4 DEF S

LEMMA MinOfTwo ==
  ASSUME NEW a \in Nat, NEW b \in Nat
  PROVE  Overlay!Min({a, b}) = IF a <= b THEN a ELSE b
<1>1. CASE a <= b
  <2>1. \A x \in {a, b} : (\A y \in {a, b} : x <= y) <=> x = a
    BY <1>1
  <2> QED BY <1>1, <2>1 DEF Overlay!Min
<1>2. CASE ~(a <= b)
  <2>1. \A x \in {a, b} : (\A y \in {a, b} : x <= y) <=> x = b
    BY <1>2
  <2> QED BY <1>2, <2>1 DEF Overlay!Min
<1> QED BY <1>1, <1>2

\* A stretch of the pool that is free, or the one the file has.
ExtentIsFree(fs, p, e) ==
  /\ e.start \in Nat /\ e.capacity \in Nat /\ e.used \in Nat
  /\ fs.used <= e.used /\ e.used <= PoolSize /\ e.start + e.capacity <= e.used
  /\ \/ e.start = fs.used
     \/ /\ p \in Files(fs)
        /\ e.start = fs.overlay[p].start /\ e.capacity = fs.overlay[p].capacity

LEMMA ExtentFits ==
  ASSUME NEW fs, OverlayTyped(fs), PoolIsShared(fs), NEW p \in OverlayPaths,
         NEW n \in Nat, NEW limit \in Nat
  PROVE  LET e == Overlay!Extent(fs, p, n, limit)
         IN /\ e.capacity \in Nat
            /\ e.capacity <= PoolSize - fs.used => ExtentIsFree(fs, p, e)
            /\ n <= limit => n <= e.capacity
            /\ Overlay!Kind(fs, p) # "file" \/ e.capacity < n => e.capacity <= limit
<1> DEFINE old == IF Overlay!Kind(fs, p) = "file" THEN fs.overlay[p].capacity ELSE 0
           inPlace == Overlay!Kind(fs, p) = "file" /\ n <= old
           most == Overlay!Max({2 * old, n, LeastCapacity})
           grown == IF n = 0 THEN 0 ELSE Overlay!Min({most, limit})
           e == Overlay!Extent(fs, p, n, limit)
<1>1. e = IF inPlace THEN [start |-> fs.overlay[p].start, capacity |-> old, used |-> fs.used]
          ELSE [start |-> fs.used, capacity |-> grown, used |-> fs.used + grown]
  BY Zenon DEF Overlay!Extent
<1>2. PoolSize \in Nat /\ LeastCapacity \in Nat /\ fs.used \in Nat /\ fs.used <= PoolSize
  BY OverlayAssumption DEF OverlayTyped
<1>3. Overlay!Kind(fs, p) = "file" => /\ p \in Files(fs) /\ fs.overlay[p].start \in Nat
                              /\ fs.overlay[p].capacity \in Nat
                              /\ fs.overlay[p].start + fs.overlay[p].capacity <= fs.used
  BY DEF Overlay!Kind, Overlay!HasNode, Files, OverlayTyped, NodeIsTyped, PoolIsShared, EndOf
<1>4. old \in Nat
  BY <1>3
<1>5. most \in Nat /\ most >= n
  <2> HIDE DEF old
  <2>1. 2 * old \in Nat
    BY <1>4
  <2> QED BY <1>2, <2>1, MaxOfThree
<1>6. grown \in Nat /\ (n <= limit => n <= grown) /\ grown <= limit
  <2> HIDE DEF most
  <2>1. Overlay!Min({most, limit}) = IF most <= limit THEN most ELSE limit
    BY <1>5, MinOfTwo
  <2> QED BY <1>5, <2>1
<1> HIDE DEF grown
<1>7. CASE inPlace
  <2>1. e.start = fs.overlay[p].start /\ e.capacity = fs.overlay[p].capacity /\ e.used = fs.used
    BY <1>1, <1>7
  <2>2. p \in Files(fs) /\ n <= fs.overlay[p].capacity
    BY <1>3, <1>7
  <2> HIDE DEF e
  <2>3. e.capacity \in Nat /\ n <= e.capacity /\ Overlay!Kind(fs, p) = "file"
    BY <1>3, <1>7, <2>1, <2>2
  <2>4. ExtentIsFree(fs, p, e)
    BY <1>2, <1>3, <1>7, <2>1, <2>2 DEF ExtentIsFree
  <2> QED BY <2>3, <2>4 DEF e
<1>8. CASE ~inPlace
  <2>1. e.start = fs.used /\ e.capacity = grown /\ e.used = fs.used + grown
    BY <1>1, <1>8
  <2> HIDE DEF e
  <2>2. e.capacity \in Nat /\ (n <= limit => n <= e.capacity) /\ e.capacity <= limit
    BY <1>6, <2>1
  <2>3. e.capacity <= PoolSize - fs.used => ExtentIsFree(fs, p, e)
    BY <1>2, <1>6, <2>1 DEF ExtentIsFree
  <2> QED BY <2>2, <2>3 DEF e
<1> QED BY <1>7, <1>8

\* A node put in the table.
HasNow(fs, p, node, gs) ==
  /\ gs = [overlay |-> gs.overlay, pool |-> gs.pool, used |-> gs.used]
  /\ gs.pool = fs.pool /\ gs.used = fs.used
  /\ DOMAIN gs.overlay = DOMAIN fs.overlay \cup {p}
  /\ gs.overlay[p] = node
  /\ \A q \in DOMAIN fs.overlay : q # p => gs.overlay[q] = fs.overlay[q]

LEMMA WithIs ==
  ASSUME NEW fs, fs = [overlay |-> fs.overlay, pool |-> fs.pool, used |-> fs.used],
         NEW p, NEW node
  PROVE  HasNow(fs, p, node, [fs EXCEPT !.overlay = Overlay!With(@, p, node)])
<1> DEFINE gs == [fs EXCEPT !.overlay = Overlay!With(@, p, node)]
<1>1. DOMAIN fs = {"overlay", "pool", "used"}
  OBVIOUS
<1>2. gs.overlay = Overlay!With(fs.overlay, p, node) /\ gs.pool = fs.pool /\ gs.used = fs.used
  BY <1>1
<1>3. gs = [overlay |-> gs.overlay, pool |-> gs.pool, used |-> gs.used]
  BY <1>1
<1> HIDE DEF gs
<1>4. /\ DOMAIN gs.overlay = DOMAIN fs.overlay \cup {p}
      /\ gs.overlay[p] = node
      /\ \A q \in DOMAIN fs.overlay : q # p => gs.overlay[q] = fs.overlay[q]
  BY <1>2 DEF Overlay!With
<1> QED BY <1>2, <1>3, <1>4 DEF gs, HasNow

Inserted(fs, p, node, r) ==
  IF r.ok
  THEN /\ OverlayTyped(r.fs) /\ PoolIsShared(r.fs) /\ Replaced(fs, r.fs, p)
       /\ Overlay!Kind(r.fs, p) = node.kind /\ r.fs.overlay[p] = node
  ELSE r.fs = fs

LEMMA InsertBare ==
  ASSUME NEW fs, OverlayTyped(fs), PoolIsShared(fs), NEW p \in OverlayPaths,
         NEW kind \in Overlay!Kinds, NEW uid
  PROVE  Inserted(fs, p, Overlay!Node(kind, uid), Overlay!Insert(fs, p, Overlay!Node(kind, uid)))
<1> DEFINE node == Overlay!Node(kind, uid)
           gs == [fs EXCEPT !.overlay = Overlay!With(@, p, node)]
           r == Overlay!Insert(fs, p, node)
<1>1. /\ node.kind = kind /\ node.start = 0 /\ node.length = 0 /\ node.capacity = 0
  BY DEF Overlay!Node
<1> HIDE DEF node
<1>2. r = IF Overlay!HasSlot(fs, p) THEN Overlay!Done(gs) ELSE Overlay!Fails(fs)
  BY Zenon DEF Overlay!Insert
<1>3. HasNow(fs, p, node, gs)
  <2>1. fs = [overlay |-> fs.overlay, pool |-> fs.pool, used |-> fs.used]
    BY DEF OverlayTyped
  <2> QED BY <2>1, WithIs, Zenon
<1> HIDE DEF gs, r
<1> USE DEF HasNow
<1>4. OverlayTyped(gs)
  BY <1>1, <1>3 DEF OverlayTyped, NodeIsTyped
<1>5. PoolIsShared(gs)
  <2>1. ASSUME NEW q \in Files(gs)
        PROVE  q = p \/ (q \in Files(fs) /\ gs.overlay[q] = fs.overlay[q])
    BY <1>3, <2>1 DEF Files
  <2>2. ASSUME NEW q \in Files(gs)
        PROVE  /\ gs.overlay[q].length <= gs.overlay[q].capacity
               /\ gs.overlay[q].length <= MaxFileSize
               /\ EndOf(gs.overlay[q]) <= gs.used
    <3>1. MaxFileSize \in Nat /\ fs.used \in Nat
      BY OverlayAssumption DEF OverlayTyped
    <3> QED BY <1>1, <1>3, <2>1, <3>1 DEF PoolIsShared, EndOf
  <2>3. ASSUME NEW q \in Files(gs), NEW t \in Files(gs), q # t
        PROVE  \/ EndOf(gs.overlay[q]) <= gs.overlay[t].start
               \/ EndOf(gs.overlay[t]) <= gs.overlay[q].start
    <3>1. gs.overlay[q].start \in Nat /\ gs.overlay[t].start \in Nat
      BY <1>4 DEF OverlayTyped, NodeIsTyped, Files
    <3>2. EndOf(gs.overlay[p]) = 0
      BY <1>1, <1>3 DEF EndOf
    <3>3. CASE q = p \/ t = p
      BY <3>1, <3>2, <3>3
    <3>4. CASE q # p /\ t # p
      <4>1. q \in Files(fs) /\ t \in Files(fs)
            /\ gs.overlay[q] = fs.overlay[q] /\ gs.overlay[t] = fs.overlay[t]
        BY <2>1, <3>4
      <4> QED BY <2>3, <4>1 DEF PoolIsShared
    <3> QED BY <3>3, <3>4
  <2> QED BY <2>2, <2>3 DEF PoolIsShared
<1>6. Overlay!Kind(gs, p) = node.kind
  BY <1>3 DEF Overlay!Kind, Overlay!HasNode
<1>7. Replaced(fs, gs, p)
  <2>1. SUFFICES ASSUME NEW q \in Words, q # p PROVE SameNode(fs, gs, q)
    BY DEF Replaced
  <2>2. Overlay!Kind(gs, q) = Overlay!Kind(fs, q)
    BY <1>3, <2>1 DEF Overlay!Kind, Overlay!HasNode
  <2>3. Overlay!Kind(fs, q) = "file"
        => Overlay!InPool(gs, gs.overlay[q]) = Overlay!InPool(fs, fs.overlay[q])
    BY <1>3, <2>1 DEF Overlay!Kind, Overlay!HasNode, Overlay!InPool
  <2> QED BY <2>2, <2>3 DEF SameNode
<1>8. CASE Overlay!HasSlot(fs, p)
  <2>1. r.ok = TRUE /\ r.fs = gs
    BY <1>2, <1>8 DEF Overlay!Done
  <2> QED BY <1>3, <1>4, <1>5, <1>6, <1>7, <2>1 DEF Inserted, node, r
<1>9. CASE ~Overlay!HasSlot(fs, p)
  <2>1. r.ok = FALSE /\ r.fs = fs
    BY <1>2, <1>9 DEF Overlay!Fails
  <2> QED BY <2>1 DEF Inserted, node, r
<1> QED BY <1>8, <1>9

\* Bytes written into a free stretch, and the file that has it now.
Placed(fs, p, bytes, r) ==
  /\ OverlayTyped(r.fs) /\ PoolIsShared(r.fs)
  /\ IF r.ok THEN /\ Replaced(fs, r.fs, p) /\ Overlay!Kind(r.fs, p) = "file"
                  /\ Overlay!InPool(r.fs, r.fs.overlay[p]) = bytes
     ELSE /\ DOMAIN r.fs.overlay = DOMAIN fs.overlay
          /\ \A q \in Words : SameNode(fs, r.fs, q)

Refilled(fs, x, u) == [fs EXCEPT !.pool = x, !.used = u]

LEMMA PoolIs ==
  ASSUME NEW fs, fs = [overlay |-> fs.overlay, pool |-> fs.pool, used |-> fs.used], NEW x, NEW u
  PROVE  Refilled(fs, x, u) = [overlay |-> fs.overlay, pool |-> x, used |-> u]
<1> DEFINE g == [fs EXCEPT !.pool = x]
<1>1. DOMAIN fs = {"overlay", "pool", "used"}
  OBVIOUS
<1>2. g.overlay = fs.overlay /\ g.pool = x /\ g.used = fs.used /\ DOMAIN g = DOMAIN fs
  BY <1>1
<1>3. g = [overlay |-> fs.overlay, pool |-> x, used |-> fs.used]
  BY <1>1
<1> HIDE DEF g
<1>4. [g EXCEPT !.used = u] = [overlay |-> fs.overlay, pool |-> x, used |-> u]
  BY <1>3
<1> QED BY <1>4 DEF g, Refilled

LEMMA FilledIs ==
  ASSUME NEW fs, OverlayTyped(fs), NEW e, NEW bytes \in Seq(Nat), e.start \in Nat,
         e.used \in 0 .. PoolSize
  PROVE  LET gs == [fs EXCEPT !.pool = Overlay!Filled(@, e.start, bytes), !.used = e.used]
         IN /\ gs = [overlay |-> fs.overlay, pool |-> Overlay!Filled(fs.pool, e.start, bytes),
               used |-> e.used]
            /\ OverlayTyped(gs)
<1> DEFINE gs == [fs EXCEPT !.pool = Overlay!Filled(@, e.start, bytes), !.used = e.used]
<1>1. fs = [overlay |-> fs.overlay, pool |-> fs.pool, used |-> fs.used]
  BY DEF OverlayTyped
<1>2. gs = [overlay |-> fs.overlay, pool |-> Overlay!Filled(fs.pool, e.start, bytes), used |-> e.used]
  <2> DEFINE x == Overlay!Filled(fs.pool, e.start, bytes)
  <2> HIDE DEF x
  <2>1. Refilled(fs, x, e.used) = [overlay |-> fs.overlay, pool |-> x, used |-> e.used]
    BY <1>1, PoolIs, Zenon
  <2> QED BY <2>1, Zenon DEF x, Refilled
<1>3. Overlay!Filled(fs.pool, e.start, bytes) \in [1 .. PoolSize -> Nat]
  <2>1. fs.pool \in [1 .. PoolSize -> Nat] /\ Len(bytes) \in Nat
    BY DEF OverlayTyped
  <2>2. \A i \in 1 .. PoolSize : i \in e.start + 1 .. e.start + Len(bytes) =>
          i - e.start \in 1 .. Len(bytes)
    BY <2>1
  <2>3. \A i \in 1 .. Len(bytes) : bytes[i] \in Nat
    OBVIOUS
  <2> QED BY <2>1, <2>2, <2>3 DEF Overlay!Filled
<1> HIDE DEF gs
<1>4. OverlayTyped(gs)
  <2>1. /\ gs.overlay = fs.overlay /\ gs.used = e.used
        /\ gs.pool = Overlay!Filled(fs.pool, e.start, bytes)
    BY <1>2
  <2>2. gs = [overlay |-> gs.overlay, pool |-> gs.pool, used |-> gs.used]
    BY <1>2, <2>1, Zenon
  <2> QED BY <1>3, <2>1, <2>2 DEF OverlayTyped
<1> QED BY <1>2, <1>4 DEF gs

LEMMA NodeOf ==
  ASSUME NEW uid, NEW a, NEW b, NEW c
  PROVE  LET node == [Overlay!Node("file", uid) EXCEPT !.start = a, !.length = b, !.capacity = c]
         IN node.kind = "file" /\ node.start = a /\ node.length = b /\ node.capacity = c
BY DEF Overlay!Node

LEMMA Beside ==
  ASSUME NEW a \in Nat, NEW n \in Nat, NEW c \in Nat, n <= c,
         NEW b \in Nat, NEW m \in Nat, NEW d \in Nat, m <= d,
         a + c <= b \/ b + d <= a, NEW i \in 1 .. n
  PROVE  a + i \notin b + 1 .. b + m
OBVIOUS

LEMMA InRange ==
  ASSUME NEW a \in Nat, NEW n \in Nat, NEW c \in Nat, n <= c, NEW u \in Nat, a + c <= u,
         NEW size \in Nat, u <= size, NEW i \in 1 .. n
  PROVE  a + i \in 1 .. size /\ a + i \in a + 1 .. a + n /\ (a + i) - a = i
OBVIOUS

\* A stretch that is free or p's own is nowhere in another file.
LEMMA StretchIsApart ==
  ASSUME NEW fs, OverlayTyped(fs), PoolIsShared(fs), NEW p, NEW e, ExtentIsFree(fs, p, e),
         NEW q \in Files(fs), q # p \/ e.start = fs.used
  PROVE  EndOf(fs.overlay[q]) <= e.start \/ e.start + e.capacity <= fs.overlay[q].start
<1>1. CASE e.start = fs.used
  BY <1>1 DEF PoolIsShared
<1>2. CASE q # p /\ e.start # fs.used
  BY <1>2 DEF PoolIsShared, ExtentIsFree, EndOf
<1> QED BY <1>1, <1>2

LEMMA FilledKeeps ==
  ASSUME NEW fs, OverlayTyped(fs), PoolIsShared(fs), NEW p, NEW e, ExtentIsFree(fs, p, e),
         NEW bytes \in Seq(Nat), Len(bytes) <= e.capacity,
         NEW gs, gs.overlay = fs.overlay, gs.pool = Overlay!Filled(fs.pool, e.start, bytes),
         NEW q \in Files(fs), q # p \/ e.start = fs.used
  PROVE  Overlay!InPool(gs, fs.overlay[q]) = Overlay!InPool(fs, fs.overlay[q])
<1> DEFINE node == fs.overlay[q]
<1>1. EndOf(node) <= e.start \/ e.start + e.capacity <= node.start
  BY StretchIsApart
<1>2. /\ node.start \in Nat /\ node.length \in Nat /\ node.capacity \in Nat
      /\ node.length <= node.capacity /\ EndOf(node) <= fs.used
      /\ fs.used \in Nat /\ fs.used <= PoolSize /\ PoolSize \in Nat
      /\ fs.pool \in [1 .. PoolSize -> Nat]
  BY OverlayAssumption DEF OverlayTyped, NodeIsTyped, PoolIsShared, Files
<1>3. e.start \in Nat /\ e.capacity \in Nat /\ Len(bytes) \in Nat
  BY DEF ExtentIsFree
<1> HIDE DEF node
<1>4. ASSUME NEW i \in 1 .. node.length
      PROVE  gs.pool[node.start + i] = fs.pool[node.start + i]
  <2>1. node.start + i \notin e.start + 1 .. e.start + Len(bytes)
    BY <1>1, <1>2, <1>3, Beside DEF EndOf
  <2>2. node.start + i \in DOMAIN fs.pool
    BY <1>2, InRange DEF EndOf
  <2> QED BY <2>1, <2>2, Zenon DEF Overlay!Filled
<1>5. Overlay!InPool(gs, node) = Overlay!InPool(fs, node)
  BY <1>4, Zenon DEF Overlay!InPool
<1> QED BY <1>5 DEF node

LEMMA PlaceIs ==
  ASSUME NEW fs, OverlayTyped(fs), PoolIsShared(fs), NEW p \in OverlayPaths,
         NEW bytes \in Seq(Nat), Len(bytes) <= MaxFileSize, NEW e, NEW uid,
         e.capacity \in Nat, Len(bytes) <= e.capacity,
         e.capacity <= PoolSize - fs.used => ExtentIsFree(fs, p, e)
  PROVE  Placed(fs, p, bytes, Overlay!Place(fs, p, bytes, e, uid))
<1> DEFINE f1 == [fs EXCEPT !.pool = Overlay!Filled(@, e.start, bytes), !.used = e.used]
           node == [Overlay!Node("file", uid) EXCEPT !.start = e.start, !.length = Len(bytes),
                                             !.capacity = e.capacity]
           f2 == [f1 EXCEPT !.overlay = Overlay!With(@, p, node)]
           r == Overlay!Place(fs, p, bytes, e, uid)
<1>1. r = IF e.capacity > PoolSize - fs.used THEN Overlay!Fails(fs) ELSE Overlay!Insert(f1, p, node)
  BY Zenon DEF Overlay!Place
<1>2. Overlay!Insert(f1, p, node) =
        IF Overlay!HasSlot(f1, p) THEN Overlay!Done(f2) ELSE Overlay!Fails(f1)
  BY Zenon DEF Overlay!Insert
<1> HIDE DEF r
<1>3. SUFFICES Placed(fs, p, bytes, r)
  BY Zenon DEF r
<1>4. CASE e.capacity > PoolSize - fs.used
  <2>1. r.fs = fs /\ r.ok = FALSE
    BY <1>1, <1>4, Zenon DEF Overlay!Fails
  <2>2. \A q \in Words : SameNode(fs, fs, q)
    BY DEF SameNode
  <2> QED BY <2>1, <2>2 DEF Placed
<1>5. CASE ~(e.capacity > PoolSize - fs.used)
  <2>1. PoolSize \in Nat /\ fs.used \in Nat /\ fs.used <= PoolSize /\ MaxFileSize \in Nat
        /\ fs.pool \in [1 .. PoolSize -> Nat] /\ Len(bytes) \in Nat
    BY OverlayAssumption DEF OverlayTyped
  <2>2. ExtentIsFree(fs, p, e)
    BY <1>5, <2>1
  <2>3. /\ e.start \in Nat /\ e.used \in Nat /\ fs.used <= e.used /\ e.used <= PoolSize
        /\ e.start + e.capacity <= e.used
    BY <2>2 DEF ExtentIsFree
  <2>4. e.used \in 0 .. PoolSize
    BY <2>1, <2>3
  <2>5. /\ f1 = [overlay |-> fs.overlay, pool |-> Overlay!Filled(fs.pool, e.start, bytes),
           used |-> e.used]
        /\ OverlayTyped(f1)
    BY <2>3, <2>4, FilledIs
  <2>6. r = IF Overlay!HasSlot(f1, p) THEN Overlay!Done(f2) ELSE Overlay!Fails(f1)
    BY <1>1, <1>2, <1>5, Zenon
  <2>7. node.kind = "file" /\ node.start = e.start /\ node.length = Len(bytes)
        /\ node.capacity = e.capacity
    BY NodeOf
  <2>8. HasNow(f1, p, node, f2)
    <3> HIDE DEF f1, node
    <3>1. f1 = [overlay |-> f1.overlay, pool |-> f1.pool, used |-> f1.used]
      BY <2>5, Zenon DEF OverlayTyped
    <3> QED BY <3>1, WithIs, Zenon
  <2> HIDE DEF f1, node, f2
  <2>9. /\ f1.overlay = fs.overlay /\ f1.pool = Overlay!Filled(fs.pool, e.start, bytes)
        /\ f1.used = e.used
    BY <2>5
  <2>10. Files(f1) = Files(fs)
    BY <2>9 DEF Files
  <2>11. ASSUME NEW q \in Files(fs), q # p \/ e.start = fs.used
         PROVE  Overlay!InPool(f1, fs.overlay[q]) = Overlay!InPool(fs, fs.overlay[q])
    BY <2>2, <2>9, <2>11, FilledKeeps
  <2>12. PoolIsShared(f1)
    <3>1. ASSUME NEW q \in Files(fs)
          PROVE  EndOf(fs.overlay[q]) <= e.used
      <4>1. fs.overlay[q].start \in Nat /\ fs.overlay[q].capacity \in Nat
            /\ EndOf(fs.overlay[q]) <= fs.used
        BY DEF OverlayTyped, NodeIsTyped, PoolIsShared, Files
      <4>2. EndOf(fs.overlay[q]) \in Nat
        BY <4>1 DEF EndOf
      <4> QED BY ONLY <2>1, <2>3, <4>1, <4>2
    <3> QED BY <2>9, <2>10, <3>1 DEF PoolIsShared
  <2>13. CASE ~Overlay!HasSlot(f1, p)
    <3>1. r.fs = f1 /\ r.ok = FALSE
      BY <2>6, <2>13, Zenon DEF Overlay!Fails
    <3>2. p \notin DOMAIN fs.overlay /\ e.start = fs.used
      BY <2>2, <2>9, <2>13 DEF Overlay!HasSlot, Overlay!HasNode, ExtentIsFree, Files
    <3>3. ASSUME NEW q \in Words
          PROVE  SameNode(fs, f1, q)
      <4>1. Overlay!Kind(f1, q) = Overlay!Kind(fs, q)
        BY <2>9 DEF Overlay!Kind, Overlay!HasNode
      <4>2. Overlay!Kind(fs, q) = "file" => q \in Files(fs)
        BY DEF Overlay!Kind, Overlay!HasNode, Files
      <4> QED BY <2>9, <2>11, <3>2, <4>1, <4>2 DEF SameNode
    <3> QED BY <2>5, <2>9, <2>12, <3>1, <3>3 DEF Placed
  <2>14. CASE Overlay!HasSlot(f1, p)
    <3>1. r.fs = f2 /\ r.ok = TRUE
      BY <2>6, <2>14, Zenon DEF Overlay!Done
    <3>2. /\ f2 = [overlay |-> f2.overlay, pool |-> f2.pool, used |-> f2.used]
          /\ f2.pool = f1.pool /\ f2.used = e.used
          /\ DOMAIN f2.overlay = DOMAIN fs.overlay \cup {p}
          /\ f2.overlay[p] = node
          /\ \A q \in DOMAIN fs.overlay : q # p => f2.overlay[q] = fs.overlay[q]
      BY <2>8, <2>9 DEF HasNow
    <3>3. OverlayTyped(f2)
      <4>1. NodeIsTyped(node)
        BY <2>1, <2>3, <2>7 DEF NodeIsTyped, Overlay!Kinds
      <4>2. f1.pool \in [1 .. PoolSize -> Nat]
        BY <2>5 DEF OverlayTyped
      <4>3. \A q \in DOMAIN f2.overlay : NodeIsTyped(f2.overlay[q])
        BY <3>2, <4>1 DEF OverlayTyped
      <4>4. DOMAIN f2.overlay \subseteq OverlayPaths
        BY <3>2 DEF OverlayTyped
      <4> QED BY <2>4, <3>2, <4>2, <4>3, <4>4 DEF OverlayTyped
    <3>4. ASSUME NEW q \in Files(f2), q # p
          PROVE  q \in Files(fs) /\ f2.overlay[q] = fs.overlay[q]
      BY <3>2, <3>4 DEF Files
    <3>5. ASSUME NEW q \in Files(f2), q # p
          PROVE  \/ EndOf(f2.overlay[q]) <= f2.overlay[p].start
                 \/ EndOf(f2.overlay[p]) <= f2.overlay[q].start
      <4>1. q \in Files(fs) /\ f2.overlay[q] = fs.overlay[q]
        BY <3>4, <3>5
      <4>2. EndOf(fs.overlay[q]) <= e.start \/ e.start + e.capacity <= fs.overlay[q].start
        BY <2>2, <3>5, <4>1, StretchIsApart
      <4> QED BY <2>7, <3>2, <4>1, <4>2 DEF EndOf
    <3>6. PoolIsShared(f2)
      <4>1. ASSUME NEW q \in Files(f2)
            PROVE  /\ f2.overlay[q].length <= f2.overlay[q].capacity
                   /\ f2.overlay[q].length <= MaxFileSize
                   /\ EndOf(f2.overlay[q]) <= f2.used
        <5>1. CASE q = p
          BY <2>3, <2>7, <3>2, <5>1 DEF EndOf
        <5>2. CASE q # p
          <6>1. q \in Files(f1) /\ f2.overlay[q] = f1.overlay[q]
            BY <2>9, <2>10, <3>4, <5>2
          <6> QED BY <2>9, <2>12, <3>2, <6>1 DEF PoolIsShared
        <5> QED BY <5>1, <5>2
      <4>2. ASSUME NEW q \in Files(f2), NEW t \in Files(f2), q # t
            PROVE  \/ EndOf(f2.overlay[q]) <= f2.overlay[t].start
                   \/ EndOf(f2.overlay[t]) <= f2.overlay[q].start
        <5>1. CASE q = p \/ t = p
          BY <3>5, <4>2, <5>1
        <5>2. CASE q # p /\ t # p
          BY <3>4, <4>2, <5>2 DEF PoolIsShared
        <5> QED BY <5>1, <5>2
      <4> QED BY <4>1, <4>2 DEF PoolIsShared
    <3>7. Overlay!Kind(f2, p) = "file"
      BY <2>7, <3>2 DEF Overlay!Kind, Overlay!HasNode
    <3>8. Overlay!InPool(f2, f2.overlay[p]) = bytes
      <4>1. ASSUME NEW i \in 1 .. Len(bytes)
            PROVE  f2.pool[e.start + i] = bytes[i]
        <5>1. e.start + i \in 1 .. PoolSize /\ e.start + i \in e.start + 1 .. e.start + Len(bytes)
              /\ (e.start + i) - e.start = i
          BY <2>1, <2>3, InRange
        <5>2. DOMAIN fs.pool = 1 .. PoolSize
          BY <2>1
        <5>3. Overlay!Filled(fs.pool, e.start, bytes)[e.start + i] = bytes[(e.start + i) - e.start]
          BY <5>1, <5>2, Zenon DEF Overlay!Filled
        <5> QED BY <2>9, <3>2, <5>1, <5>3
      <4>2. bytes = [i \in 1 .. Len(bytes) |-> bytes[i]]
        OBVIOUS
      <4>3. Overlay!InPool(f2, node) = [i \in 1 .. Len(bytes) |-> f2.pool[e.start + i]]
        BY <2>7 DEF Overlay!InPool
      <4> QED BY <3>2, <4>1, <4>2, <4>3
    <3>9. Replaced(fs, f2, p)
      <4>1. SUFFICES ASSUME NEW q \in Words, q # p PROVE SameNode(fs, f2, q)
        BY DEF Replaced
      <4>2. Overlay!Kind(f2, q) = Overlay!Kind(fs, q)
        BY <3>2, <4>1 DEF Overlay!Kind, Overlay!HasNode
      <4>3. ASSUME Overlay!Kind(fs, q) = "file"
            PROVE  Overlay!InPool(f2, f2.overlay[q]) = Overlay!InPool(fs, fs.overlay[q])
        <5>1. q \in Files(fs)
          BY <4>3 DEF Overlay!Kind, Overlay!HasNode, Files
        <5>2. Overlay!InPool(f1, fs.overlay[q]) = Overlay!InPool(fs, fs.overlay[q])
          BY <2>11, <4>1, <5>1
        <5>3. f2.overlay[q] = fs.overlay[q]
          BY <3>2, <4>1, <5>1 DEF Files
        <5>4. Overlay!InPool(f2, fs.overlay[q]) = Overlay!InPool(f1, fs.overlay[q])
          BY <3>2, Zenon DEF Overlay!InPool
        <5> QED BY <5>2, <5>3, <5>4
      <4> QED BY <4>2, <4>3 DEF SameNode
    <3> QED BY <3>1, <3>3, <3>6, <3>7, <3>8, <3>9 DEF Placed
  <2> QED BY <2>13, <2>14
<1> QED BY <1>4, <1>5

-----------------------------------------------------------------------------
(* The calls.                                                              *)

Sound(fs) == OverlayTyped(fs) /\ PoolIsShared(fs) /\ Rooted(fs)

\* The file system agrees with what the callers know.
Agrees(fs, now, os) == Sound(fs) /\ StrayAreKnown(fs, os) /\ Believed(fs, now, os)

OverlayInv == Agrees(ramfs, expected, orphans) /\ DOMAIN expected = OverlayPaths

LEMMA MoreOrphans ==
  ASSUME NEW fs, NEW now, NEW os, Agrees(fs, now, os), NEW more, os \subseteq more,
         NEW next, \A q \in OverlayPaths \ more : next[q] = now[q]
  PROVE  Agrees(fs, next, more)
BY DEF Agrees, StrayAreKnown, Believed

\* A call that failed after it took space.
LEMMA OnlySpaceTaken ==
  ASSUME NEW fs, NEW now, NEW os, Agrees(fs, now, os), NEW gs, OverlayTyped(gs), PoolIsShared(gs),
         DOMAIN gs.overlay = DOMAIN fs.overlay, \A q \in Words : SameNode(fs, gs, q)
  PROVE  Agrees(gs, now, os)
<1>1. Sound(fs) /\ StrayAreKnown(fs, os) /\ Believed(fs, now, os)
  BY DEF Agrees
<1>2. Rooted(gs)
  BY <1>1 DEF Sound, Rooted
<1>3. \A q \in Words : Overlay!Kind(gs, q) = Overlay!Kind(fs, q)
  BY DEF SameNode
<1>4. ASSUME NEW q \in Words
      PROVE  SameAnswers(fs, gs, q)
  <2>1. Above(gs, q) <=> Above(fs, q)
    BY <1>3 DEF Above
  <2> QED BY <1>1, <1>2, <2>1, Unmoved DEF Sound
<1>5. \A q \in OverlayPaths : q \in Words /\ Overlay!Parent(q) \in Words
  BY PathFacts, ParentFacts
<1>6. StrayAreKnown(gs, os)
  BY <1>1, <1>4, <1>5 DEF StrayAreKnown, Exists, SameAnswers
<1>7. Believed(gs, now, os)
  BY <1>1, <1>4, <1>5 DEF Believed, SameAnswers
<1> QED BY <1>2, <1>6, <1>7 DEF Agrees, Sound

LEMMA FileNow ==
  ASSUME NEW fs, NEW now, NEW os, Agrees(fs, now, os), NEW gs, OverlayTyped(gs), PoolIsShared(gs),
         NEW p \in OverlayPaths, Replaced(fs, gs, p), Overlay!Kind(gs, p) = "file",
         ~Overlay!IsDirectory(fs, p),
         Overlay!IsFile(fs, p) \/ Overlay!IsDirectory(fs, Overlay!Parent(p)),
         NEW more, os \subseteq more,
         Overlay!Kind(fs, p) = "whiteout" => Overlay!Uncovered(gs, p) \subseteq more,
         NEW next, \A q \in OverlayPaths \ more : q # p => next[q] = now[q],
         p \notin more => next[p] = {Overlay!InPool(gs, gs.overlay[p])}
  PROVE  Agrees(gs, next, more)
<1>1. OverlayTyped(fs) /\ Rooted(fs) /\ StrayAreKnown(fs, os) /\ Believed(fs, now, os)
  BY DEF Agrees, Sound
<1>2. /\ Rooted(gs) /\ StrayAreKnown(gs, more)
      /\ \A q \in OverlayPaths \ more : q # p => Overlay!Read(gs, q) = Overlay!Read(fs, q)
  <2>1. /\ OverlayTyped(fs) /\ Rooted(fs) /\ StrayAreKnown(fs, os) /\ OverlayTyped(gs)
           /\ p \in OverlayPaths
        /\ Replaced(fs, gs, p) /\ Overlay!Kind(gs, p) = "file" /\ ~Overlay!IsDirectory(fs, p)
        /\ Overlay!IsFile(fs, p) \/ Overlay!IsDirectory(fs, Overlay!Parent(p))
        /\ os \subseteq more
           /\ (Overlay!Kind(fs, p) = "whiteout" => Overlay!Uncovered(gs, p) \subseteq more)
    BY <1>1
  <2> QED BY ONLY <2>1, FilePlaced
<1>3. LookedUp(gs, p)
  <2>1. p \in Words
    BY PathFacts
  <2> QED BY <1>2, <2>1, Lookup
<1>4. Overlay!Read(gs, p) = {Overlay!InPool(gs, gs.overlay[p])}
  BY <1>3 DEF LookedUp
<1>5. Believed(gs, next, more)
  BY <1>1, <1>2, <1>4 DEF Believed
<1> QED BY <1>2, <1>5 DEF Agrees, Sound

LEMMA BytesOf ==
  ASSUME NEW n \in Nat, NEW f, f \in [1 .. n -> Nat]
  PROVE  f \in Seq(Nat) /\ Len(f) = n
OBVIOUS

\* What a file holds.
LEMMA FileIsRead ==
  ASSUME NEW fs, Sound(fs), NEW p \in Words, Overlay!IsFile(fs, p)
  PROVE  \E b \in Seq(Nat) : /\ Overlay!Read(fs, p) = {b}
                             /\ Overlay!Kind(fs, p) = "file" => Len(b) <= MaxFileSize
                             /\ Len(b) <= Overlay!LargestFile
<1>1. OverlayTyped(fs) /\ PoolIsShared(fs) /\ LookedUp(fs, p)
      /\ Overlay!Kind(fs, p) \in Overlay!Kinds \cup {"none"}
  BY Lookup, KindIs DEF Sound
<1>2. ArchiveBytes \in Seq(Nat) /\ Len(ArchiveBytes) \in Nat /\ MaxFileSize \in Nat
      /\ PoolSize \in Nat
  BY OverlayAssumption
<1>3. CASE Overlay!Kind(fs, p) = "file"
  <2> DEFINE node == fs.overlay[p]
             b == Overlay!InPool(fs, node)
  <2>1. p \in Files(fs) /\ Overlay!Read(fs, p) = {b}
    BY <1>1, <1>3 DEF Overlay!Kind, Overlay!HasNode, Files, LookedUp
  <2>2. /\ node.start \in Nat /\ node.length \in Nat /\ node.capacity \in Nat
        /\ node.length <= node.capacity /\ node.start + node.capacity <= fs.used
        /\ node.length <= MaxFileSize /\ fs.used \in Nat /\ fs.used <= PoolSize
        /\ fs.pool \in [1 .. PoolSize -> Nat]
    BY <1>1, <1>2, <2>1 DEF OverlayTyped, NodeIsTyped, PoolIsShared, EndOf, Files
  <2>3. \A i \in 1 .. node.length : node.start + i \in 1 .. PoolSize
    <3> HIDE DEF node
    <3> QED BY <1>2, <2>2, InRange
  <2>4. b \in Seq(Nat) /\ Len(b) = node.length
    <3> HIDE DEF node
    <3>1. \A i \in 1 .. node.length : fs.pool[node.start + i] \in Nat
      BY <2>2, <2>3
    <3>2. b = [i \in 1 .. node.length |-> fs.pool[node.start + i]]
      BY Zenon DEF Overlay!InPool
    <3> HIDE DEF b
    <3>3. b \in [1 .. node.length -> Nat] /\ node.length \in Nat
      BY <2>2, <3>1, <3>2
    <3> QED BY <3>3, BytesOf
  <2> QED BY <1>2, <2>1, <2>2, <2>4 DEF Overlay!LargestFile
<1>4. CASE Overlay!Kind(fs, p) # "file"
  <2>1. Overlay!Read(fs, p) = {ArchiveBytes}
    BY <1>1, <1>4 DEF LookedUp, Overlay!Kinds, Overlay!ArchiveFind
  <2> QED BY <1>2, <1>4, <2>1 DEF Overlay!LargestFile
<1> QED BY <1>3, <1>4

LEMMA CreateFileAgrees ==
  ASSUME NEW fs, NEW now, NEW os, Agrees(fs, now, os), DOMAIN now = OverlayPaths,
         NEW p \in OverlayPaths, NEW uid
  PROVE  LET r == Overlay!CreateFile(fs, p, uid)
             next == [now EXCEPT ![p] = IF @ = {} THEN {<<>>} ELSE @]
         IN Agrees(r.fs, IF r.ok THEN next ELSE now, os \cup Overlay!Uncovered(r.fs, p))
<1> DEFINE r == Overlay!CreateFile(fs, p, uid)
           next == [now EXCEPT ![p] = IF @ = {} THEN {<<>>} ELSE @]
           more == os \cup Overlay!Uncovered(r.fs, p)
           node == Overlay!Node("file", uid)
<1>1. /\ OverlayTyped(fs) /\ PoolIsShared(fs) /\ Rooted(fs) /\ StrayAreKnown(fs, os)
      /\ Believed(fs, now, os)
  BY DEF Agrees, Sound
<1>2. /\ Overlay!IsFile(fs, p) => r = Overlay!Done(fs)
      /\ ~Overlay!IsFile(fs, p)
         => r = IF ~Overlay!IsDirectory(fs, p) /\ Overlay!IsDirectory(fs, Overlay!Parent(p))
                               THEN Overlay!Insert(fs, p, node) ELSE Overlay!Fails(fs)
  BY DEF Overlay!CreateFile
<1>3. /\ \A q \in OverlayPaths : q # p => next[q] = now[q]
      /\ next[p] = IF now[p] = {} THEN {<<>>} ELSE now[p]
  OBVIOUS
<1> HIDE DEF r, next, node
<1>4. CASE r.fs = fs /\ ~r.ok
  <2>1. Agrees(fs, now, more)
    BY MoreOrphans
  <2> QED BY <1>4, <2>1 DEF r, next
<1>5. CASE Overlay!IsFile(fs, p)
  <2>1. r.fs = fs /\ r.ok = TRUE
    BY <1>2, <1>5 DEF Overlay!Done
  <2>2. \A q \in OverlayPaths \ more : next[q] = now[q]
    BY <1>1, <1>3, <1>5 DEF Believed, Overlay!IsFile
  <2>3. Agrees(fs, next, more)
    BY <2>2, MoreOrphans
  <2> QED BY <2>1, <2>3 DEF r, next
<1>6. CASE ~Overlay!IsFile(fs, p)
           /\ ~(~Overlay!IsDirectory(fs, p) /\ Overlay!IsDirectory(fs, Overlay!Parent(p)))
  <2>1. r.fs = fs /\ r.ok = FALSE
    BY <1>2, <1>6 DEF Overlay!Fails
  <2> QED BY <1>4, <2>1
<1>7. CASE ~Overlay!IsFile(fs, p) /\ ~Overlay!IsDirectory(fs, p)
           /\ Overlay!IsDirectory(fs, Overlay!Parent(p))
  <2>1. r = Overlay!Insert(fs, p, node)
    BY <1>2, <1>7
  <2>2. Inserted(fs, p, node, r)
    BY <1>1, <2>1, InsertBare DEF node, Overlay!Kinds
  <2>3. CASE r.ok
    <3>1. /\ OverlayTyped(r.fs) /\ PoolIsShared(r.fs) /\ Replaced(fs, r.fs, p)
          /\ Overlay!Kind(r.fs, p) = "file" /\ r.fs.overlay[p] = node
      BY <2>2, <2>3 DEF Inserted, node, Overlay!Node
    <3>2. Overlay!InPool(r.fs, node) = <<>>
      <4>1. node.length = 0
        BY DEF node, Overlay!Node
      <4>2. 1 .. 0 = {}
        OBVIOUS
      <4> QED BY <4>1, <4>2 DEF Overlay!InPool
    <3>3. p \notin more => next[p] = {Overlay!InPool(r.fs, r.fs.overlay[p])}
      BY <1>1, <1>3, <1>7, <3>1, <3>2 DEF Believed, Overlay!IsFile
    <3>4. os \subseteq more /\ Overlay!Uncovered(r.fs, p) \subseteq more
      OBVIOUS
    <3> HIDE DEF more
    <3>5. Agrees(r.fs, next, more)
      BY <1>3, <1>7, <3>1, <3>3, <3>4, FileNow
    <3> QED BY <2>3, <3>5 DEF r, next, more
  <2>4. CASE ~r.ok
    BY <1>4, <2>2, <2>4 DEF Inserted
  <2> QED BY <2>3, <2>4
<1> QED BY <1>5, <1>6, <1>7

LEMMA WriteFileAgrees ==
  ASSUME NEW fs, NEW now, NEW os, Agrees(fs, now, os), DOMAIN now = OverlayPaths,
         NEW p \in OverlayPaths, NEW bytes \in Writes, NEW uid
  PROVE  LET r == Overlay!WriteFile(fs, p, bytes, uid)
         IN Agrees(r.fs, IF r.ok THEN [now EXCEPT ![p] = {bytes}] ELSE now,
                   os \cup Overlay!Uncovered(r.fs, p))
<1> DEFINE r == Overlay!WriteFile(fs, p, bytes, uid)
           next == [now EXCEPT ![p] = {bytes}]
           more == os \cup Overlay!Uncovered(r.fs, p)
           e == Overlay!Extent(fs, p, Len(bytes), PoolSize)
           owner == CHOOSE u \in IF Overlay!Owner(fs, p) = {} THEN {uid}
                                 ELSE Overlay!Owner(fs, p) : TRUE
           refused == \/ Len(bytes) > MaxWriteFile
                      \/ Overlay!IsDirectory(fs, p)
                      \/ ~Overlay!IsFile(fs, p) /\ ~Overlay!IsDirectory(fs, Overlay!Parent(p))
<1>1. OverlayTyped(fs) /\ PoolIsShared(fs)
  BY DEF Agrees, Sound
<1>2. r = IF refused THEN Overlay!Fails(fs) ELSE Overlay!Place(fs, p, bytes, e, owner)
  BY Zenon DEF Overlay!WriteFile
<1>3. (\A q \in OverlayPaths : q # p => next[q] = now[q]) /\ next[p] = {bytes}
  OBVIOUS
<1>4. /\ bytes \in Seq(Nat) /\ Len(bytes) \in Nat /\ PoolSize \in Nat
      /\ MaxWriteFile \in Nat /\ MaxWriteFile <= PoolSize /\ MaxWriteFile <= MaxFileSize
      /\ MaxFileSize \in Nat
  BY OverlayAssumption
<1> HIDE DEF r, next, e, owner
<1>5. CASE refused
  <2>1. r.fs = fs /\ r.ok = FALSE
    BY <1>2, <1>5 DEF Overlay!Fails
  <2>2. Agrees(fs, now, more)
    BY MoreOrphans
  <2> QED BY <2>1, <2>2 DEF r, next
<1>6. CASE ~refused
  <2>1. Len(bytes) <= MaxFileSize /\ Len(bytes) <= PoolSize
    BY <1>4, <1>6
  <2>2. /\ e.capacity \in Nat /\ Len(bytes) <= e.capacity
        /\ e.capacity <= PoolSize - fs.used => ExtentIsFree(fs, p, e)
    BY <1>1, <1>4, <2>1, ExtentFits DEF e
  <2>3. Placed(fs, p, bytes, r)
    BY <1>1, <1>2, <1>4, <1>6, <2>1, <2>2, PlaceIs
  <2>4. CASE r.ok
    <3>1. /\ OverlayTyped(r.fs) /\ PoolIsShared(r.fs) /\ Replaced(fs, r.fs, p)
          /\ Overlay!Kind(r.fs, p) = "file" /\ Overlay!InPool(r.fs, r.fs.overlay[p]) = bytes
      BY <2>3, <2>4 DEF Placed
    <3>2. os \subseteq more /\ Overlay!Uncovered(r.fs, p) \subseteq more
      OBVIOUS
    <3> HIDE DEF more
    <3>3. Agrees(r.fs, next, more)
      BY <1>3, <1>6, <3>1, <3>2, FileNow
    <3> QED BY <2>4, <3>3 DEF r, next, more
  <2>5. CASE ~r.ok
    <3>1. Agrees(r.fs, now, os)
      BY <2>3, <2>5, OnlySpaceTaken DEF Placed
    <3>2. Agrees(r.fs, now, more)
      BY <3>1, MoreOrphans
    <3> QED BY <2>5, <3>2 DEF r, next
  <2> QED BY <2>4, <2>5
<1> QED BY <1>5, <1>6

LEMMA OverlayMaxOfTwo ==
  ASSUME NEW a \in Nat, NEW b \in Nat
  PROVE  Overlay!Max({a, b}) = IF a >= b THEN a ELSE b
<1>1. \A x \in {a, b} : x \in Nat
  OBVIOUS
<1>2. CASE a >= b
  <2>1. \A x \in {a, b} : (\A y \in {a, b} : x >= y) <=> x = a
    BY <1>2
  <2> QED BY <1>2, <2>1 DEF Overlay!Max
<1>3. CASE ~(a >= b)
  <2>1. \A x \in {a, b} : (\A y \in {a, b} : x >= y) <=> x = b
    BY <1>3
  <2> QED BY <1>3, <2>1 DEF Overlay!Max
<1> QED BY <1>2, <1>3

LEMMA PatchedIs ==
  ASSUME NEW old \in Seq(Nat), NEW bytes \in Seq(Nat), NEW offset \in Nat, offset <= Len(old)
  PROVE  /\ Overlay!Patched(old, offset, bytes) \in Seq(Nat)
         /\ Len(old) <= Len(Overlay!Patched(old, offset, bytes))
         /\ \A m \in Nat : Len(old) <= m /\ offset + Len(bytes) <= m
                             => Len(Overlay!Patched(old, offset, bytes)) <= m
<1> DEFINE n == Overlay!Max({Len(old), offset + Len(bytes)})
           f == Overlay!Patched(old, offset, bytes)
<1>1. Len(old) \in Nat /\ Len(bytes) \in Nat /\ offset + Len(bytes) \in Nat
  OBVIOUS
<1>2. n = IF Len(old) >= offset + Len(bytes) THEN Len(old) ELSE offset + Len(bytes)
  BY <1>1, OverlayMaxOfTwo
<1> HIDE DEF n
<1>3. /\ n \in Nat /\ Len(old) <= n /\ offset + Len(bytes) <= n
      /\ \A i \in 1 .. n : i \in 1 .. Len(old) \/ i \in offset + 1 .. offset + Len(bytes)
      /\ \A m \in Nat : Len(old) <= m /\ offset + Len(bytes) <= m => n <= m
  BY <1>1, <1>2
<1>4. ASSUME NEW i \in 1 .. n
      PROVE  (IF i \in offset + 1 .. offset + Len(bytes) THEN bytes[i - offset] ELSE old[i]) \in Nat
  <2>1. CASE i \in offset + 1 .. offset + Len(bytes)
    <3>1. i - offset \in 1 .. Len(bytes)
      BY <1>1, <2>1
    <3>2. bytes[i - offset] \in Nat
      BY <3>1
    <3> QED BY <2>1, <3>2
  <2>2. CASE i \notin offset + 1 .. offset + Len(bytes)
    BY <1>3, <2>2
  <2> QED BY <2>1, <2>2
<1>5. f = [i \in 1 .. n |-> IF i \in offset + 1 .. offset + Len(bytes)
                            THEN bytes[i - offset] ELSE old[i]]
  BY Zenon DEF Overlay!Patched, n
<1> HIDE DEF f
<1>6. f \in [1 .. n -> Nat]
  BY <1>4, <1>5
<1>7. f \in Seq(Nat) /\ Len(f) = n
  BY <1>3, <1>6, BytesOf
<1>8. f \in Seq(Nat) /\ Len(old) <= Len(f)
      /\ \A m \in Nat : Len(old) <= m /\ offset + Len(bytes) <= m => Len(f) <= m
  BY <1>3, <1>7
<1> QED BY <1>8 DEF f

LEMMA WriteAtAgrees ==
  ASSUME NEW fs, NEW now, NEW os, Agrees(fs, now, os), DOMAIN now = OverlayPaths,
         NEW p \in OverlayPaths, NEW bytes \in Writes, NEW offset \in Nat
  PROVE  LET r == Overlay!WriteAt(fs, p, offset, bytes)
             next == [now EXCEPT ![p] =
               {Overlay!Patched(b, offset, bytes) : b \in {c \in @ : offset <= Len(c)}}]
         IN Agrees(r.fs, IF r.ok THEN next ELSE now, os)
<1> DEFINE r == Overlay!WriteAt(fs, p, offset, bytes)
           next == [now EXCEPT ![p] =
             {Overlay!Patched(b, offset, bytes) : b \in {c \in @ : offset <= Len(c)}}]
           old == CHOOSE b \in Overlay!Read(fs, p) : TRUE
           new == Overlay!Patched(old, offset, bytes)
           e == Overlay!Extent(fs, p, Len(new), MaxFileSize)
           owner == CHOOSE u \in Overlay!Owner(fs, p) : TRUE
           refused == \/ offset + Len(bytes) > MaxFileSize
                      \/ Overlay!IsDirectory(fs, p)
                      \/ ~Overlay!IsFile(fs, p)
           denied == \/ offset > Len(old)
                     \/ ~Overlay!IsDirectory(fs, Overlay!Parent(p))
                     \/ e.capacity < Len(new)
<1>1. Sound(fs) /\ OverlayTyped(fs) /\ PoolIsShared(fs) /\ Rooted(fs) /\ p \in Words
  BY PathFacts DEF Agrees, Sound
<1>2. r = IF refused THEN Overlay!Fails(fs) ELSE IF denied THEN Overlay!Fails(fs)
      ELSE Overlay!Place(fs, p, new, e, owner)
  BY Zenon DEF Overlay!WriteAt
<1>3. /\ \A q \in OverlayPaths : q # p => next[q] = now[q]
      /\ next[p] = {Overlay!Patched(b, offset, bytes) : b \in {c \in now[p] : offset <= Len(c)}}
  OBVIOUS
<1>4. /\ bytes \in Seq(Nat) /\ Len(bytes) \in Nat /\ PoolSize \in Nat /\ MaxFileSize \in Nat
  BY OverlayAssumption
<1> HIDE DEF r, next, owner
<1>5. CASE refused \/ denied
  <2>1. r.fs = fs /\ r.ok = FALSE
    <3> HIDE DEF refused, denied
    <3> QED BY <1>2, <1>5 DEF Overlay!Fails
  <2> QED BY <2>1 DEF r, next
<1>6. CASE ~refused /\ ~denied
  <2>1. r = Overlay!Place(fs, p, new, e, owner) /\ ~Overlay!IsDirectory(fs, p)
        /\ Overlay!IsFile(fs, p)
    BY <1>2, <1>6
  <2>2. PICK b \in Seq(Nat) : /\ Overlay!Read(fs, p) = {b}
                              /\ Overlay!Kind(fs, p) = "file" => Len(b) <= MaxFileSize
    BY <1>1, <2>1, FileIsRead
  <2>3. old = b
    BY <2>2
  <2> HIDE DEF e
  <2>4. offset <= Len(b) /\ ~(e.capacity < Len(new)) /\ offset + Len(bytes) <= MaxFileSize
    <3> HIDE DEF old, new
    <3> QED BY <1>4, <1>6, <2>3
  <2>5. /\ new \in Seq(Nat)
        /\ \A m \in Nat : Len(b) <= m /\ offset + Len(bytes) <= m => Len(new) <= m
    BY <1>4, <2>3, <2>4, PatchedIs
  <2>6. new = Overlay!Patched(b, offset, bytes) /\ Len(new) \in Nat
    <3>1. new = Overlay!Patched(b, offset, bytes)
      BY <2>3
    <3> HIDE DEF new
    <3> QED BY <2>5, <3>1
  <2> HIDE DEF new, old
  <2>7. /\ e.capacity \in Nat
        /\ e.capacity <= PoolSize - fs.used => ExtentIsFree(fs, p, e)
        /\ Overlay!Kind(fs, p) # "file" \/ e.capacity < Len(new) => e.capacity <= MaxFileSize
    BY <1>1, <1>4, <2>6, ExtentFits DEF e
  <2>8. Len(new) <= e.capacity
    BY <2>4, <2>6, <2>7
  <2>9. Len(new) <= MaxFileSize
    <3>1. CASE Overlay!Kind(fs, p) = "file"
      BY <1>4, <2>2, <2>4, <2>5, <3>1
    <3>2. CASE Overlay!Kind(fs, p) # "file"
      BY <1>4, <2>6, <2>7, <2>8, <3>2
    <3> QED BY <3>1, <3>2
  <2>10. Placed(fs, p, new, r)
    BY <1>1, <2>1, <2>5, <2>7, <2>8, <2>9, PlaceIs
  <2>11. CASE r.ok
    <3>1. /\ OverlayTyped(r.fs) /\ PoolIsShared(r.fs) /\ Replaced(fs, r.fs, p)
          /\ Overlay!Kind(r.fs, p) = "file" /\ Overlay!InPool(r.fs, r.fs.overlay[p]) = new
      BY <2>10, <2>11 DEF Placed
    <3>2. Overlay!Kind(fs, p) # "whiteout"
      BY <1>1, <2>1, Lookup DEF LookedUp
    <3>3. p \notin os => next[p] = {new}
      <4>1. p \notin os => now[p] = {b}
        BY <2>2 DEF Agrees, Believed
      <4>2. {Overlay!Patched(c, offset, bytes) : c \in {d \in {b} : offset <= Len(d)}} = {new}
        BY <2>4, <2>6
      <4> QED BY <1>3, <4>1, <4>2
    <3>4. Agrees(r.fs, next, os)
      <4>1. \A q \in OverlayPaths \ os : q # p => next[q] = now[q]
        BY <1>3
      <4>2. p \notin os => next[p] = {Overlay!InPool(r.fs, r.fs.overlay[p])}
        BY <3>1, <3>3
      <4>3. os \subseteq os
        OBVIOUS
      <4>4. Agrees(fs, now, os) /\ p \in OverlayPaths
        OBVIOUS
      <4> QED BY ONLY <2>1, <3>1, <3>2, <4>1, <4>2, <4>3, <4>4, FileNow
    <3> QED BY <2>11, <3>4 DEF r, next
  <2>12. CASE ~r.ok
    <3>1. Agrees(r.fs, now, os)
      BY <2>10, <2>12, OnlySpaceTaken DEF Placed
    <3> QED BY <2>12, <3>1 DEF r, next
  <2> QED BY <2>11, <2>12
<1> QED BY <1>5, <1>6

LEMMA CreateOneAgrees ==
  ASSUME NEW fs, NEW now, NEW os, Agrees(fs, now, os), NEW p \in OverlayPaths, NEW uid
  PROVE  Agrees(Overlay!CreateOne(fs, p, uid).fs, now, os)
<1> DEFINE r == Overlay!CreateOne(fs, p, uid)
           kind == IF Overlay!ArchiveHasDirectory(p) THEN "opaque" ELSE "directory"
           node == Overlay!Node(kind, uid)
<1>1. OverlayTyped(fs) /\ PoolIsShared(fs) /\ Rooted(fs) /\ StrayAreKnown(fs, os)
      /\ Believed(fs, now, os)
  BY DEF Agrees, Sound
<1>2. r = IF \/ Overlay!IsFile(fs, p) \/ Overlay!IsDirectory(fs, p)
             \/ ~Overlay!IsDirectory(fs, Overlay!Parent(p))
          THEN Overlay!Fails(fs)
          ELSE Overlay!Insert(fs, p, node)
  BY Zenon DEF Overlay!CreateOne
<1> HIDE DEF r
<1>3. CASE r = Overlay!Fails(fs)
  BY <1>3 DEF Overlay!Fails, r
<1>4. CASE ~Exists(fs, p) /\ Overlay!IsDirectory(fs, Overlay!Parent(p))
  <2>1. r = Overlay!Insert(fs, p, node)
    BY <1>2, <1>4, Zenon DEF Exists
  <2>2. kind \in Overlay!Kinds /\ node.kind = kind
    BY DEF Overlay!Kinds, Overlay!Node
  <2>3. Inserted(fs, p, node, r)
    BY <1>1, <2>1, <2>2, InsertBare
  <2> HIDE DEF node
  <2>4. CASE r.ok
    <3>1. OverlayTyped(r.fs) /\ PoolIsShared(r.fs) /\ Replaced(fs, r.fs, p)
          /\ Overlay!Kind(r.fs, p) = kind
      BY <2>2, <2>3, <2>4 DEF Inserted
    <3>2. /\ Rooted(r.fs) /\ StrayAreKnown(r.fs, os)
          /\ \A q \in OverlayPaths : Overlay!Read(r.fs, q) = Overlay!Read(fs, q)
      BY <1>1, <1>4, <3>1, DirectoryPlaced
    <3>3. Believed(r.fs, now, os)
      BY <1>1, <3>2 DEF Believed
    <3> QED BY <3>1, <3>2, <3>3 DEF Agrees, Sound, r
  <2>5. CASE ~r.ok
    BY <2>3, <2>5 DEF Inserted, r
  <2> QED BY <2>4, <2>5
<1> QED BY <1>2, <1>3, <1>4 DEF Exists

\* One directory of a path after the others, as the fold of CreateDirectory.
Made(p, uid, done, n) ==
  IF ~done.ok \/ Overlay!IsDirectory(done.fs, SubSeq(p, 1, n)) THEN done
  ELSE Overlay!CreateOne(done.fs, SubSeq(p, 1, n), uid)
MadeIn(fs, p, uid, ns, f, s) ==
  IF s = {} THEN Overlay!Done(fs) ELSE Made(p, uid, f[s \ {Overlay!Max(s)}], ns[Overlay!Max(s)])
AllMade(fs, p, uid, ns, f, n) == f = [s \in SUBSET (1 .. n) |-> MadeIn(fs, p, uid, ns, f, s)]

LEMMA OverlayMaxOfInterval ==
  ASSUME NEW k \in Nat \ {0}
  PROVE  Overlay!Max(1 .. k) = k
BY DEF Overlay!Max

LEMMA MakingGrows ==
  ASSUME NEW fs, NEW p, NEW uid, NEW ns, NEW n \in Nat, NEW f, AllMade(fs, p, uid, ns, f, n)
  PROVE  \E g : AllMade(fs, p, uid, ns, g, n + 1)
<1> DEFINE g == [s \in SUBSET (1 .. n + 1) |->
                   IF n + 1 \in s THEN Made(p, uid, f[s \ {n + 1}], ns[n + 1]) ELSE f[s]]
<1>1. SUFFICES ASSUME NEW s \in SUBSET (1 .. n + 1) PROVE g[s] = MadeIn(fs, p, uid, ns, g, s)
  <2>1. ASSUME \A s \in SUBSET (1 .. n + 1) : g[s] = MadeIn(fs, p, uid, ns, g, s)
        PROVE  AllMade(fs, p, uid, ns, g, n + 1)
    <3>1. DOMAIN g = SUBSET (1 .. n + 1) /\ g = [s \in DOMAIN g |-> g[s]]
      BY Zenon
    <3> HIDE DEF g
    <3> QED BY <2>1, <3>1 DEF AllMade
  <2> HIDE DEF g
  <2> QED BY <2>1, Zenon
<1>2. CASE n + 1 \in s
  <2>1. Overlay!Max(s) = n + 1
    <3>1. n + 1 \in s /\ \A y \in s : y \in Nat /\ n + 1 >= y
      BY <1>1, <1>2
    <3>2. \A x \in s : x >= n + 1 => x = n + 1
      BY <3>1
    <3> HIDE DEF g
    <3> QED BY <3>1, <3>2 DEF Overlay!Max
  <2>2. s \ {n + 1} \in SUBSET (1 .. n + 1) /\ n + 1 \notin s \ {n + 1}
    OBVIOUS
  <2>3. g[s \ {n + 1}] = f[s \ {n + 1}]
    BY <2>2, Zenon
  <2>4. g[s] = Made(p, uid, f[s \ {n + 1}], ns[n + 1])
    BY <1>2, Zenon
  <2>5. s # {}
    BY <1>2
  <2> HIDE DEF g
  <2> QED BY <2>1, <2>3, <2>4, <2>5 DEF MadeIn
<1>3. CASE n + 1 \notin s
  <2>1. s \in SUBSET (1 .. n)
    BY <1>3
  <2>2. g[s] = f[s]
    BY <1>3, Zenon
  <2>3. f[s] = MadeIn(fs, p, uid, ns, f, s)
    BY <2>1, Zenon DEF AllMade
  <2>4. s \ {Overlay!Max(s)} \in SUBSET (1 .. n + 1) /\ n + 1 \notin s \ {Overlay!Max(s)}
    BY <1>3
  <2>5. g[s \ {Overlay!Max(s)}] = f[s \ {Overlay!Max(s)}]
    BY <2>4, Zenon
  <2> HIDE DEF g
  <2> QED BY <2>2, <2>3, <2>5 DEF MadeIn
<1> QED BY <1>2, <1>3

LEMMA MakingExists ==
  ASSUME NEW fs, NEW p, NEW uid, NEW ns, NEW n \in Nat
  PROVE  \E f : AllMade(fs, p, uid, ns, f, n)
<1> DEFINE Missing == {m \in Nat : ~ \E f : AllMade(fs, p, uid, ns, f, m)}
<1>1. SUFFICES ASSUME Missing # {} PROVE FALSE
  OBVIOUS
<1>2. PICK m \in Missing : \A x \in Missing : m <= x
  BY <1>1, LeastOf, Zenon
<1>3. m # 0
  <2> DEFINE f == [s \in SUBSET (1 .. 0) |-> Overlay!Done(fs)]
  <2>1. \A s \in SUBSET (1 .. 0) : s = {}
    OBVIOUS
  <2>2. \A s \in SUBSET (1 .. 0) : MadeIn(fs, p, uid, ns, f, s) = Overlay!Done(fs)
    BY <2>1 DEF MadeIn
  <2>3. AllMade(fs, p, uid, ns, f, 0)
    BY <2>2 DEF AllMade
  <2> QED BY <2>3
<1>4. m - 1 \in Nat /\ ~(m <= m - 1) /\ m = (m - 1) + 1
  BY <1>3
<1>5. \E f : AllMade(fs, p, uid, ns, f, m - 1)
  BY <1>2, <1>4
<1>6. \E g : AllMade(fs, p, uid, ns, g, m)
  BY <1>4, <1>5, MakingGrows
<1> QED BY <1>6

LEMMA CreateDirectoryAgrees ==
  ASSUME NEW fs, NEW now, NEW os, Agrees(fs, now, os), NEW p \in OverlayPaths,
         NEW parents \in BOOLEAN, NEW uid
  PROVE  Agrees(Overlay!CreateDirectory(fs, p, parents, uid).fs, now, os)
<1>1. CASE ~parents
  BY <1>1, CreateOneAgrees DEF Overlay!CreateDirectory
<1>2. CASE parents
  <2> DEFINE ns == [n \in 1 .. Len(p) |-> n]
             F == CHOOSE f : f = [s \in SUBSET (DOMAIN ns) |-> MadeIn(fs, p, uid, ns, f, s)]
             Wrong == {k \in Nat : k <= Len(p) /\ ~Agrees(F[1 .. k].fs, now, os)}
  <2>1. Overlay!CreateDirectory(fs, p, parents, uid) = F[DOMAIN ns]
    BY <1>2 DEF Overlay!CreateDirectory, Overlay!FoldLeft, Overlay!MapThenFoldSet, MadeIn, Made
  <2>2. p \in Words /\ Len(p) \in Nat /\ DOMAIN ns = 1 .. Len(p)
    BY PathFacts, PathIs
  <2>3. \A k \in 1 .. Len(p) : ns[k] = k
    OBVIOUS
  <2>4. \A k \in 1 .. Len(p) : SubSeq(p, 1, k) \in OverlayPaths
    BY OverlayAssumption
  <2> HIDE DEF ns
  <2>5. F = [s \in SUBSET (1 .. Len(p)) |-> MadeIn(fs, p, uid, ns, F, s)]
    <3>1. PICK f : AllMade(fs, p, uid, ns, f, Len(p))
      BY <2>2, MakingExists
    <3> QED BY <2>2, <3>1, Zenon DEF AllMade
  <2> HIDE DEF F
  <2>6. \A s \in SUBSET (1 .. Len(p)) : F[s] = MadeIn(fs, p, uid, ns, F, s)
    BY <2>5, Zenon
  <2>7. Wrong = {}
    <3>1. SUFFICES ASSUME Wrong # {} PROVE FALSE
      OBVIOUS
    <3>2. PICK k \in Wrong : \A x \in Wrong : k <= x
      BY <3>1, LeastOf, Zenon
    <3>3. CASE k = 0
      <4>1. 1 .. 0 = {} /\ {} \in SUBSET (1 .. Len(p))
        OBVIOUS
      <4>2. F[1 .. 0] = Overlay!Done(fs)
        BY <2>6, <4>1 DEF MadeIn
      <4>3. F[1 .. 0].fs = fs
        BY <4>2 DEF Overlay!Done
      <4> QED BY <3>2, <3>3, <4>3
    <3>4. CASE k # 0
      <4>1. k \in Nat \ {0} /\ k \in 1 .. Len(p) /\ k - 1 \in Nat /\ k - 1 <= Len(p) /\ ~(k <= k - 1)
        BY <2>2, <3>2, <3>4
      <4>2. Overlay!Max(1 .. k) = k
        BY <4>1, OverlayMaxOfInterval
      <4>3. (1 .. k) \ {k} = 1 .. k - 1 /\ 1 .. k # {} /\ 1 .. k \in SUBSET (1 .. Len(p))
        <5> HIDE DEF Wrong
        <5>1. k \in 1 .. k /\ \A x \in 1 .. k : x \in 1 .. Len(p)
          BY <2>2, <4>1
        <5>2. \A x : x \in (1 .. k) \ {k} <=> x \in 1 .. k - 1
          BY <4>1
        <5> QED BY <5>1, <5>2
      <4>4. F[1 .. k] = Made(p, uid, F[1 .. k - 1], k)
        BY <2>3, <2>6, <4>1, <4>2, <4>3 DEF MadeIn
      <4>5. Agrees(F[1 .. k - 1].fs, now, os)
        BY <3>2, <4>1
      <4> DEFINE done == F[1 .. k - 1]
                 q == SubSeq(p, 1, k)
      <4>6. F[1 .. k] = done \/ F[1 .. k] = Overlay!CreateOne(done.fs, q, uid)
        BY <4>4 DEF Made
      <4>7. q \in OverlayPaths
        BY <2>4, <4>1
      <4>8. Agrees(Overlay!CreateOne(done.fs, q, uid).fs, now, os)
        <5> HIDE DEF q, done
        <5>1. Agrees(done.fs, now, os)
          BY <4>5 DEF done
        <5> QED BY <4>7, <5>1, CreateOneAgrees
      <4>9. Agrees(F[1 .. k].fs, now, os)
        BY <4>5, <4>6, <4>8
      <4> QED BY <3>2, <4>9
    <3> QED BY <3>3, <3>4
  <2>8. Agrees(F[1 .. Len(p)].fs, now, os)
    BY <2>2, <2>7
  <2> QED BY <2>1, <2>2, <2>8
<1> QED BY <1>1, <1>2

LEMMA RemoveAgrees ==
  ASSUME NEW fs, NEW now, NEW os, Agrees(fs, now, os), NEW p \in OverlayPaths,
         NEW recursive \in BOOLEAN
  PROVE  LET r == Overlay!RemovePath(fs, p, recursive)
             next == [q \in OverlayPaths |-> IF q = p \/ Overlay!Under(q, p) THEN {} ELSE now[q]]
             more == IF ~r.ok THEN os
                     ELSE IF ~Overlay!InArchive(p) THEN {q \in os : q # p /\ ~Overlay!Under(q, p)}
                     ELSE (os \ {p})
                          \cup {q \in DOMAIN fs.overlay :
                                  Overlay!Under(q, p) /\ Overlay!Kind(fs, q) # "whiteout"}
         IN Agrees(r.fs, IF r.ok THEN next ELSE now, more)
<1> DEFINE r == Overlay!RemovePath(fs, p, recursive)
           next == [q \in OverlayPaths |-> IF q = p \/ Overlay!Under(q, p) THEN {} ELSE now[q]]
           covered == (os \ {p})
                      \cup {q \in DOMAIN fs.overlay :
                              Overlay!Under(q, p) /\ Overlay!Kind(fs, q) # "whiteout"}
           kept == {q \in os : q # p /\ ~Overlay!Under(q, p)}
           more == IF ~r.ok THEN os ELSE IF ~Overlay!InArchive(p) THEN kept ELSE covered
           node == Overlay!Node("whiteout", 0)
           refused == \/ ~Overlay!IsFile(fs, p) /\ ~Overlay!IsDirectory(fs, p)
                      \/ Overlay!IsDirectory(fs, p) /\ Overlay!Listed(fs, p, FALSE) # {} /\ ~recursive
<1>1. /\ OverlayTyped(fs) /\ PoolIsShared(fs) /\ Rooted(fs) /\ StrayAreKnown(fs, os)
      /\ Believed(fs, now, os) /\ p \in Words
  BY PathFacts DEF Agrees, Sound
<1>2. r = IF refused THEN Overlay!Fails(fs)
          ELSE IF Overlay!InArchive(p) THEN Overlay!Insert(fs, p, node)
          ELSE Overlay!Done(Overlay!Cleared(fs, p))
  BY Zenon DEF Overlay!RemovePath
<1>3. \A q \in OverlayPaths : next[q] = IF q = p \/ Overlay!Under(q, p) THEN {} ELSE now[q]
  OBVIOUS
<1> HIDE DEF r, next, refused
<1>4. SUFFICES Agrees(r.fs, IF r.ok THEN next ELSE now, more)
  BY DEF r, next
<1>5. CASE r.fs = fs /\ ~r.ok
  BY <1>5
<1>6. CASE refused
  <2>1. r.fs = fs /\ r.ok = FALSE
    BY <1>2, <1>6 DEF Overlay!Fails
  <2> QED BY <1>5, <2>1
<1>7. CASE ~refused /\ Overlay!InArchive(p)
  <2>1. r = Overlay!Insert(fs, p, node)
    BY <1>2, <1>7
  <2>2. Inserted(fs, p, node, r) /\ node.kind = "whiteout"
    BY <1>1, <2>1, InsertBare DEF Overlay!Kinds, Overlay!Node
  <2> HIDE DEF node
  <2>3. CASE r.ok
    <3>1. /\ OverlayTyped(r.fs) /\ PoolIsShared(r.fs) /\ Replaced(fs, r.fs, p)
          /\ Overlay!Kind(r.fs, p) = "whiteout" /\ more = covered
      BY <1>7, <2>2, <2>3 DEF Inserted
    <3> HIDE DEF more
    <3>2. /\ Rooted(r.fs) /\ StrayAreKnown(r.fs, more)
          /\ \A q \in OverlayPaths \ more :
               /\ q = p \/ Overlay!Under(q, p) => Overlay!Read(r.fs, q) = {}
               /\ q # p /\ ~Overlay!Under(q, p) => Overlay!Read(r.fs, q) = Overlay!Read(fs, q)
      BY <1>1, <1>7, <3>1, WhiteoutPlaced
    <3>3. Believed(r.fs, next, more)
      BY <1>1, <1>3, <3>1, <3>2 DEF Believed
    <3> QED BY <2>3, <3>1, <3>2, <3>3 DEF Agrees, Sound
  <2>4. CASE ~r.ok
    BY <1>5, <2>2, <2>4 DEF Inserted
  <2> QED BY <2>3, <2>4
<1>8. CASE ~refused /\ ~Overlay!InArchive(p)
  <2> DEFINE gs == Overlay!Cleared(fs, p)
             left == {q \in DOMAIN fs.overlay : q # p /\ ~Overlay!Under(q, p)}
  <2>1. r.fs = gs /\ r.ok = TRUE /\ more = kept
    <3>1. r = Overlay!Done(gs)
      BY <1>2, <1>8
    <3> HIDE DEF gs
    <3> QED BY <1>8, <3>1 DEF Overlay!Done
  <2>2. /\ gs.overlay = [q \in left |-> fs.overlay[q]] /\ gs.pool = fs.pool /\ gs.used = fs.used
        /\ gs = [overlay |-> gs.overlay, pool |-> gs.pool, used |-> gs.used]
    <3>1. DOMAIN fs = {"overlay", "pool", "used"}
      <4>1. fs = [overlay |-> fs.overlay, pool |-> fs.pool, used |-> fs.used]
        BY <1>1 DEF OverlayTyped
      <4> QED BY <4>1
    <3> QED BY <3>1 DEF Overlay!Cleared
  <2> HIDE DEF gs, more
  <2>3. OverlayTyped(gs)
    BY <1>1, <2>2 DEF OverlayTyped
  <2>4. \A q \in Files(gs) : q \in Files(fs) /\ gs.overlay[q] = fs.overlay[q]
    BY <2>2 DEF Files
  <2>5. PoolIsShared(gs)
    BY <1>1, <2>2, <2>4 DEF PoolIsShared
  <2>6. ASSUME NEW q \in Words
        PROVE  IF q = p \/ Overlay!Under(q, p) THEN Overlay!Kind(gs, q) = "none"
               ELSE SameNode(fs, gs, q)
    <3>1. CASE q = p \/ Overlay!Under(q, p)
      BY <2>2, <3>1 DEF Overlay!Kind, Overlay!HasNode
    <3>2. CASE ~(q = p \/ Overlay!Under(q, p))
      <4>1. Overlay!Kind(gs, q) = Overlay!Kind(fs, q)
        BY <2>2, <3>2 DEF Overlay!Kind, Overlay!HasNode
      <4>2. Overlay!Kind(fs, q) = "file"
            => Overlay!InPool(gs, gs.overlay[q]) = Overlay!InPool(fs, fs.overlay[q])
        BY <2>2, <3>2 DEF Overlay!Kind, Overlay!HasNode, Overlay!InPool
      <4> QED BY <3>2, <4>1, <4>2 DEF SameNode
    <3> QED BY <3>1, <3>2
  <2>7. /\ Rooted(gs) /\ StrayAreKnown(gs, kept)
        /\ \A q \in OverlayPaths :
             /\ q = p \/ Overlay!Under(q, p) => Overlay!Read(gs, q) = {}
             /\ q # p /\ ~Overlay!Under(q, p) => Overlay!Read(gs, q) = Overlay!Read(fs, q)
    BY <1>1, <1>8, <2>3, <2>6, ClearedIs
  <2>8. Believed(gs, next, kept)
    <3>1. SUFFICES ASSUME NEW q \in OverlayPaths \ kept PROVE Overlay!Read(gs, q) = next[q]
      BY DEF Believed
    <3>2. CASE q = p \/ Overlay!Under(q, p)
      BY <1>3, <2>7, <3>2
    <3>3. CASE q # p /\ ~Overlay!Under(q, p)
      BY <1>1, <1>3, <2>7, <3>3 DEF Believed
    <3> QED BY <3>2, <3>3
  <2> QED BY <2>1, <2>3, <2>5, <2>7, <2>8 DEF Agrees, Sound
<1> QED BY <1>6, <1>7, <1>8

-----------------------------------------------------------------------------
(* The invariant.                                                          *)

LEMMA MountedAgrees ==
  Agrees(Overlay!Mounted, [p \in OverlayPaths |-> Overlay!Read(Overlay!Mounted, p)], {})
<1>1. /\ Overlay!Mounted.overlay = [p \in {} |-> Overlay!Node("file", 0)] /\ Overlay!Mounted.used = 0
      /\ Overlay!Mounted.pool = [i \in 1 .. PoolSize |-> 0]
      /\ Overlay!Mounted = [overlay |-> Overlay!Mounted.overlay, pool |-> Overlay!Mounted.pool,
         used |-> Overlay!Mounted.used]
  BY DEF Overlay!Mounted
<1>2. DOMAIN Overlay!Mounted.overlay = {}
  BY <1>1
<1>3. OverlayTyped(Overlay!Mounted)
  <2>1. PoolSize \in Nat
    BY OverlayAssumption
  <2> QED BY <1>1, <1>2, <2>1 DEF OverlayTyped
<1>4. PoolIsShared(Overlay!Mounted) /\ Rooted(Overlay!Mounted)
  BY <1>2 DEF PoolIsShared, Rooted, Files
<1>5. \A q \in Words : Overlay!Kind(Overlay!Mounted, q) = "none" /\ ~Above(Overlay!Mounted, q)
      /\ LookedUp(Overlay!Mounted, q)
  BY <1>2, <1>3, <1>4, Lookup DEF Overlay!Kind, Overlay!HasNode, Above
<1>6. ASSUME NEW p \in OverlayPaths, Exists(Overlay!Mounted, p)
      PROVE  Overlay!IsDirectory(Overlay!Mounted, Overlay!Parent(p))
  <2>1. p \in Words /\ Overlay!Parent(p) \in Words /\ Overlay!Under(p, Overlay!Parent(p))
    BY PathFacts, ParentFacts
  <2>2. Overlay!InArchive(p)
    BY <1>5, <1>6, <2>1 DEF LookedUp, Exists, Overlay!InArchive
  <2> QED BY <1>5, <2>1, <2>2, ArchiveUp DEF LookedUp
<1>7. StrayAreKnown(Overlay!Mounted, {})
  BY <1>6 DEF StrayAreKnown
<1>8. Believed(Overlay!Mounted, [p \in OverlayPaths |-> Overlay!Read(Overlay!Mounted, p)], {})
  BY DEF Believed
<1> QED BY <1>3, <1>4, <1>7, <1>8 DEF Agrees, Sound

LEMMA OverlayInvInit ==
  ASSUME Overlay!RamFsInit
  PROVE  OverlayInv
<1>1. ramfs = Overlay!Mounted
      /\ expected = [p \in OverlayPaths |-> Overlay!Read(Overlay!Mounted, p)] /\ orphans = {}
  BY DEF Overlay!RamFsInit
<1>2. DOMAIN expected = OverlayPaths
  BY <1>1
<1> QED BY <1>1, <1>2, MountedAgrees DEF OverlayInv

LEMMA OverlayInvNext ==
  ASSUME OverlayInv, Overlay!RamFsNext
  PROVE  OverlayInv'
<1>1. Agrees(ramfs, expected, orphans) /\ DOMAIN expected = OverlayPaths
  BY DEF OverlayInv
<1>2. CASE Overlay!CallCreateFile
  <2>1. PICK p \in OverlayPaths, uid \in Users :
          /\ Overlay!Called(Overlay!CreateFile(ramfs, p, uid),
                    [expected EXCEPT ![p] = IF @ = {} THEN {<<>>} ELSE @])
          /\ orphans' = orphans \cup Overlay!Uncovered(ramfs', p)
    BY <1>2 DEF Overlay!CallCreateFile
  <2> DEFINE r == Overlay!CreateFile(ramfs, p, uid)
             next == [expected EXCEPT ![p] = IF @ = {} THEN {<<>>} ELSE @]
  <2>2. Agrees(r.fs, IF r.ok THEN next ELSE expected, orphans \cup Overlay!Uncovered(r.fs, p))
    BY <1>1, CreateFileAgrees
  <2>3. Overlay!Called(r, next)
    BY <2>1
  <2>4. DOMAIN next = OverlayPaths
    BY <1>1
  <2> HIDE DEF r, next
  <2>5. ramfs' = r.fs /\ expected' = IF r.ok THEN next ELSE expected
    BY <2>3 DEF Overlay!Called
  <2> QED BY <1>1, <2>1, <2>2, <2>4, <2>5 DEF OverlayInv
<1>3. CASE Overlay!CallWriteFile
  <2>1. PICK p \in OverlayPaths, bytes \in Writes, uid \in Users :
          /\ Overlay!Called(Overlay!WriteFile(ramfs, p, bytes, uid), [expected EXCEPT ![p] = {bytes}])
          /\ orphans' = orphans \cup Overlay!Uncovered(ramfs', p)
    BY <1>3 DEF Overlay!CallWriteFile
  <2> DEFINE r == Overlay!WriteFile(ramfs, p, bytes, uid)
             next == [expected EXCEPT ![p] = {bytes}]
  <2>2. Agrees(r.fs, IF r.ok THEN next ELSE expected, orphans \cup Overlay!Uncovered(r.fs, p))
    BY <1>1, WriteFileAgrees
  <2>3. Overlay!Called(r, next)
    BY <2>1
  <2>4. DOMAIN next = OverlayPaths
    BY <1>1
  <2> HIDE DEF r, next
  <2>5. ramfs' = r.fs /\ expected' = IF r.ok THEN next ELSE expected
    BY <2>3 DEF Overlay!Called
  <2> QED BY <1>1, <2>1, <2>2, <2>4, <2>5 DEF OverlayInv
<1>4. CASE Overlay!CallWriteAt
  <2>1. PICK p \in OverlayPaths, bytes \in Writes, offset \in 0 .. MaxFileSize :
          /\ Overlay!Called(Overlay!WriteAt(ramfs, p, offset, bytes),
                    [expected EXCEPT ![p] =
                      {Overlay!Patched(b, offset, bytes) : b \in {c \in @ : offset <= Len(c)}}])
          /\ UNCHANGED orphans
    BY <1>4 DEF Overlay!CallWriteAt
  <2> DEFINE r == Overlay!WriteAt(ramfs, p, offset, bytes)
             next == [expected EXCEPT ![p] =
               {Overlay!Patched(b, offset, bytes) : b \in {c \in @ : offset <= Len(c)}}]
  <2>2. offset \in Nat
    OBVIOUS
  <2>3. Agrees(r.fs, IF r.ok THEN next ELSE expected, orphans)
    BY <1>1, <2>2, WriteAtAgrees
  <2>4. Overlay!Called(r, next)
    BY <2>1
  <2>5. DOMAIN next = OverlayPaths
    BY <1>1
  <2> HIDE DEF r, next
  <2>6. ramfs' = r.fs /\ expected' = IF r.ok THEN next ELSE expected
    BY <2>4 DEF Overlay!Called
  <2> QED BY <1>1, <2>1, <2>3, <2>5, <2>6 DEF OverlayInv
<1>5. CASE Overlay!CallCreateDirectory
  <2>1. PICK p \in OverlayPaths, parents \in BOOLEAN, uid \in Users :
          Overlay!Called(Overlay!CreateDirectory(ramfs, p, parents, uid), expected)
          /\ UNCHANGED orphans
    BY <1>5 DEF Overlay!CallCreateDirectory
  <2> DEFINE r == Overlay!CreateDirectory(ramfs, p, parents, uid)
  <2>2. Agrees(r.fs, expected, orphans)
    BY <1>1, CreateDirectoryAgrees
  <2>3. Overlay!Called(r, expected)
    BY <2>1
  <2> HIDE DEF r
  <2>4. ramfs' = r.fs /\ expected' = expected
    BY <2>3 DEF Overlay!Called
  <2> QED BY <1>1, <2>1, <2>2, <2>4 DEF OverlayInv
<1>6. CASE Overlay!CallRemove
  <2>1. PICK p \in OverlayPaths, recursive \in BOOLEAN :
          LET r == Overlay!RemovePath(ramfs, p, recursive)
          IN /\ Overlay!Called(r,
                [q \in OverlayPaths |-> IF q = p \/ Overlay!Under(q, p) THEN {} ELSE expected[q]])
             /\ orphans' = IF ~r.ok THEN orphans
                           ELSE IF ~Overlay!InArchive(p)
                           THEN {q \in orphans : q # p /\ ~Overlay!Under(q, p)}
                           ELSE (orphans \ {p})
                                \cup {q \in DOMAIN ramfs.overlay :
                                        Overlay!Under(q, p) /\ Overlay!Kind(ramfs, q) # "whiteout"}
    BY <1>6, Zenon DEF Overlay!CallRemove
  <2> DEFINE r == Overlay!RemovePath(ramfs, p, recursive)
             next == [q \in OverlayPaths |-> IF q = p \/ Overlay!Under(q, p) THEN {} ELSE expected[q]]
             more == IF ~r.ok THEN orphans
                     ELSE IF ~Overlay!InArchive(p)
                     THEN {q \in orphans : q # p /\ ~Overlay!Under(q, p)}
                     ELSE (orphans \ {p})
                          \cup {q \in DOMAIN ramfs.overlay :
                                  Overlay!Under(q, p) /\ Overlay!Kind(ramfs, q) # "whiteout"}
  <2>2. Agrees(r.fs, IF r.ok THEN next ELSE expected, more)
    BY <1>1, RemoveAgrees
  <2>3. Overlay!Called(r, next) /\ orphans' = more
    BY <2>1, Zenon
  <2>4. DOMAIN next = OverlayPaths
    OBVIOUS
  <2> HIDE DEF r, next, more
  <2>5. ramfs' = r.fs /\ expected' = IF r.ok THEN next ELSE expected
    BY <2>3 DEF Overlay!Called
  <2> QED BY <1>1, <2>2, <2>3, <2>4, <2>5 DEF OverlayInv
<1> QED BY <1>2, <1>3, <1>4, <1>5, <1>6 DEF Overlay!RamFsNext

-----------------------------------------------------------------------------
(* What it says of the callers.                                            *)

LEMMA TwoHalves ==
  ASSUME NEW b \in Seq(Nat), NEW n \in 0 .. Len(b)
  PROVE  SubSeq(b, 1, n) \o SubSeq(b, n + 1, Len(b)) = b
<1> DEFINE x == SubSeq(b, 1, n)
           y == SubSeq(b, n + 1, Len(b))
           c == x \o y
<1>1. Len(b) \in Nat /\ n \in Nat /\ n <= Len(b) /\ \A i \in 1 .. Len(b) : b[i] \in Nat
  OBVIOUS
<1>2. /\ x \in Seq(Nat) /\ Len(x) = n /\ \A i \in 1 .. n : x[i] = b[i]
      /\ y \in Seq(Nat) /\ Len(y) = Len(b) - n
      /\ \A i \in 1 .. Len(b) - n : y[i] = b[n + i]
  BY <1>1, SubSeqProperties
<1> HIDE DEF x, y
<1>3. /\ c \in Seq(Nat) /\ Len(c) = Len(x) + Len(y)
      /\ \A i \in 1 .. Len(x) + Len(y) : c[i] = IF i <= Len(x) THEN x[i] ELSE y[i - Len(x)]
  BY <1>2, ConcatProperties, Zenon
<1> HIDE DEF c
<1>4. Len(c) = Len(b) /\ \A i \in 1 .. Len(b) : c[i] = IF i <= n THEN x[i] ELSE y[i - n]
  BY <1>1, <1>2, <1>3
<1>5. ASSUME NEW i \in 1 .. Len(b)
      PROVE  c[i] = b[i]
  <2>1. CASE i <= n
    BY <1>1, <1>2, <1>4, <2>1
  <2>2. CASE i > n
    <3>1. i - n \in 1 .. Len(b) - n /\ n + (i - n) = i /\ ~(i <= n)
      BY <1>1, <2>2
    <3> QED BY <1>2, <1>4, <3>1
  <2> QED BY <1>1, <2>1, <2>2
<1>6. c = b
  BY <1>3, <1>4, <1>5, SeqEqual
<1> QED BY <1>6, Zenon DEF c, x, y

LEMMA TwoRanges ==
  ASSUME NEW b \in Seq(Nat), NEW n \in Nat, NEW room \in Nat, Len(b) <= room
  PROVE  SubSeq(b, 1, Overlay!Min({n, Len(b)}))
           \o SubSeq(b, n + 1, Overlay!Min({n + room, Len(b)})) = b
<1> DEFINE k == Overlay!Min({n, Len(b)})
           m == Overlay!Min({n + room, Len(b)})
<1>1. Len(b) \in Nat /\ n + room \in Nat /\ Len(b) <= n + room
  OBVIOUS
<1>2. m = Len(b)
  <2>1. m = IF n + room <= Len(b) THEN n + room ELSE Len(b)
    BY <1>1, MinOfTwo
  <2> HIDE DEF m
  <2> QED BY <1>1, <2>1
<1>3. k = IF n <= Len(b) THEN n ELSE Len(b)
  BY <1>1, MinOfTwo
<1> HIDE DEF k, m
<1>4. CASE n <= Len(b)
  <2>1. n \in 0 .. Len(b) /\ k = n
    BY <1>1, <1>3, <1>4
  <2>2. SubSeq(b, 1, n) \o SubSeq(b, n + 1, Len(b)) = b
    BY <2>1, TwoHalves
  <2> QED BY <1>2, <2>1, <2>2, Zenon DEF k, m
<1>5. CASE ~(n <= Len(b))
  <2>1. k = Len(b) /\ n + 1 \in Int /\ Len(b) < n + 1
    BY <1>1, <1>3, <1>5
  <2>2. SubSeq(b, 1, Len(b)) = b
    BY SubSeqFull
  <2>3. SubSeq(b, n + 1, Len(b)) = <<>>
    BY <1>1, <2>1, SubSeqEmpty
  <2>4. b \o <<>> = b
    BY ConcatEmptySeq
  <2>5. SubSeq(b, 1, Len(b)) \o SubSeq(b, n + 1, Len(b)) = b
    BY <2>2, <2>3, <2>4, Zenon
  <2> QED BY <1>2, <2>1, <2>5, Zenon DEF k, m
<1> QED BY <1>4, <1>5, Zenon

LEMMA ReadsFollow ==
  ASSUME OverlayInv
  PROVE  Overlay!ReadsWhatWasWritten
<1>1. \A p \in OverlayPaths \ orphans : Overlay!Read(ramfs, p) = expected[p]
  BY DEF OverlayInv, Agrees, Believed
<1>2. ASSUME NEW p \in OverlayPaths \ orphans, NEW n \in 0 .. MaxFileSize, NEW bytes \in expected[p]
      PROVE  \E a \in Overlay!ReadAt(ramfs, p, 0, n),
                b \in Overlay!ReadAt(ramfs, p, n, Overlay!LargestFile) : bytes = a \o b
  <2>1. bytes \in Overlay!Read(ramfs, p) /\ Overlay!Read(ramfs, p) # {} /\ Sound(ramfs) /\ p \in Words
    BY <1>1, PathFacts DEF OverlayInv, Agrees
  <2>2. PICK t \in Seq(Nat) : Overlay!Read(ramfs, p) = {t} /\ Len(t) <= Overlay!LargestFile
    BY <2>1, FileIsRead DEF Overlay!IsFile
  <2>3. n \in Nat /\ Overlay!LargestFile \in Nat /\ 0 + 1 = 1 /\ 0 + n = n
    BY OverlayAssumption DEF Overlay!LargestFile
  <2> DEFINE x == SubSeq(t, 1, Overlay!Min({n, Len(t)}))
             y == SubSeq(t, n + 1, Overlay!Min({n + Overlay!LargestFile, Len(t)}))
  <2>4. x \in Overlay!ReadAt(ramfs, p, 0, n)
    BY <2>2, <2>3 DEF Overlay!ReadAt
  <2>5. y \in Overlay!ReadAt(ramfs, p, n, Overlay!LargestFile)
    BY <2>2, <2>3 DEF Overlay!ReadAt
  <2>6. x \o y = t
    BY <2>2, <2>3, TwoRanges, Zenon
  <2> HIDE DEF x, y
  <2>7. bytes = t
    BY <2>1, <2>2
  <2> QED BY <2>4, <2>5, <2>6, <2>7, Zenon
<1> QED BY <1>1, <1>2, Zenon DEF Overlay!ReadsWhatWasWritten

\* What is in the table below a path that is not there has lost its directory.
LEMMA NoStrayBelow ==
  ASSUME OverlayInv, orphans = {}, NEW p \in OverlayPaths, NEW q \in OverlayPaths,
         Overlay!Under(q, p), Exists(ramfs, q)
  PROVE  Exists(ramfs, p)
<1> DEFINE Below == {r \in OverlayPaths : Overlay!Under(r, p) /\ Exists(ramfs, r)}
           Lengths == {Len(r) : r \in Below}
<1>1. StrayAreKnown(ramfs, {}) /\ OverlayPaths \subseteq Words /\ Overlay!Root \notin OverlayPaths
  BY PathFacts DEF OverlayInv, Agrees
<1>2. Lengths \subseteq Nat /\ Lengths # {}
  BY <1>1, PathIs
<1>3. PICK m \in Lengths : \A x \in Lengths : m <= x
  BY <1>2, LeastOf
<1>4. PICK r \in Below : m = Len(r)
  BY <1>3
<1>5. r \in OverlayPaths /\ r \in Words /\ r # Overlay!Root /\ Overlay!Under(r, p) /\ Exists(ramfs, r)
  BY <1>1, <1>4
<1>6. /\ Overlay!Parent(r) \in Words /\ Len(r) = Len(Overlay!Parent(r)) + 1
         /\ Len(Overlay!Parent(r)) \in Nat
      /\ Overlay!Under(r, Overlay!Parent(r))
      /\ p = Overlay!Parent(r) \/ Overlay!Under(Overlay!Parent(r), p)
  BY <1>1, <1>5, ParentFacts, PathIs
<1>7. Exists(ramfs, Overlay!Parent(r))
  BY <1>1, <1>5 DEF StrayAreKnown, Exists
<1>8. CASE Overlay!Under(Overlay!Parent(r), p) /\ p # Overlay!Parent(r)
  <2>1. Overlay!Parent(r) # Overlay!Root
    BY <1>1, <1>6, <1>8, UnderOrder
  <2>2. Overlay!Parent(r) \in OverlayPaths
    BY <1>5, <1>6, <2>1, PathsAreClosed
  <2>3. ~(m <= Len(Overlay!Parent(r)))
    BY <1>4, <1>6
  <2> QED BY <1>3, <1>7, <1>8, <2>2, <2>3
<1> QED BY <1>6, <1>7, <1>8

LEMMA ListingsFollow ==
  ASSUME OverlayInv
  PROVE  Overlay!ListingsAreTrue
<1> DEFINE fs == ramfs
<1>1. SUFFICES ASSUME orphans = {}, NEW p \in OverlayPaths
               PROVE  Exists(fs, p)
                      <=> Overlay!Last(p) \in Overlay!Listed(fs, Overlay!Parent(p), TRUE)
  BY Zenon DEF Overlay!ListingsAreTrue, Exists
<1>2. OverlayTyped(fs) /\ Rooted(fs) /\ StrayAreKnown(fs, {})
      /\ DOMAIN fs.overlay \subseteq OverlayPaths
  BY <1>1 DEF OverlayInv, Agrees, Sound, OverlayTyped
<1> DEFINE d == Overlay!Parent(p)
           name == Overlay!Last(p)
           nodes == {q \in DOMAIN fs.overlay : Overlay!Kind(fs, q) # "whiteout"
           /\ Overlay!Under(q, d)}
           fromArchive == {n \in Overlay!ArchiveChildren(d) :
                             /\ Overlay!Kind(fs, d) # "opaque"
                             /\ ~Overlay!Hidden(fs, Append(d, n)) /\ Overlay!Shown(n, TRUE)}
           fromNodes == {n \in {q[Len(d) + 1] : q \in nodes} : Overlay!Shown(n, TRUE)}
<1>3. Overlay!Listed(fs, d, TRUE) =
        IF ~Overlay!IsDirectory(fs, d) THEN {} ELSE fromArchive \cup fromNodes
  BY Zenon DEF Overlay!Listed
<1>4. /\ p \in Words /\ p # Overlay!Root /\ d \in Words /\ Overlay!Under(p, d) /\ Append(d, name) = p
      /\ p[Len(d) + 1] = name
  BY PathFacts, ParentFacts
<1>5. \A r \in Words : Overlay!Under(r, d) /\ r[Len(d) + 1] = name <=> r = p \/ Overlay!Under(r, p)
  BY <1>4, StartsWith
<1>6. LookedUp(fs, p) /\ Overlay!Kind(fs, p) \in Overlay!Kinds \cup {"none"}
      /\ (Overlay!HasNode(fs, p) <=> Overlay!Kind(fs, p) # "none")
      /\ (Overlay!Hidden(fs, p)
         <=> Overlay!Kind(fs, p) = "whiteout" \/ (Overlay!Kind(fs, p) = "none" /\ Above(fs, p)))
  BY <1>2, <1>4, Lookup, KindIs, HiddenIs
<1>7. name \in Overlay!ArchiveChildren(d) <=> Overlay!InArchive(p)
  <2>1. ArchiveFiles \cup ArchiveDirectories \subseteq Words
    BY PathFacts
  <2>2. name \in Overlay!ArchiveChildren(d)
          <=> \E r \in ArchiveFiles \cup ArchiveDirectories : Overlay!Under(r, d)
          /\ r[Len(d) + 1] = name
    BY DEF Overlay!ArchiveChildren
  <2>3. name \in Overlay!ArchiveChildren(d)
          <=> \E r \in ArchiveFiles \cup ArchiveDirectories : r = p \/ Overlay!Under(r, p)
    BY <1>5, <2>1, <2>2
  <2> QED BY <1>4, <2>3 DEF Overlay!InArchive, Overlay!ArchiveHasDirectory
<1>8. name \in fromArchive
      <=> Overlay!InArchive(p) /\ Overlay!Kind(fs, d) # "opaque" /\ ~Overlay!Hidden(fs, p)
  BY <1>4, <1>7 DEF Overlay!Shown
<1>9. name \in fromNodes <=> \E q \in DOMAIN fs.overlay :
                               Overlay!Kind(fs, q) # "whiteout" /\ (q = p \/ Overlay!Under(q, p))
  <2>1. DOMAIN fs.overlay \subseteq Words
    BY <1>2, PathFacts
  <2>2. name \in fromNodes <=> \E q \in nodes : q[Len(d) + 1] = name
    BY DEF Overlay!Shown
  <2> QED BY <1>5, <2>1, <2>2
<1> HIDE DEF fromArchive, fromNodes, nodes, d, name
<1>10. ASSUME Exists(fs, p)
       PROVE  name \in Overlay!Listed(fs, d, TRUE)
  <2>1. Overlay!IsDirectory(fs, d)
    BY <1>2, <1>10 DEF StrayAreKnown, d
  <2>2. CASE Overlay!Kind(fs, p) # "none"
    <3>1. Overlay!Kind(fs, p) # "whiteout" /\ p \in DOMAIN fs.overlay
      BY <1>6, <1>10, <2>2 DEF LookedUp, Exists, Overlay!HasNode
    <3> QED BY <1>3, <1>9, <2>1, <3>1
  <2>3. CASE Overlay!Kind(fs, p) = "none"
    <3>1. ~Above(fs, p) /\ Overlay!InArchive(p)
      BY <1>6, <1>10, <2>3 DEF LookedUp, Exists, Overlay!InArchive
    <3>2. Overlay!Kind(fs, d) # "opaque"
      BY <1>4, <3>1 DEF Above
    <3> QED BY <1>3, <1>6, <1>8, <2>1, <2>3, <3>1, <3>2
  <2> QED BY <2>2, <2>3
<1>11. ASSUME name \in Overlay!Listed(fs, d, TRUE)
       PROVE  Exists(fs, p)
  <2>1. name \in fromArchive \/ name \in fromNodes
    BY <1>3, <1>11
  <2>2. CASE name \in fromArchive
    <3>1. Overlay!InArchive(p) /\ ~Overlay!Hidden(fs, p)
      BY <1>8, <2>2
    <3> QED BY <1>6, <3>1 DEF LookedUp, Exists, Overlay!InArchive, Overlay!Kinds
  <2>3. CASE name \in fromNodes
    <3>1. PICK q \in DOMAIN fs.overlay : Overlay!Kind(fs, q) # "whiteout"
          /\ (q = p \/ Overlay!Under(q, p))
      BY <1>9, <2>3
    <3>2. q \in OverlayPaths /\ q \in Words
      BY <1>2, PathFacts
    <3>3. Overlay!Kind(fs, q) \in {"file", "directory", "opaque"}
      BY <1>2, <3>1, <3>2, KindIs DEF Overlay!HasNode, Overlay!Kinds
    <3>4. Exists(fs, q)
      BY <1>2, <3>2, <3>3, Lookup DEF LookedUp, Exists
    <3> QED BY <1>1, <3>1, <3>2, <3>4, NoStrayBelow
  <2> QED BY <2>1, <2>2, <2>3
<1> QED BY <1>10, <1>11 DEF d, name

\* The volatile root across a start and a pivot, which leave it empty.
LEMMA OverlayKept ==
  ASSUME OverlayInv, [VfsNext]_vfsVars
  PROVE  OverlayInv'
<1>1. CASE OnRamFs
  BY <1>1, OverlayInvNext DEF OnRamFs
<1>2. CASE UNCHANGED overlayVars
  BY <1>2 DEF OverlayInv, overlayVars
<1>3. CASE EmptyOverlay
  <2>1. ramfs' = Overlay!Mounted /\ orphans' = {}
        /\ expected' = [p \in OverlayPaths |-> Overlay!Read(Overlay!Mounted, p)]
    BY <1>3 DEF EmptyOverlay
  <2>2. Agrees(ramfs', expected', orphans') /\ DOMAIN expected' = OverlayPaths
    BY <2>1, MountedAgrees
  <2> QED BY <2>2 DEF OverlayInv
<1>4. OnRamFs \/ UNCHANGED overlayVars \/ EmptyOverlay
  BY DEF VfsNext, OnDisk, DiskGoesOn, Pivot, MarkPivoted, Restart, vfsVars
<1> QED BY <1>1, <1>2, <1>3, <1>4

\* The table of the overlay and its pool are sound after every call, every
\* refusal included (allocate_extent, insert_overlay, clear_overlay_subtree):
\* files lie in the used part of the pool and apart from each other, nodes
\* are in directories, and the callers know what a whiteout uncovers.
THEOREM OverlayIsSound == VfsSpec => []OverlayInv
<1>1. VfsInit => OverlayInv
  BY OverlayInvInit DEF VfsInit
<1>2. OverlayInv /\ [VfsNext]_vfsVars => OverlayInv'
  BY OverlayKept
<1> QED BY <1>1, <1>2, PTL DEF VfsSpec

\* Before the pivot a path reads as the last call on it left it, through the
\* overlay and the archive below it, whole and from any offset on: no write
\* reaches another file's bytes in the pool (write_file, write_file_at,
\* read_file_at).
THEOREM OverlayReadsAreTrue == VfsSpec => []OverlayReadsWhatWasWritten
<1>1. OverlayInv => OverlayReadsWhatWasWritten
  BY ReadsFollow DEF OverlayReadsWhatWasWritten
<1> QED BY <1>1, OverlayIsSound, PTL

\* Before the pivot a directory lists exactly the paths that are there, from
\* the overlay and from the archive, while no path has lost its directory to
\* a removed whiteout (list_directory).
THEOREM OverlayListsWhatIsThere == VfsSpec => []OverlayListingsAreTrue
<1>1. OverlayInv => OverlayListingsAreTrue
  BY ListingsFollow DEF OverlayListingsAreTrue
<1> QED BY <1>1, OverlayIsSound, PTL
=============================================================================
