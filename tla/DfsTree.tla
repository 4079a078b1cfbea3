------------------------------- MODULE DfsTree -------------------------------
(***************************************************************************)
(* Files and directories of DFS (kernel/src/fs/dfs.rs) over the metadata   *)
(* transactions of its journal: the table of inodes, the bitmap of         *)
(* sectors, and the data sectors, which no journal covers and which a      *)
(* flush makes safe.                                                       *)
(*                                                                         *)
(* A transaction is one step here (DfsJournal shows that it is atomic).    *)
(* A call is several: the power may fail between any two, and what was     *)
(* written to data sectors since the last flush may or may not be there    *)
(* afterwards.  One call runs at a time (system calls are not preempted).  *)
(***************************************************************************)
EXTENDS Naturals, FiniteSets, Sequences, SequencesExt, FiniteSetsExt

CONSTANTS
  Paths,      \* the paths the callers name, the root excluded
  Inodes,     \* 1 .. INODE_COUNT - 1; inode 0 is the root
  Sectors,    \* the data sectors, consecutive numbers
  MaxExtents, \* MAX_EXTENTS
  MaxSize,    \* the longest file the callers write, in sectors
  MaxPatch,   \* the longest write into an existing file
  Data        \* contents of a sector

\* A path is the sequence of its names; the table of inodes is finite.
ASSUME TreeAssumption ==
  /\ Paths \subseteq Seq(STRING) /\ <<>> \notin Paths
  /\ Inodes \subseteq Nat \ {0} /\ IsFiniteSet(Inodes)
  /\ Sectors \subseteq Nat
  /\ MaxExtents \in Nat /\ MaxSize \in Nat /\ MaxPatch \in Nat

VARIABLES
  disk,    \* [nodes, bitmap, data]: what a power failure leaves
  cache,   \* data sectors written since the last flush
  call,    \* the running call
  held,    \* history: what each inode's file may read as, newest last
  lost     \* history: the sectors that a power failure left to no file

dfsVars == <<disk, cache, call, held, lost>>

Root == <<>>
Parent(p) == Front(p)
Under(p, q) == IsStrictPrefix(q, p)

Free == [kind |-> "free", path |-> Root, size |-> 0, extents |-> <<>>]   \* Node::EMPTY
RootNode == [Free EXCEPT !.kind = "directory"]
Stale == 0   \* what a sector holds before anybody writes it

Nodes(d) == {i \in DOMAIN d.nodes : d.nodes[i].kind # "free"}

\* find_index, for a path and for its parent: at most one inode has a path.
At(d, p) == {i \in Nodes(d) : d.nodes[i].path = p}
IsDirectory(d, p) == \E i \in At(d, p) : d.nodes[i].kind = "directory"
Children(d, p) == {i \in Nodes(d) : d.nodes[i].path # Root /\ Parent(d.nodes[i].path) = p}

-----------------------------------------------------------------------------
(* Extents: [start, logical, count] is count sectors of the disk from      *)
(* start on, for the file's sectors from logical on.                       *)

Run(e) == e.start .. e.start + e.count - 1
Owned(node) == UNION {Run(e) : e \in ToSet(node.extents)}
Allocated(node) == FoldLeft(LAMBDA sum, e : sum + e.count, 0, node.extents)

\* extent_for: the disk sector of the file's sector number n.
Located(node, n) ==
  {e.start + (n - e.logical) : e \in {x \in ToSet(node.extents) : n \in x.logical .. x.logical + x.count - 1}}

\* find_free_run: from the first free sector, at most request of them.
FreeRun(d, request) ==
  LET free == Sectors \ d.bitmap
      first == Min(free)
      run == {s \in free : first .. s \subseteq free /\ s < first + request}
  IN IF free = {} THEN [start |-> 0, count |-> 0] ELSE [start |-> first, count |-> Cardinality(run)]

\* add_extent: the last extent grows when the run follows it on the disk.
Follows(node, run) ==
  /\ node.extents # <<>>
  /\ Last(node.extents).start + Last(node.extents).count = run.start
CanExtend(node, run) == Follows(node, run) \/ Len(node.extents) < MaxExtents
\* Mutant: it is not looked whether the run follows.
ExtendedBlindly(node, run) ==
  IF node.extents # <<>>
  THEN [node EXCEPT !.extents[Len(node.extents)].count = @ + run.count]
  ELSE [node EXCEPT !.extents = <<[start |-> run.start, logical |-> 0, count |-> run.count]>>]
Extended(node, run) ==
  IF Follows(node, run)
  THEN [node EXCEPT !.extents[Len(node.extents)].count = @ + run.count]
  ELSE [node EXCEPT !.extents =
          Append(@, [start |-> run.start, logical |-> Allocated(node), count |-> run.count])]

\* read_file: the whole file, its sectors from the cache where it has them.
Contents(d, node) ==
  [n \in 1 .. node.size |->
     LET s == CHOOSE x \in Located(node, n - 1) : TRUE
     IN IF Located(node, n - 1) = {} THEN Stale
        ELSE IF s \in DOMAIN cache THEN cache[s] ELSE d.data[s]]

-----------------------------------------------------------------------------
(* Calls.  call.todo is what is left to do: the inode that is written, the *)
(* runs that are still to be released, the inodes still to be removed.     *)

Idle == [kind |-> "none", phase |-> "idle", inode |-> 0, node |-> Free,
         offset |-> 0, data |-> <<>>, runs |-> <<>>, path |-> Root, goal |-> <<>>]

\* format.
Formatted == [nodes |-> [i \in Inodes \cup {0} |-> IF i = 0 THEN RootNode ELSE Free],
              bitmap |-> {}, data |-> [s \in Sectors |-> Stale]]

TreeInit ==
  /\ disk = Formatted
  /\ cache = [s \in {} |-> Stale]
  /\ call = Idle
  /\ held = [i \in Inodes |-> {<<>>}]
  /\ lost = {}

Ready == call.phase = "idle"
Finish == call' = Idle
StoreNode(i, node) == disk' = [disk EXCEPT !.nodes[i] = node]

\* create_node, one transaction: the path is new and its parent a directory.
MayCreate(p) ==
  /\ At(disk, p) = {} /\ IsDirectory(disk, Parent(p))
  /\ \E i \in Inodes : disk.nodes[i].kind = "free"
FreeInode == Min({i \in Inodes : disk.nodes[i].kind = "free"})
CreateNode(p, kind) ==
  /\ MayCreate(p)
  /\ StoreNode(FreeInode, [Free EXCEPT !.kind = kind, !.path = p])
  /\ held' = [held EXCEPT ![FreeInode] = {<<>>}]

CreateDirectory ==
  \E p \in Paths :
    /\ Ready /\ CreateNode(p, "directory")
    /\ UNCHANGED <<cache, call, lost>>

\* bytes over old from sector offset on.
Patched(old, offset, data) ==
  [n \in 1 .. Max({Len(old), offset + Len(data)}) |->
     IF n \in offset + 1 .. offset + Len(data) THEN data[n - offset] ELSE old[n]]

\* What the file may read as while data is written at offset: the old
\* contents, with any of the sectors that were there already overwritten,
\* and in the end the new ones.
DuringWrite(old, offset, data) ==
  {[n \in 1 .. Len(old) |-> IF n \in w THEN data[n - offset] ELSE old[n]] :
     w \in SUBSET {n \in 1 .. Len(old) : n \in offset + 1 .. offset + Len(data)}}
  \cup {Patched(old, offset, data)}

\* goal is history: what the file reads as when the call is done.
Writing(i, node, offset, data) ==
  [Idle EXCEPT !.kind = "write", !.phase = "reserve", !.inode = i, !.node = node,
               !.offset = offset, !.data = data,
               !.goal = Patched(Contents(disk, node), offset, data)]

\* write_file at an offset of an existing file.
Write ==
  \E p \in Paths, offset \in 0 .. MaxSize, n \in 1 .. MaxPatch, v \in Data :
    LET data == [k \in 1 .. n |-> v]
    IN \E i \in At(disk, p) :
         /\ Ready /\ disk.nodes[i].kind = "file"
         /\ offset <= disk.nodes[i].size /\ offset + n <= MaxSize
         /\ call' = Writing(i, disk.nodes[i], offset, data)
         /\ held' = [held EXCEPT ![i] = DuringWrite(Contents(disk, disk.nodes[i]), offset, data)]
         /\ UNCHANGED <<disk, cache, lost>>

\* write_file that creates: the new file is there before its data, and
\* stays when the offset turns out to lie beyond its end.
WriteNew ==
  \E p \in Paths, offset \in 0 .. 1, n \in 0 .. MaxSize, v \in Data :
    LET data == [k \in 1 .. n |-> v]
    IN /\ Ready /\ MayCreate(p)
       /\ StoreNode(FreeInode, [Free EXCEPT !.kind = "file", !.path = p])
       /\ IF offset = 0
          THEN /\ call' = Writing(FreeInode, disk'.nodes[FreeInode], 0, data)
               /\ held' = [held EXCEPT ![FreeInode] = {<<>>, data}]
          ELSE /\ held' = [held EXCEPT ![FreeInode] = {<<>>}]
               /\ UNCHANGED call
       /\ UNCHANGED <<cache, lost>>

\* The file's sectors the write needs.
Required == call.offset + Len(call.data)

\* One turn of the allocation loop: the bitmap and the inode, which keeps
\* its size, in one transaction.  Mutant: it gets the size of what it has reserved.
ReserveSized ==
  LET missing == Required - Allocated(call.node)
      run == FreeRun(disk, missing)
      node == [Extended(call.node, run) EXCEPT !.size = Max({@, Allocated(call.node) + run.count})]
  IN /\ call.phase = "reserve" /\ missing > 0
     /\ run.count > 0 /\ CanExtend(call.node, run)
     /\ disk' = [disk EXCEPT !.bitmap = @ \cup Run(run), !.nodes[call.inode] = node]
     /\ call' = [call EXCEPT !.node = node]
     /\ UNCHANGED <<cache, held, lost>>
Reserve ==
  LET missing == Required - Allocated(call.node)
      run == FreeRun(disk, missing)
      node == Extended(call.node, run)
  IN /\ call.phase = "reserve" /\ missing > 0
     /\ run.count > 0 /\ CanExtend(call.node, run)
     /\ disk' = [disk EXCEPT !.bitmap = @ \cup Run(run), !.nodes[call.inode] = node]
     /\ call' = [call EXCEPT !.node = node]
     /\ UNCHANGED <<cache, held, lost>>

\* No run or no extent is left: what was reserved stays the file's.
OutOfSpace ==
  LET run == FreeRun(disk, Required - Allocated(call.node))
  IN /\ call.phase = "reserve" /\ Required > Allocated(call.node)
     /\ (run.count = 0 \/ ~CanExtend(call.node, run))
     /\ Finish
     /\ held' = [held EXCEPT ![call.inode] = {Contents(disk, disk.nodes[call.inode])}]
     /\ UNCHANGED <<disk, cache, lost>>

\* The data sectors, in the order of the file.
WriteSectors ==
  /\ call.phase = "reserve" /\ Required <= Allocated(call.node)
  /\ LET Place(n) == CHOOSE s \in Located(call.node, call.offset + n - 1) : TRUE
         written == {Place(n) : n \in 1 .. Len(call.data)}
     IN cache' = [s \in written \cup DOMAIN cache |->
                    IF s \in written THEN call.data[CHOOSE n \in 1 .. Len(call.data) : Place(n) = s]
                                     ELSE cache[s]]
  /\ call' = [call EXCEPT !.phase = "flush"]
  /\ UNCHANGED <<disk, held, lost>>

\* flush, between the data and the size.  A transaction flushes the disk as well before
\* its record; the model does not count on it: only this flush brings data to the disk
\* for certain.
Flushed(data) == [s \in Sectors |-> IF s \in DOMAIN cache THEN cache[s] ELSE data[s]]
FlushData ==
  /\ call.phase = "flush"
  /\ disk' = [disk EXCEPT !.data = Flushed(@)]
  /\ cache' = [s \in {} |-> Stale]
  /\ call' = [call EXCEPT !.phase = "size", !.node.size = Max({@, Required})]
  /\ UNCHANGED <<held, lost>>

StoreSize ==
  /\ call.phase = "size"
  /\ StoreNode(call.inode, call.node)
  /\ held' = [held EXCEPT ![call.inode] = {call.goal}]
  /\ Finish
  /\ UNCHANGED <<cache, lost>>

-----------------------------------------------------------------------------
(* Giving space back.                                                      *)

Releasing(kind, runs, path, i, data) ==
  [Idle EXCEPT !.kind = kind, !.phase = "release", !.runs = runs, !.path = path,
               !.inode = i, !.data = data]

\* truncate: the inode without extents first, then one transaction per run.
Emptied(node) == [node EXCEPT !.size = 0, !.extents = <<>>]

\* truncate alone, and the first half of write_file_as, which replaces a file.
Replace ==
  \E p \in Paths, n \in 0 .. MaxSize, v \in Data : \E i \in At(disk, p) :
    /\ Ready /\ disk.nodes[i].kind = "file"
    /\ StoreNode(i, Emptied(disk.nodes[i]))
    /\ call' = Releasing("replace", disk.nodes[i].extents, p, i, [k \in 1 .. n |-> v])
    /\ held' = [held EXCEPT ![i] = {<<>>, [k \in 1 .. n |-> v]}]
    /\ UNCHANGED <<cache, lost>>

\* Mutant: a directory is removed before what is in it.
Topmost(d, p) == CHOOSE i \in At(d, p) : TRUE
\* The inode the next step of a removal stores as empty: the first child, of
\* the first child, and so on down.
Lowest(d, p) ==
  CHOOSE i \in Nodes(d) :
    LET q == d.nodes[i].path
    IN /\ q = p \/ Under(q, p)
       /\ Children(d, q) = {}
       /\ \A n \in Len(p) + 1 .. Len(q) :
            At(d, SubSeq(q, 1, n)) = {Min(Children(d, SubSeq(q, 1, n - 1)))}

\* remove: whoever is removed gives its inode back before its sectors.
RemoveNode(p, recursive) ==
  LET i == Lowest(disk, p)
  IN /\ At(disk, p) # {}
     /\ Children(disk, p) = {} \/ recursive
     /\ StoreNode(i, Free)
     /\ call' = Releasing("remove", disk.nodes[i].extents, p, i, <<>>)
     /\ held' = [held EXCEPT ![i] = {<<>>}]
     /\ UNCHANGED <<cache, lost>>

RemovePath ==
  \E p \in Paths, recursive \in BOOLEAN : Ready /\ RemoveNode(p, recursive)

\* Mutant: only the first extent of a file is given back.
ReleaseFirst ==
  /\ call.phase = "release" /\ call.runs # <<>>
  /\ disk' = [disk EXCEPT !.bitmap = @ \ Run(Head(call.runs))]
  /\ call' = [call EXCEPT !.runs = <<>>]
  /\ UNCHANGED <<cache, held, lost>>

\* release_run.
Release ==
  /\ call.phase = "release" /\ call.runs # <<>>
  /\ disk' = [disk EXCEPT !.bitmap = @ \ Run(Head(call.runs))]
  /\ call' = [call EXCEPT !.runs = Tail(@)]
  /\ UNCHANGED <<cache, held, lost>>

\* All runs are released: a recursive removal goes on with what is left, a
\* replacement with the write.
Released ==
  /\ call.phase = "release" /\ call.runs = <<>>
  /\ \/ call.kind = "remove" /\ RemoveNode(call.path, TRUE)
     \/ /\ call.kind = "remove" /\ At(disk, call.path) = {}
        /\ Finish /\ UNCHANGED <<disk, cache, held, lost>>
     \/ /\ call.kind = "replace"
        /\ call' = Writing(call.inode, disk.nodes[call.inode], 0, call.data)
        /\ UNCHANGED <<disk, cache, held, lost>>

-----------------------------------------------------------------------------
\* Sectors that are reserved and in no file.
Orphaned(d) == d.bitmap \ UNION {Owned(d.nodes[i]) : i \in Nodes(d)}

\* The power fails, and the disk is mounted again: of the unflushed sectors
\* any number arrived, of the call only what is on the disk is left.
PowerFails ==
  /\ \E arrived \in SUBSET DOMAIN cache :
       disk' = [disk EXCEPT !.data = [s \in Sectors |-> IF s \in arrived THEN cache[s] ELSE @[s]]]
  /\ cache' = [s \in {} |-> Stale]
  /\ call' = Idle
  /\ lost' = Orphaned(disk)
  /\ UNCHANGED held

TreeNext ==
  \/ CreateDirectory \/ Write \/ WriteNew \/ Reserve \/ OutOfSpace \/ WriteSectors
  \/ FlushData \/ StoreSize \/ Replace \/ RemovePath \/ Release \/ Released
  \/ PowerFails

TreeSpec == TreeInit /\ [][TreeNext]_dfsVars

-----------------------------------------------------------------------------
(* Properties.                                                             *)

\* The bitmap covers every sector of a file, no two files share one, and a
\* file's extents follow each other and reach to its size: across any power
\* failure between the transactions of find_free_run, reserve_run, remove,
\* truncate and release_run.
SectorsHaveOneOwner ==
  /\ \A i \in Nodes(disk) :
       LET node == disk.nodes[i]
       IN /\ Owned(node) \subseteq disk.bitmap
          /\ Cardinality(Owned(node)) = Allocated(node)
          /\ node.size <= Allocated(node)
          /\ \A n \in 0 .. Allocated(node) - 1 : Cardinality(Located(node, n)) = 1
  /\ \A i, j \in Nodes(disk) : i # j => Owned(disk.nodes[i]) \cap Owned(disk.nodes[j]) = {}

\* A file reads as the last write left it.  While one runs, or after the
\* power failed in one, a file that grows has its old length or the new
\* contents, never what its new sectors held before (the flush of
\* write_file), and one that is replaced is whole, empty or new.
ReadsAreExplained ==
  \A i \in Nodes(disk) :
    disk.nodes[i].kind = "file" => Contents(disk, disk.nodes[i]) \in held[i]

\* Whoever has a path has its parent directory, and no two have one path,
\* in the middle of a recursive removal too.
TreeIsWhole ==
  \A i \in Nodes(disk) \ {0} :
    /\ IsDirectory(disk, Parent(disk.nodes[i].path))
    /\ At(disk, disk.nodes[i].path) = {i}

\* Only a power failure loses sectors: between calls all others that are
\* reserved are in a file, failed writes and removals included.
NothingLeaks == call.phase = "idle" => Orphaned(disk) = lost
=============================================================================
