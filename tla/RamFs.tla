-------------------------------- MODULE RamFs --------------------------------
(***************************************************************************)
(* The volatile root (kernel/src/fs/ramfs.rs): a read-only USTAR archive   *)
(* and, over it, a table of overlay nodes in memory.  A file of the        *)
(* archive is copied up when it is written, covered by a whiteout when it  *)
(* is removed; the bytes of overlay files lie in one pool whose space is   *)
(* never given back.                                                       *)
(*                                                                         *)
(* A path is the sequence of its names.  An optional value is a set with   *)
(* at most one element.  Every call is one system call, hence one step.    *)
(***************************************************************************)
EXTENDS Naturals, FiniteSets, Sequences, SequencesExt, FiniteSetsExt

CONSTANTS
  Paths,               \* the paths the callers name, the root excluded
  DotNames,            \* the names that begin with a dot
  ArchiveFiles,        \* the archive: paths of its files,
  ArchiveDirectories,  \*   of its directory entries,
  ArchiveBytes,        \*   and the contents of its files, owned by root
  Users,               \* the users that call; 0 is root
  Writes,              \* the byte sequences the callers write
  MaxOverlayNodes,     \* MAX_OVERLAY_NODES
  PoolSize,            \* OVERLAY_DATA_CAPACITY
  LeastCapacity,       \* 4096 in write_file_overlay and write_at_overlay
  MaxWriteFile,        \* MAX_WRITE_FILE_SIZE
  MaxFileSize          \* MAX_OVERLAY_FILE_SIZE

VARIABLES
  ramfs,     \* MOUNTED_RAMFS: overlay nodes, the pool and file_data_used
  expected,  \* history: the contents of every path, as its callers know them
  orphans    \* history: paths whose directory was removed over them and for
             \* which the code keeps no whiteout: they may show again

ramfsVars == <<ramfs, expected, orphans>>

Root == <<>>
Parent(p) == Front(p)
Under(p, q) == IsStrictPrefix(q, p)   \* is_child_path
Kinds == {"file", "directory", "opaque", "whiteout"}

-----------------------------------------------------------------------------
(* Looking a path up.                                                      *)

HasNode(fs, p) == p \in DOMAIN fs.overlay
Kind(fs, p) == IF HasNode(fs, p) THEN fs.overlay[p].kind ELSE "none"

\* Mutant: an opaque directory does not hide what the archive has in it.
HiddenByWhiteouts(fs, p) ==
  IF HasNode(fs, p) THEN Kind(fs, p) = "whiteout"
  ELSE \E q \in DOMAIN fs.overlay : Under(p, q) /\ Kind(fs, q) = "whiteout"

\* A node decides for its own path; elsewhere a whiteout or an opaque
\* directory above hides the archive.
Hidden(fs, p) ==
  IF HasNode(fs, p) THEN Kind(fs, p) = "whiteout"
  ELSE \E q \in DOMAIN fs.overlay :
         Under(p, q) /\ Kind(fs, q) \in {"whiteout", "opaque"}

\* Archive::is_directory: an entry, or a directory some entry is in.
ArchiveHasDirectory(p) ==
  \/ p = Root
  \/ p \in ArchiveDirectories
  \/ \E q \in ArchiveFiles \cup ArchiveDirectories : Under(q, p)

\* Archive::find and Archive::list_directory.
ArchiveFind(p) == IF p \in ArchiveFiles THEN {ArchiveBytes} ELSE {}
ArchiveChildren(p) ==
  {q[Len(p) + 1] : q \in {r \in ArchiveFiles \cup ArchiveDirectories : Under(r, p)}}

InPool(fs, node) == [i \in 1 .. node.length |-> fs.pool[node.start + i]]

\* read_from_overlay.
Read(fs, p) ==
  CASE Hidden(fs, p) -> {}
    [] Kind(fs, p) = "file" -> {InPool(fs, fs.overlay[p])}
    [] Kind(fs, p) = "none" /\ ~Hidden(fs, p) -> ArchiveFind(p)
    [] Kind(fs, p) \in {"directory", "opaque"} -> {}

IsFile(fs, p) == Read(fs, p) # {}

IsDirectory(fs, p) ==
  IF HasNode(fs, p) THEN Kind(fs, p) \in {"directory", "opaque"}
  ELSE /\ ~Hidden(fs, p)
       /\ \/ ArchiveHasDirectory(p)
          \/ \E q \in DOMAIN fs.overlay : Kind(fs, q) # "whiteout" /\ Under(q, p)

\* metadata_overlay, for its owner: any node answers, a whiteout too.
Owner(fs, p) ==
  IF HasNode(fs, p) THEN {fs.overlay[p].uid}
  ELSE IF IsDirectory(fs, p) \/ IsFile(fs, p) THEN {0} ELSE {}

\* read_at_overlay: the bytes from offset on, at most room of them.
ReadAt(fs, p, offset, room) ==
  {SubSeq(b, offset + 1, Min({offset + room, Len(b)})) : b \in Read(fs, p)}

\* list_directory_overlay: the archive's children that nothing hides, then
\* the first name of every node below, each name once.
Shown(name, dots) == dots \/ name \notin DotNames
\* Mutant: the archive's children are not looked up in the overlay.
ListedFromArchive(fs, p, dots) ==
  LET nodes == {q \in DOMAIN fs.overlay : Kind(fs, q) # "whiteout" /\ Under(q, p)}
      names == ArchiveChildren(p) \cup {q[Len(p) + 1] : q \in nodes}
  IN IF ~IsDirectory(fs, p) THEN {} ELSE {n \in names : Shown(n, dots)}
Listed(fs, p, dots) ==
  LET nodes == {q \in DOMAIN fs.overlay : Kind(fs, q) # "whiteout" /\ Under(q, p)}
  IN IF ~IsDirectory(fs, p) THEN {}
     ELSE {n \in ArchiveChildren(p) : /\ Kind(fs, p) # "opaque"
                                      /\ ~Hidden(fs, Append(p, n)) /\ Shown(n, dots)}
          \cup {n \in {q[Len(p) + 1] : q \in nodes} : Shown(n, dots)}

-----------------------------------------------------------------------------
(* The calls, as functions of the file system: what it becomes, and        *)
(* whether the caller is told that it went well.                           *)

Fails(fs) == [fs |-> fs, ok |-> FALSE]
Done(fs) == [fs |-> fs, ok |-> TRUE]

Node(kind, uid) == [kind |-> kind, uid |-> uid, start |-> 0, length |-> 0, capacity |-> 0]

HasSlot(fs, p) == HasNode(fs, p) \/ Cardinality(DOMAIN fs.overlay) < MaxOverlayNodes

\* insert_overlay_as: the node of this path, or the first empty one.
With(overlay, p, node) ==
  [q \in DOMAIN overlay \cup {p} |-> IF q = p THEN node ELSE overlay[q]]
Insert(fs, p, node) ==
  IF HasSlot(fs, p) THEN Done([fs EXCEPT !.overlay = With(@, p, node)]) ELSE Fails(fs)

CreateFile(fs, p, uid) ==
  IF IsFile(fs, p) THEN Done(fs)
  ELSE IF IsDirectory(fs, p) \/ ~IsDirectory(fs, Parent(p)) THEN Fails(fs)
  ELSE Insert(fs, p, Node("file", uid))

\* Where length bytes of file p go: in place, or a new stretch of the pool.
Extent(fs, p, length, limit) ==
  LET old == IF Kind(fs, p) = "file" THEN fs.overlay[p].capacity ELSE 0
      inPlace == Kind(fs, p) = "file" /\ length <= old
      grown == IF length = 0 THEN 0 ELSE Min({Max({2 * old, length, LeastCapacity}), limit})
  IN IF inPlace
     THEN [start |-> fs.overlay[p].start, capacity |-> old, used |-> fs.used]
     ELSE [start |-> fs.used, capacity |-> grown, used |-> fs.used + grown]

\* The pool with bytes from start on.
Filled(pool, start, bytes) ==
  [i \in DOMAIN pool |-> IF i \in start + 1 .. start + Len(bytes)
                         THEN bytes[i - start] ELSE pool[i]]

\* The common end of the two writes: the pool is taken and filled before the
\* node is looked for.
Place(fs, p, bytes, extent, uid) ==
  LET filled == [fs EXCEPT !.pool = Filled(@, extent.start, bytes), !.used = extent.used]
      node == [Node("file", uid) EXCEPT !.start = extent.start, !.length = Len(bytes),
                                        !.capacity = extent.capacity]
  IN IF extent.capacity > PoolSize - fs.used THEN Fails(fs) ELSE Insert(filled, p, node)

WriteFile(fs, p, bytes, uid) ==
  IF \/ Len(bytes) > MaxWriteFile
     \/ IsDirectory(fs, p)
     \/ ~IsFile(fs, p) /\ ~IsDirectory(fs, Parent(p))
  THEN Fails(fs)
  ELSE Place(fs, p, bytes, Extent(fs, p, Len(bytes), PoolSize),
             CHOOSE u \in IF Owner(fs, p) = {} THEN {uid} ELSE Owner(fs, p) : TRUE)

\* bytes over old, from offset on.
Patched(old, offset, bytes) ==
  [i \in 1 .. Max({Len(old), offset + Len(bytes)}) |->
     IF i \in offset + 1 .. offset + Len(bytes) THEN bytes[i - offset] ELSE old[i]]

WriteAt(fs, p, offset, bytes) ==
  LET old == CHOOSE b \in Read(fs, p) : TRUE
      new == Patched(old, offset, bytes)
      extent == Extent(fs, p, Len(new), MaxFileSize)
  IN IF \/ offset + Len(bytes) > MaxFileSize
        \/ IsDirectory(fs, p)
        \/ ~IsFile(fs, p)
     THEN Fails(fs)
     ELSE IF \/ offset > Len(old)
             \/ ~IsDirectory(fs, Parent(p))
             \/ extent.capacity < Len(new)
     THEN Fails(fs)
     ELSE Place(fs, p, new, extent, CHOOSE u \in Owner(fs, p) : TRUE)

\* create_directory_one_as: opaque where the archive has such a directory.
CreateOne(fs, p, uid) ==
  IF IsFile(fs, p) \/ IsDirectory(fs, p) \/ ~IsDirectory(fs, Parent(p)) THEN Fails(fs)
  ELSE Insert(fs, p, Node(IF ArchiveHasDirectory(p) THEN "opaque" ELSE "directory", uid))

\* With parents, the directories made before a failure stay.
CreateDirectory(fs, p, parents, uid) ==
  LET Step(done, n) ==
        LET q == SubSeq(p, 1, n)
        IN IF ~done.ok \/ IsDirectory(done.fs, q) THEN done
           ELSE CreateOne(done.fs, q, uid)
  IN IF parents THEN FoldLeft(Step, Done(fs), [n \in 1 .. Len(p) |-> n])
     ELSE CreateOne(fs, p, uid)

\* The nodes of p and of what is below are dropped.
Cleared(fs, p) ==
  LET kept == {q \in DOMAIN fs.overlay : q # p /\ ~Under(q, p)}
  IN [fs EXCEPT !.overlay = [q \in kept |-> fs.overlay[q]]]

InArchive(p) == p \in ArchiveFiles \/ ArchiveHasDirectory(p)

\* remove_overlay.  Whether a directory is empty is asked of the listing
\* without dot names.
RemovePath(fs, p, recursive) ==
  IF \/ ~IsFile(fs, p) /\ ~IsDirectory(fs, p)
     \/ IsDirectory(fs, p) /\ Listed(fs, p, FALSE) # {} /\ ~recursive
  THEN Fails(fs)
  ELSE IF InArchive(p) THEN Insert(fs, p, Node("whiteout", 0)) ELSE Done(Cleared(fs, p))

-----------------------------------------------------------------------------
(* The specification.                                                      *)

\* mount: the archive as it was loaded, no overlay.
Mounted == [overlay |-> [p \in {} |-> Node("file", 0)],
            pool |-> [i \in 1 .. PoolSize |-> 0], used |-> 0]

RamFsInit ==
  /\ ramfs = Mounted
  /\ expected = [p \in Paths |-> Read(Mounted, p)]
  /\ orphans = {}

\* Call r was made; now holds what the caller believes of the paths.
Called(r, now) ==
  /\ ramfs' = r.fs
  /\ expected' = IF r.ok THEN now ELSE expected

\* A file in the place of a directory of the archive replaces the whiteout
\* of that directory, and covers nothing below.
Uncovered(fs, p) ==
  IF Kind(fs, p) = "file" /\ ArchiveHasDirectory(p) THEN {q \in Paths : Under(q, p)} ELSE {}

CallCreateFile ==
  \E p \in Paths, uid \in Users :
    /\ Called(CreateFile(ramfs, p, uid),
              [expected EXCEPT ![p] = IF @ = {} THEN {<<>>} ELSE @])
    /\ orphans' = orphans \cup Uncovered(ramfs', p)

CallWriteFile ==
  \E p \in Paths, bytes \in Writes, uid \in Users :
    /\ Called(WriteFile(ramfs, p, bytes, uid), [expected EXCEPT ![p] = {bytes}])
    /\ orphans' = orphans \cup Uncovered(ramfs', p)

CallWriteAt ==
  \E p \in Paths, bytes \in Writes, offset \in 0 .. MaxFileSize :
    /\ Called(WriteAt(ramfs, p, offset, bytes),
              [expected EXCEPT ![p] = {Patched(b, offset, bytes) : b \in {c \in @ : offset <= Len(c)}}])
    /\ UNCHANGED orphans

CallCreateDirectory ==
  \E p \in Paths, parents \in BOOLEAN, uid \in Users :
    Called(CreateDirectory(ramfs, p, parents, uid), expected) /\ UNCHANGED orphans

\* Files with a node of their own outlive a directory of the archive.
CallRemove ==
  \E p \in Paths, recursive \in BOOLEAN :
    LET r == RemovePath(ramfs, p, recursive)
    IN /\ Called(r, [q \in Paths |-> IF q = p \/ Under(q, p) THEN {} ELSE expected[q]])
       /\ orphans' = IF ~r.ok THEN orphans
                     ELSE IF ~InArchive(p) THEN {q \in orphans : q # p /\ ~Under(q, p)}
                     ELSE (orphans \ {p})
                          \cup {q \in DOMAIN ramfs.overlay : Under(q, p) /\ Kind(ramfs, q) # "whiteout"}

RamFsNext ==
  CallCreateFile \/ CallWriteFile \/ CallWriteAt \/ CallCreateDirectory \/ CallRemove

RamFsSpec == RamFsInit /\ [][RamFsNext]_ramfsVars

-----------------------------------------------------------------------------
(* Properties.                                                             *)

LargestFile == MaxFileSize + Len(ArchiveBytes)

\* A path reads as the calls that succeeded left it, whole and by ranges: a
\* failed call changes nothing, what was removed does not come back from the
\* archive, and a write that copies a file up keeps the rest of it.
ReadsWhatWasWritten ==
  \A p \in Paths \ orphans :
    /\ Read(ramfs, p) = expected[p]
    /\ \A n \in 0 .. MaxFileSize, bytes \in expected[p] :
         \E a \in ReadAt(ramfs, p, 0, n), b \in ReadAt(ramfs, p, n, LargestFile) : bytes = a \o b

\* Listing a directory with its dot names shows the files and directories in
\* it and no other name (list_directory_overlay against is_file_overlay and
\* is_directory_overlay).
ListingsAreTrue ==
  orphans = {} =>
    \A p \in Paths :
      LET exists == IsFile(ramfs, p) \/ IsDirectory(ramfs, p)
      IN exists <=> Last(p) \in Listed(ramfs, Parent(p), TRUE)
=============================================================================
