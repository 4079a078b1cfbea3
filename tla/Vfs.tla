--------------------------------- MODULE Vfs ---------------------------------
(***************************************************************************)
(* The root of the system (kernel/src/fs/vfs.rs): one switch that sends    *)
(* every call to the volatile root (RamFs) or to the file system on the    *)
(* disk (DfsTree), thrown by pivot_root and back by the next start.        *)
(*                                                                         *)
(* After a pivot nothing can read the overlay again before the next start, *)
(* which begins with an empty one, so a pivot already empties it here.     *)
(* Calls on the volatile root are explored while the disk is as it was     *)
(* formatted.                                                              *)
(***************************************************************************)
EXTENDS DfsTree

CONSTANTS
  RunDirectory, Sentinel,   \* "/run" and "/run/pivoted", in Paths
  OverlayPaths,             \* the paths the callers name before the pivot
  DotNames, ArchiveFiles, ArchiveDirectories, ArchiveBytes, Users, Writes,
  MaxOverlayNodes, PoolSize, LeastCapacity, MaxWriteFile, MaxFileSize

ASSUME SentinelAssumption == RunDirectory \in Paths /\ Sentinel \in Paths

\* With a path the callers name what is above it; a text that is written
\* fits the pool and a file (MAX_WRITE_FILE_SIZE, MAX_OVERLAY_FILE_SIZE,
\* OVERLAY_DATA_CAPACITY).
ASSUME OverlayAssumption ==
  /\ OverlayPaths \subseteq Seq(STRING) /\ <<>> \notin OverlayPaths
  /\ \A p \in OverlayPaths : \A n \in 1 .. Len(p) : SubSeq(p, 1, n) \in OverlayPaths
  /\ ArchiveFiles \cup ArchiveDirectories \subseteq Seq(STRING) \ {<<>>}
  /\ Writes \subseteq Seq(Nat) /\ ArchiveBytes \in Seq(Nat)
  /\ {MaxOverlayNodes, PoolSize, LeastCapacity, MaxWriteFile, MaxFileSize} \subseteq Nat
  /\ MaxWriteFile <= PoolSize /\ MaxWriteFile <= MaxFileSize

VARIABLES
  backend,     \* ROOT_BACKEND
  marking,     \* whether pivot_root_to has still to write its sentinel
  ramfs, expected, orphans

Overlay == INSTANCE RamFs WITH Paths <- OverlayPaths

overlayVars == <<ramfs, expected, orphans>>
vfsVars == <<backend, marking, overlayVars, dfsVars>>

VfsInit ==
  /\ backend = "ramfs" /\ marking = FALSE
  /\ Overlay!RamFsInit /\ TreeInit

\* Vfs::current and the two arms of each of its calls.
OnRamFs ==
  /\ backend = "ramfs" /\ disk = Formatted
  /\ Overlay!RamFsNext
  /\ UNCHANGED <<backend, marking, dfsVars>>

NewDiskCall ==
  \/ CreateDirectory \/ Write \/ WriteNew \/ Replace \/ RemovePath

OnDisk ==
  /\ backend = "dfs" /\ ~marking
  /\ NewDiskCall
  /\ UNCHANGED <<backend, marking, overlayVars>>

\* The transactions of a call that has begun.
DiskGoesOn ==
  /\ \/ Reserve \/ OutOfSpace \/ WriteSectors \/ FlushData
     \/ StoreSize \/ Release \/ Released
  /\ UNCHANGED <<backend, marking, overlayVars>>

\* The archive alone.
EmptyOverlay ==
  /\ ramfs' = Overlay!Mounted /\ orphans' = {}
  /\ expected' = [p \in OverlayPaths |-> Overlay!Read(Overlay!Mounted, p)]

\* pivot_root_to: nothing asks whether the root is the disk already.  The
\* directory of the sentinel comes first; errors are ignored.
Pivot ==
  /\ ~marking /\ Ready
  /\ backend' = "dfs" /\ marking' = TRUE
  /\ IF MayCreate(RunDirectory)
     THEN CreateNode(RunDirectory, "directory") /\ UNCHANGED <<cache, call, lost>>
     ELSE UNCHANGED dfsVars
  /\ EmptyOverlay

\* Then the file of the sentinel is replaced or created.
MarkPivoted ==
  /\ marking /\ marking' = FALSE
  /\ LET there == At(disk, Sentinel)
     IN \/ Replace /\ call'.path = Sentinel /\ Len(call'.data) = 1
        \/ WriteNew /\ disk'.nodes[call'.inode].path = Sentinel /\ Len(call'.data) = 1
        \/ /\ \A i \in there : disk.nodes[i].kind # "file"
           /\ there # {} \/ ~MayCreate(Sentinel)
           /\ UNCHANGED dfsVars
  /\ UNCHANGED <<backend, overlayVars>>

\* The machine starts again with the archive as its root.
Restart ==
  /\ PowerFails
  /\ backend' = "ramfs" /\ marking' = FALSE
  /\ EmptyOverlay

VfsNext ==
  OnRamFs \/ OnDisk \/ DiskGoesOn \/ Pivot \/ MarkPivoted \/ Restart

VfsSpec == VfsInit /\ [][VfsNext]_vfsVars

-----------------------------------------------------------------------------
(* Properties: those of the volatile root, and those DfsTree states of the *)
(* disk, with the pivot and the restart between their steps.               *)

\* ReadsWhatWasWritten of RamFs: from an empty overlay after every start.
OverlayReadsWhatWasWritten == backend = "ramfs" => Overlay!ReadsWhatWasWritten

\* ListingsAreTrue of RamFs.
OverlayListingsAreTrue == backend = "ramfs" => Overlay!ListingsAreTrue
=============================================================================
