----------------------------- MODULE Installer -----------------------------
(***************************************************************************)
(* The installer: userland/utilities/distroinstall.rs and the system call  *)
(* behind it, kernel/src/fs/installer.rs, which partitions the disk        *)
(* (fs/gpt.rs), writes an EFI system partition and fills a new DFS.        *)
(*                                                                         *)
(* The disk is a few parts.  Each holds the number of the attempt that     *)
(* wrote it, 0 for what was there before, Zero or, where a part has many    *)
(* sectors that the kernel reads, Torn: some old and some new.  The cache  *)
(* is the disk as it is read and the platter as a power failure leaves it; *)
(* in between the device writes back what it likes.  Sizes are true.       *)
(***************************************************************************)
EXTENDS Integers, SequencesExt

CONSTANTS
  Requests       \* disk, payload, image and account of an installation, and a
                 \* bound on the attempts at it

ASSUME InstallerAssumption ==
  \A r \in Requests :
    /\ r.sectors \in Nat /\ r.payload \in [1 .. 6 -> Nat]
    /\ r.before \in {"blank", "same", "pending", "larger"} /\ r.attempts \in Nat

\* The image is an archive that build/ramfs.mk makes of a tree of files: a path has one
\* kind, and where the settings want a directory there is no file.
ASSUME ImageAssumption ==
  \A r \in Requests :
    /\ r.image \in Seq([path : Seq(STRING), directory : BOOLEAN, sectors : Nat])
    /\ \A j, k \in DOMAIN r.image :
         r.image[j].path = r.image[k].path => r.image[j].directory = r.image[k].directory
    /\ \A k \in DOMAIN r.image :
         /\ r.image[k].path \in {<<"etc">>, <<"home", "user">>} => r.image[k].directory
         /\ r.image[k].directory => r.image[k].sectors = 0

VARIABLES
  request,    \* the one that is tried
  job,        \* the call: where it is, what it planned, how it ended
  cache, platter,
  tree        \* the new file system: sequence of [path, directory, sectors, whole]

vars == <<request, job, cache, platter, tree>>

-----------------------------------------------------------------------------
(* Sizes, in sectors.                                                      *)

EspStart == 2048
EspSectors == 262144
RootSectors == 32
SectorsPerCluster == 8
ClusterBytes == 4096
MaxFatSectors == 256
EntrySectors == 32
FirstUsable == 34
Alignment == 2048
MinDiskSectors == EspStart + EspSectors + 4096
Files == 1 .. 6

\* calculate_fat_sectors, for f sectors of each of the two tables.
DataClusters(f) == (EspSectors - 1 - f * 2 - RootSectors) \div SectorsPerCluster
NeededFat(f) == ((DataClusters(f) + 2) * 2 + 511) \div 512
DataStart(f) == EspStart + 1 + f * 2 + RootSectors
ClusterStart(f, c) == DataStart(f) + (c - 2) * SectorsPerCluster
Clusters(bytes) == (bytes + ClusterBytes - 1) \div ClusterBytes

\* write_gpt.  Mutant: the last usable sector is taken for the one behind it.
BackupEntries(n) == n - 1 - EntrySectors
LastUsable(n) == BackupEntries(n) - 1
DfsStart == EspStart + EspSectors
DfsEndUnaligned(n) == LastUsable(n) + 1
DfsEnd(n) == LastUsable(n) - ((LastUsable(n) + 1) % Alignment)

\* make_layout of the DFS: superblock, journal, inodes and bitmap come first.
Reserved(sectors) == 1 + 17 + 256 + (sectors + 4095) \div 4096

-----------------------------------------------------------------------------
(* The disk.                                                               *)

Zero == -1
Torn == -2
Parts == {"backup", "entries", "header", "esp", "super", "journal", "root", "nodes"}
Large == {"entries", "journal", "nodes"}

\* The disk as it was before, with a tree or not.  A record is pending when the running
\* system could not apply it: the write failed and the journal keeps it.
Before == [p \in Parts |-> IF request.before = "blank" THEN Zero ELSE 0]

\* The DFS partition of the table that attempt g wrote.  Some other tool made the
\* partition of a disk larger than the installer does.
Partition(g) ==
  [first |-> DfsStart,
   last |-> IF g = 0 /\ request.before = "larger" THEN LastUsable(request.sectors)
            ELSE DfsEnd(request.sectors)]
SectorsOf(p) == p.last - p.first + 1

\* Gpt::read_primary and find_partition: the header says which entries it means.
ValidTable(n) == n - 1 > LastUsable(n) /\ FirstUsable <= LastUsable(n) /\ 2 + EntrySectors <= FirstUsable
ValidPartition(p, n) == p.first >= FirstUsable /\ p.last <= LastUsable(n) /\ p.first <= p.last
TableIsRead(d) ==
  /\ d.header >= 0 /\ d.header = d.entries
  /\ ValidTable(request.sectors) /\ ValidPartition(Partition(d.header), request.sectors)

\* mount_primary: what a start of the kernel finds on the disk d: no file system, the
\* tree of an attempt or, at worst, a mixture.  A record that was left in the journal
\* is replayed, unless its sectors are overwritten.
NoTree == -3
Refused == -4
Mixture == -5
Recorded(d) == request.before = "pending" /\ d.journal \in {0, Torn}
SuperIsRead(d) ==
  d.super >= 0 /\ SectorsOf(Partition(d.super)) = SectorsOf(Partition(d.header))
Mount(d) ==
  CASE d.header = Zero -> NoTree
    [] d.header # Zero /\ ~(TableIsRead(d) /\ SuperIsRead(d)) -> Refused
    [] d.header # Zero /\ TableIsRead(d) /\ SuperIsRead(d) ->
         IF d.root = Zero /\ ~Recorded(d) THEN Refused
         ELSE IF d.root = d.super /\ d.nodes = d.super /\ (Recorded(d) => d.super = 0 /\ d.journal = 0)
              THEN d.super
              ELSE Mixture

-----------------------------------------------------------------------------
(* The call.                                                               *)

\* Mutants: the payload is looked at when the table is there; the old journal stays.
PhasesEager ==
  <<"ask", "validate", "backup", "entries", "header", "fat", "place", "esp", "read",
    "clearSuper", "clearJournal", "clearRoot", "clearNodes", "bitmap", "super", "flush", "root",
    "seed", "fill", "last">>
PhasesKeepJournal ==
  <<"ask", "validate", "fat", "place", "backup", "entries", "header", "esp", "read",
    "clearSuper", "clearRoot", "clearNodes", "bitmap", "super", "flush", "root",
    "seed", "fill", "last">>
Phases ==
  <<"ask", "validate", "fat", "place", "backup", "entries", "header", "esp", "read",
    "clearSuper", "clearJournal", "clearRoot", "clearNodes", "bitmap", "super", "flush", "root",
    "seed", "fill", "last">>
PhaseAfter(pc) == Phases[1 + (CHOOSE i \in DOMAIN Phases : Phases[i] = pc)]

NewJob(attempt) ==
  [pc |-> "ask", fat |-> 1, placed |-> <<>>, at |-> 1, result |-> "none", attempt |-> attempt]

On == job' = [job EXCEPT !.pc = PhaseAfter(@)]
Ended(result) == job' = [job EXCEPT !.pc = "ended", !.result = result]
Disk == <<cache, platter, tree>>

Init ==
  /\ request \in Requests /\ job = NewJob(1)
  /\ cache = Before /\ platter = cache /\ tree = <<>>

\* distroinstall: two confirmations, either of which may not come.
Ask ==
  /\ job.pc = "ask" /\ (On \/ Ended("Cancelled"))
  /\ UNCHANGED <<request, Disk>>

\* What install_configured refuses before it plans anything.
Refusal ==
  CASE request.account = "invalid" -> "InvalidAccountConfig"
    [] request.sectors = 0 -> "NoDisk"
    [] request.account = "noEntropy" -> "EntropyUnavailable"
    [] request.sectors < MinDiskSectors -> "DiskTooSmall"
    [] \E i \in Files : request.payload[i] = 0 -> "MissingPayload"
    [] OTHER -> "none"

Validate ==
  /\ job.pc = "validate"
  /\ IF Refusal = "none" THEN On ELSE Ended(Refusal)
  /\ UNCHANGED <<request, Disk>>

\* calculate_fat_sectors: the tables take room from the clusters they are for.
UsedClusters == FoldSeq(LAMBDA bytes, sum : sum + Clusters(bytes), 3, request.payload)
TooMuch ==
  \/ job.fat > MaxFatSectors \/ DataClusters(job.fat) \notin 4085 .. 65524
  \/ UsedClusters > DataClusters(job.fat)
SizeFat ==
  /\ job.pc = "fat"
  /\ \/ NeededFat(job.fat) # job.fat /\ job' = [job EXCEPT !.fat = NeededFat(@)]
     \/ NeededFat(job.fat) = job.fat /\ TooMuch /\ Ended("PayloadTooLarge")
     \/ NeededFat(job.fat) = job.fat /\ ~TooMuch /\ On
  /\ UNCHANGED <<request, Disk>>

\* The clusters of the files follow those of the directories.
FirstFree == IF job.placed = <<>> THEN 5 ELSE Last(job.placed).first + Last(job.placed).count
PlaceFile ==
  LET count == Clusters(request.payload[Len(job.placed) + 1])
  IN /\ job.pc = "place"
     /\ IF FirstFree + count > DataClusters(job.fat) + 2
        THEN Ended("PayloadTooLarge")
        ELSE job' = [job EXCEPT !.placed = Append(@, [first |-> FirstFree, count |-> count]),
                                !.pc = IF Len(job.placed) + 1 = 6 THEN PhaseAfter(@) ELSE @]
     /\ UNCHANGED <<request, Disk>>

\* What a phase writes: a part, with the attempt or, to clear it, with Zero.
Target ==
  [backup |-> "backup", entries |-> "entries", header |-> "header", esp |-> "esp",
   clearSuper |-> "super", clearJournal |-> "journal", clearRoot |-> "root", clearNodes |-> "nodes",
   bitmap |-> "nodes", super |-> "super"]
Clearing == {"clearSuper", "clearJournal", "clearRoot", "clearNodes"}
FailureOf(pc) == IF pc \in Clearing \cup {"bitmap", "super"} THEN "DfsFormat" ELSE "Block"

\* write_gpt (its protective MBR goes with the ESP), format_fat16, and Dfs::format up to its flush.  A write that fails
\* may have changed some of the sectors.
WritePart ==
  /\ job.pc \in DOMAIN Target
  /\ LET part == Target[job.pc]
     IN \/ cache' = [cache EXCEPT ![part] = IF job.pc \in Clearing THEN Zero ELSE job.attempt] /\ On
        \/ /\ Ended(FailureOf(job.pc))
           /\ cache' = cache \/ (part \in Large /\ cache' = [cache EXCEPT ![part] = Torn])
  /\ UNCHANGED <<request, platter, tree>>

\* The kernel looks for the partition it has just written, and for room in it.
ReadTable ==
  /\ job.pc = "read"
  /\ IF TableIsRead(cache) /\ SectorsOf(Partition(cache.header)) > Reserved(SectorsOf(Partition(cache.header)))
     THEN On
     ELSE Ended("DfsFormat")
  /\ UNCHANGED <<request, Disk>>

Flush ==
  /\ job.pc = "flush" /\ UNCHANGED <<request, cache, tree>>
  /\ \/ platter' = cache /\ On
     \/ Ended("DfsFormat") /\ UNCHANGED platter

\* store_node of the root: one commit of the journal, which flushes.
StoreRoot ==
  /\ job.pc = "root" /\ UNCHANGED request
  /\ \/ /\ On /\ cache' = [cache EXCEPT !.root = job.attempt]
        /\ platter' = cache' /\ tree' = <<>>
     \/ Ended("DfsFormat") /\ UNCHANGED Disk

-----------------------------------------------------------------------------
(* The tree: the archive, and then hostname and account.                   *)

Directory(path) == [path |-> path, directory |-> TRUE, sectors |-> 0]
File(path, sectors) == [path |-> path, directory |-> FALSE, sectors |-> sectors]
Settings ==
  <<Directory(<<"etc">>), File(<<"etc", "hostname">>, 1)>>
    \o (IF request.account = "user"
        THEN <<File(<<"etc", "users.db">>, 1), Directory(<<"home", "user">>)>> ELSE <<>>)
Script == request.image \o Settings

Used(t) == FoldSeq(LAMBDA e, sum : sum + e.sectors, 0, t)
Room == SectorsOf(Partition(job.attempt)) - Reserved(SectorsOf(Partition(job.attempt)))

Entry == Script[job.at]
Having(path) == {i \in DOMAIN tree : tree[i].path = path}
IsDirectory(path) == path = <<>> \/ \E i \in Having(path) : tree[i].directory

\* create_node and write_file, before they write.  Mutant: whatever is wrong with an
\* entry, the next one is tried.
Obstacle(e) ==
  CASE e.directory /\ Having(e.path) # {} -> "AlreadyExists"
    [] ~e.directory /\ IsDirectory(e.path) -> "IsDirectory"
    [] Having(e.path) = {} /\ ~IsDirectory(Front(e.path)) -> "NotDirectory"
    [] Having(e.path) = {} /\ IsDirectory(Front(e.path)) /\ Len(tree) + 1 = 256 -> "NoSpace"
    [] OTHER -> "none"
ToleratedAlways(e) == Obstacle(e) # "none"
Tolerated(e) == e.directory /\ Obstacle(e) = "AlreadyExists"

NextEntry ==
  job' = [job EXCEPT !.at = @ + 1, !.pc = IF job.at = Len(Script) THEN "last" ELSE "seed"]

\* The inode of an entry is one commit; a file is there, empty, before its data.
Create ==
  /\ job.pc = "seed" /\ UNCHANGED <<request, cache, platter>>
  /\ \/ /\ Obstacle(Entry) = "none"
        /\ tree' = IF Having(Entry.path) # {} THEN tree
                   ELSE Append(tree, [path |-> Entry.path, directory |-> Entry.directory,
                                      sectors |-> 0, whole |-> Entry.directory])
        /\ IF Entry.directory THEN NextEntry ELSE On
     \/ /\ Obstacle(Entry) # "none" /\ UNCHANGED tree
        /\ IF Tolerated(Entry) THEN NextEntry ELSE Ended("DfsFormat")
     \/ Ended("DfsFormat") /\ UNCHANGED tree

\* write_file: the runs that are free, the data, and the size.  When the room ends,
\* or a write fails, what was reserved stays with the file.
Fill ==
  LET i == Min(Having(Entry.path))
      has == tree[i].sectors
      more == IF Entry.sectors > has THEN Entry.sectors - has ELSE 0
      room == Room - Used(tree)
  IN /\ job.pc = "fill" /\ UNCHANGED <<request, cache, platter>>
     /\ \/ /\ more <= room /\ NextEntry
           /\ tree' = [tree EXCEPT ![i].sectors = has + more, ![i].whole = TRUE]
        \/ /\ Ended("DfsFormat")
           /\ \/ UNCHANGED tree
              \/ tree' = [tree EXCEPT ![i].sectors = has + (IF more <= room THEN more ELSE room)]

\* The last flush.
Finish ==
  /\ job.pc = "last" /\ UNCHANGED <<request, cache, tree>>
  /\ \/ platter' = cache /\ Ended("Installed")
     \/ Ended("Block") /\ UNCHANGED platter

-----------------------------------------------------------------------------
(* The device, failures and another attempt.                               *)

WriteBack ==
  \E p \in Parts :
    /\ platter[p] # cache[p]
    /\ \/ platter' = [platter EXCEPT ![p] = cache[p]]
       \/ p \in Large /\ platter[p] # Torn /\ platter' = [platter EXCEPT ![p] = Torn]
    /\ UNCHANGED <<request, job, cache, tree>>

\* The next start mounts what it can, and its replay spends the record.
Replayed(d) ==
  IF TableIsRead(d) /\ SuperIsRead(d) /\ Recorded(d)
  THEN [d EXCEPT !.journal = Zero, !.nodes = IF d.root = 0 /\ d.nodes = 0 THEN 0 ELSE Torn]
  ELSE d

PowerFails ==
  /\ job.attempt < request.attempts /\ job.result # "Installed"
  /\ platter' = Replayed(platter) /\ cache' = platter'
  /\ job' = NewJob(job.attempt + 1) /\ tree' = <<>> /\ UNCHANGED request

TryAgain ==
  /\ job.pc = "ended" /\ job.result # "Installed" /\ job.attempt < request.attempts
  /\ job' = NewJob(job.attempt + 1) /\ tree' = <<>> /\ UNCHANGED <<request, cache, platter>>

Next ==
  \/ Ask \/ Validate \/ SizeFat \/ PlaceFile \/ WritePart \/ ReadTable \/ Flush \/ StoreRoot
  \/ Create \/ Fill \/ Finish \/ WriteBack \/ PowerFails \/ TryAgain

Spec == Init /\ [][Next]_vars

-----------------------------------------------------------------------------
(* Properties.                                                             *)

Region(first, count) == [first |-> first, last |-> first + count - 1]
ClusterRegion(first, count) ==
  Region(ClusterStart(job.fat, first), count * SectorsPerCluster)
FileRegion(i) == ClusterRegion(job.placed[i].first, job.placed[i].count)
Planned == Len(job.placed) = 6

\* Whatever the sizes of the disk and of the files: table, tables of clusters,
\* directories, files, DFS and the second table follow each other without overlap
\* and within the disk, and the FAT has an entry for every cluster of a file.
RegionsAreApart ==
  Planned =>
    /\ 2 + EntrySectors <= FirstUsable /\ FirstUsable <= EspStart
    /\ EspStart + 1 + 2 * job.fat + RootSectors <= ClusterRegion(2, 3).first
    /\ \A i \in Files :
         /\ ClusterRegion(2, 3).last < FileRegion(i).first
         /\ FileRegion(i).first < FileRegion(i).last
         /\ FileRegion(i).last < EspStart + EspSectors
         /\ job.placed[i].first + job.placed[i].count <= 256 * job.fat
         /\ \A k \in Files : i < k => FileRegion(i).last < FileRegion(k).first
    /\ DfsStart < DfsEnd(request.sectors) /\ DfsEnd(request.sectors) < BackupEntries(request.sectors)
    /\ BackupEntries(request.sectors) + EntrySectors = request.sectors - 1

\* An installation that is cancelled or refused, because of the disk, the payload or
\* the account, leaves the disk alone: all of it is found out before the first write.
Early == {"Cancelled", "InvalidAccountConfig", "NoDisk", "EntropyUnavailable",
          "DiskTooSmall", "MissingPayload", "PayloadTooLarge"}
RefusalLeavesTheDisk ==
  job.result \in Early =>
    /\ \A p \in Parts : cache[p] # job.attempt
    /\ job.attempt = 1 => cache = Before /\ platter = Before

\* Once the new file system is formatted, a start of the kernel after a power failure
\* finds the new tree or, before it has a root, none: no node of an old tree and no
\* record of an old journal comes back, whatever the device wrote back in which order.
FormattedIsNew ==
  /\ job.pc = "root" => Mount(platter) = Refused
  /\ cache.root = job.attempt => Mount(platter) = job.attempt

\* What was reported as installed is on the platter: both tables, the boot files, and
\* every entry of the archive and the settings with all its data, within the partition.
InstalledSurvives ==
  job.result = "Installed" =>
    /\ \A p \in {"backup", "entries", "header", "esp"} : platter[p] = job.attempt
    /\ Mount(platter) = job.attempt
    /\ \A k \in DOMAIN Script :
         \E i \in DOMAIN tree : LET e == Script[k] IN
           tree[i].path = e.path /\ tree[i].directory = e.directory /\ tree[i].whole
             /\ tree[i].sectors >= e.sectors
    /\ Used(tree) <= Room
=============================================================================
