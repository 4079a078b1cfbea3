-------------------------- MODULE InstallerProofs --------------------------
(***************************************************************************)
(* Proofs about Installer, for every disk, payload, image and account and  *)
(* any number of attempts: the regions are apart, a refusal leaves the     *)
(* disk as it was, an old tree is gone once the new one is formatted, and  *)
(* what is reported as installed is there.                                 *)
(***************************************************************************)
EXTENDS Installer, FiniteSetTheorems, SequenceTheorems, WellFoundedInduction, TLAPS

-----------------------------------------------------------------------------
(* The order of the phases.                                                *)

LEMMA PhaseIndex == \A i, j \in DOMAIN Phases : Phases[i] = Phases[j] => i = j
BY DEF Phases

LEMMA Successor ==
  ASSUME NEW i \in DOMAIN Phases
  PROVE  PhaseAfter(Phases[i]) = Phases[1 + i]
<1>1. (CHOOSE j \in DOMAIN Phases : Phases[j] = Phases[i]) = i
  BY PhaseIndex
<1> QED BY <1>1 DEF PhaseAfter

LEMMA Order ==
  /\ PhaseAfter("ask") = "validate" /\ PhaseAfter("validate") = "fat"
  /\ PhaseAfter("fat") = "place" /\ PhaseAfter("place") = "backup"
  /\ PhaseAfter("backup") = "entries" /\ PhaseAfter("entries") = "header"
  /\ PhaseAfter("header") = "esp" /\ PhaseAfter("esp") = "read"
  /\ PhaseAfter("read") = "clearSuper" /\ PhaseAfter("clearSuper") = "clearJournal"
  /\ PhaseAfter("clearJournal") = "clearRoot" /\ PhaseAfter("clearRoot") = "clearNodes"
  /\ PhaseAfter("clearNodes") = "bitmap" /\ PhaseAfter("bitmap") = "super"
  /\ PhaseAfter("super") = "flush" /\ PhaseAfter("flush") = "root"
  /\ PhaseAfter("root") = "seed" /\ PhaseAfter("seed") = "fill"
<1>1. \A i \in 1 .. 18 : i \in DOMAIN Phases /\ PhaseAfter(Phases[i]) = Phases[1 + i]
  BY Successor DEF Phases
<1> QED BY <1>1 DEF Phases

-----------------------------------------------------------------------------
(* The inductive invariant.                                                *)

Planning == {"ask", "validate", "fat", "place"}
Formatting == {"clearNodes", "bitmap", "super", "flush", "root"}
Filling == {"seed", "fill", "last", "ended"}
HasJournal == {"clearRoot"} \cup Formatting
HasHeader == {"esp", "read", "clearSuper", "clearJournal"} \cup HasJournal
Pcs == Planning \cup {"backup", "entries", "header"} \cup HasHeader \cup Filling

Job ==
  [pc : Pcs, fat : {1, 128}, placed : Seq([first : Nat, count : Nat]), at : Nat,
   result : Early \cup {"none", "Block", "DfsFormat", "Installed"}, attempt : Nat \ {0}]

Typed ==
  /\ request \in Requests /\ job \in Job
  /\ job.pc # "ended" => job.result = "none"
  /\ cache \in [Parts -> Int] /\ platter \in [Parts -> Int]
  /\ \A p \in Parts : cache[p] <= job.attempt /\ platter[p] <= job.attempt

\* What Validate lets pass.
Fits ==
  /\ request.sectors >= MinDiskSectors
  /\ \A i \in Files : request.payload[i] # 0

\* The files that were placed follow each other within the clusters there are.
Laid(placed) ==
  /\ \A i \in DOMAIN placed :
       placed[i].first >= 5 /\ placed[i].count >= 1
         /\ placed[i].first + placed[i].count <= DataClusters(128) + 2
  /\ \A i, k \in DOMAIN placed : i < k => placed[i].first + placed[i].count <= placed[k].first

PlanIsSound ==
  /\ job.pc \in {"ask", "validate", "fat"} => job.placed = <<>>
  /\ job.pc \notin {"ask", "validate", "ended"} => Fits
  /\ job.pc = "place" => job.fat = 128 /\ Len(job.placed) < 6
  /\ job.placed # <<>> => job.fat = 128 /\ Fits
  /\ Laid(job.placed)

Untouched ==
  job.pc \in Planning \/ job.result \in Early =>
    /\ \A p \in Parts : cache[p] # job.attempt
    /\ job.attempt = 1 => cache = Before /\ platter = Before

\* Every part that has been written is new, and the root comes last, after a flush.
IsNew ==
  /\ cache.header = job.attempt /\ cache.entries = job.attempt /\ cache.super = job.attempt
  /\ cache.nodes = job.attempt /\ cache.journal = Zero /\ platter = cache
DiskIsSound ==
  /\ job.pc \in {"header"} \cup HasHeader => cache.entries = job.attempt
  /\ job.pc \in HasHeader => cache.header = job.attempt
  /\ job.pc \in HasJournal => cache.journal = Zero
  /\ job.pc \in Formatting => cache.root = Zero
  /\ job.pc \in {"super", "flush", "root"} => cache.nodes = job.attempt
  /\ job.pc \in {"flush", "root"} => cache.super = job.attempt
  /\ job.pc = "root" => platter = cache
  /\ cache.root = job.attempt => IsNew /\ Fits /\ job.pc \in Filling

SInv == Typed /\ PlanIsSound /\ Untouched /\ DiskIsSound

LEMMA Attempts == \A r \in Requests : r.sectors \in Nat /\ r.payload \in [1 .. 6 -> Nat] 
BY InstallerAssumption

\* A new attempt starts the plan from nothing, on a disk that no part of it is on.
LEMMA JobStarts ==
  ASSUME NEW n \in Nat \ {0}, job' = NewJob(n), request' = request, request \in Requests,
         cache' \in [Parts -> Int], platter' \in [Parts -> Int],
         \A p \in Parts : cache'[p] < n /\ platter'[p] < n,
         n = 1 => cache' = Before /\ platter' = Before
  PROVE  SInv'
<1>1. Typed'
  BY DEF Typed, Job, NewJob, Pcs, Planning, Parts
<1>2. PlanIsSound'
  BY DEF PlanIsSound, NewJob, Laid
<1>3. Untouched'
  BY DEF Untouched, NewJob, Before, Parts
<1>4. DiskIsSound'
  BY DEF DiskIsSound, NewJob, HasHeader, HasJournal, Formatting, Parts
<1> QED BY <1>1, <1>2, <1>3, <1>4 DEF SInv

LEMMA InitSound == Init => SInv
<1> SUFFICES ASSUME Init PROVE SInv
  OBVIOUS
<1>1. Before \in [Parts -> Int] /\ \A p \in Parts : Before[p] < 1
  BY DEF Before, Zero
<1>2. Typed
  BY <1>1 DEF Init, Typed, Job, NewJob, Pcs, Planning, Parts
<1>3. PlanIsSound
  BY DEF Init, PlanIsSound, NewJob, Laid
<1>4. Untouched
  BY <1>1 DEF Init, Untouched, NewJob
<1>5. DiskIsSound
  BY <1>1 DEF Init, DiskIsSound, NewJob, HasHeader, HasJournal, Formatting, Parts
<1> QED BY <1>2, <1>3, <1>4, <1>5 DEF SInv

-----------------------------------------------------------------------------
(* Every action keeps it.                                                  *)

\* A call that ends, with the disk as it is or flushed.
LEMMA EndSound ==
  ASSUME SInv, job.pc # "ended",
         NEW r \in Early \cup {"Block", "DfsFormat", "Installed"}, r \in Early => job.pc \in Planning,
         job' = [job EXCEPT !.pc = "ended", !.result = r],
         request' = request, cache' = cache, platter' = platter \/ platter' = cache
  PROVE  SInv'
<1>1. Typed /\ PlanIsSound /\ Untouched /\ DiskIsSound
  BY DEF SInv
<1>2. /\ job'.pc = "ended" /\ job'.result = r /\ job'.placed = job.placed /\ job'.fat = job.fat
      /\ job'.attempt = job.attempt /\ job' \in Job
  BY <1>1 DEF Typed, Job, Pcs, Filling
<1>3. Typed'
  BY <1>1, <1>2 DEF Typed
<1>4. PlanIsSound'
  BY <1>1, <1>2 DEF PlanIsSound, Fits
<1>5. Untouched'
  BY <1>1, <1>2 DEF Untouched, Before, Planning, Early
<1>6. DiskIsSound'
  BY <1>1, <1>2 DEF DiskIsSound, IsNew, Fits, HasHeader, HasJournal, Formatting, Filling
<1> QED BY <1>3, <1>4, <1>5, <1>6 DEF SInv

\* A step of the plan.
LEMMA PlanSound ==
  ASSUME SInv, job.pc \in Planning, job' \in Job,
         job'.result = job.result, job'.attempt = job.attempt,
         job'.pc \in Planning \cup {"backup"},
         UNCHANGED <<request, Disk>>, PlanIsSound'
  PROVE  SInv'
<1>1. Typed /\ Untouched /\ DiskIsSound /\ request' = request /\ cache' = cache /\ platter' = platter
  BY DEF SInv, Disk
<1>2. job.result = "none"
  BY <1>1 DEF Typed, Planning
<1>3. Typed'
  BY <1>1, <1>2 DEF Typed
<1>4. Untouched'
  BY <1>1, <1>2 DEF Untouched, Before, Planning, Early
<1>5. DiskIsSound'
  BY <1>1 DEF DiskIsSound, Fits, Planning, HasHeader, HasJournal, Formatting, Filling
<1> QED BY <1>3, <1>4, <1>5 DEF SInv

LEMMA AskSound == SInv /\ Ask => SInv'
<1> SUFFICES ASSUME SInv, Ask PROVE SInv'
  OBVIOUS
<1>1. job.pc = "ask" /\ UNCHANGED <<request, Disk>> /\ Typed /\ PlanIsSound
  BY DEF Ask, SInv
<1>2. CASE On
  <2>1. job' = [job EXCEPT !.pc = "validate"]
    BY <1>1, <1>2, Order DEF On
  <2>2. job' \in Job /\ job'.pc = "validate" /\ job'.result = job.result
          /\ job'.attempt = job.attempt /\ job'.placed = job.placed /\ job'.fat = job.fat
    BY <2>1, <1>1 DEF Typed, Job, Pcs, Planning
  <2>3. PlanIsSound'
    BY <2>2, <1>1 DEF PlanIsSound, Fits
  <2> QED BY <1>1, <2>2, <2>3, PlanSound DEF Planning
<1>3. CASE Ended("Cancelled")
  BY <1>1, <1>3, EndSound DEF Ended, Early, Planning, Disk
<1> QED BY <1>2, <1>3 DEF Ask

LEMMA ValidateSound == SInv /\ Validate => SInv'
<1> SUFFICES ASSUME SInv, Validate PROVE SInv'
  OBVIOUS
<1>1. job.pc = "validate" /\ UNCHANGED <<request, Disk>> /\ Typed /\ PlanIsSound
  BY DEF Validate, SInv
<1>2. Refusal = "none" => Fits
  <2> SUFFICES ASSUME Refusal = "none" PROVE Fits
    OBVIOUS
  <2>1. ~(request.sectors < MinDiskSectors) /\ ~\E i \in Files : request.payload[i] = 0
    BY Zenon DEF Refusal
  <2>2. request.sectors \in Nat /\ MinDiskSectors \in Nat
    BY <1>1, Attempts DEF Typed, MinDiskSectors, EspStart, EspSectors
  <2> QED BY <2>1, <2>2 DEF Fits
<1>3. CASE Refusal = "none"
  <2>1. job' = [job EXCEPT !.pc = "fat"]
    BY <1>1, <1>3, Order DEF Validate, On
  <2>2. job' \in Job /\ job'.pc = "fat" /\ job'.result = job.result
          /\ job'.attempt = job.attempt /\ job'.placed = job.placed /\ job'.fat = job.fat
    BY <2>1, <1>1 DEF Typed, Job, Pcs, Planning
  <2>3. PlanIsSound'
    BY <2>2, <1>1, <1>2, <1>3 DEF PlanIsSound, Fits, Laid
  <2> QED BY <1>1, <2>2, <2>3, PlanSound DEF Planning
<1>4. CASE Refusal # "none"
  <2>1. Refusal \in Early
    BY <1>4 DEF Refusal, Early
  <2>2. job' = [job EXCEPT !.pc = "ended", !.result = Refusal]
    BY <1>4 DEF Validate, Ended
  <2> QED BY <1>1, <2>1, <2>2, EndSound DEF Planning, Disk
<1> QED BY <1>3, <1>4

LEMMA FatSize == NeededFat(1) = 128 /\ NeededFat(128) = 128 /\ DataClusters(128) = 32731
BY DEF NeededFat, DataClusters, EspSectors, RootSectors, SectorsPerCluster

LEMMA SizeFatSound == SInv /\ SizeFat => SInv'
<1> SUFFICES ASSUME SInv, SizeFat PROVE SInv'
  OBVIOUS
<1>1. job.pc = "fat" /\ UNCHANGED <<request, Disk>> /\ Typed /\ PlanIsSound
  BY DEF SizeFat, SInv
<1>2. job.fat \in {1, 128} /\ NeededFat(job.fat) = 128
  BY <1>1, FatSize DEF Typed, Job
<1>3. CASE job' = [job EXCEPT !.fat = NeededFat(@)]
  <2>1. job' = [job EXCEPT !.fat = 128]
    BY <1>2, <1>3
  <2>2. job' \in Job /\ job'.pc = "fat" /\ job'.result = job.result
          /\ job'.attempt = job.attempt /\ job'.placed = job.placed
    BY <2>1, <1>1 DEF Typed, Job
  <2>3. PlanIsSound'
    BY <2>2, <1>1 DEF PlanIsSound, Fits, Laid
  <2> QED BY <1>1, <2>2, <2>3, PlanSound DEF Planning
<1>4. CASE Ended("PayloadTooLarge")
  BY <1>1, <1>4, EndSound DEF Ended, Early, Planning, Disk
<1>5. CASE NeededFat(job.fat) = job.fat /\ On
  <2>1. job' = [job EXCEPT !.pc = "place"] /\ job.fat = 128
    BY <1>1, <1>2, <1>5, Order DEF On
  <2>2. job' \in Job /\ job'.pc = "place" /\ job'.result = job.result /\ job'.fat = 128
          /\ job'.attempt = job.attempt /\ job'.placed = job.placed
    BY <2>1, <1>1 DEF Typed, Job, Pcs, Planning
  <2>3. PlanIsSound'
    BY <2>2, <1>1 DEF PlanIsSound, Fits, Laid
  <2> QED BY <1>1, <2>2, <2>3, PlanSound DEF Planning
<1> QED BY <1>3, <1>4, <1>5 DEF SizeFat

\* A file that is not empty has a cluster.
LEMMA ClustersOfBytes == \A b \in Nat \ {0} : Clusters(b) \in Nat /\ Clusters(b) >= 1
BY DEF Clusters, ClusterBytes

LEMMA PlaceFileSound == SInv /\ PlaceFile => SInv'
<1> SUFFICES ASSUME SInv, PlaceFile PROVE SInv'
  OBVIOUS
<1> DEFINE count == Clusters(request.payload[Len(job.placed) + 1])
           piece == [first |-> FirstFree, count |-> count]
<1>1. job.pc = "place" /\ UNCHANGED <<request, Disk>> /\ Typed /\ PlanIsSound
  BY DEF PlaceFile, SInv
<1>2. job.placed \in Seq([first : Nat, count : Nat]) /\ Len(job.placed) < 6
        /\ Laid(job.placed) /\ Fits /\ job.fat = 128
  BY <1>1 DEF Typed, Job, PlanIsSound
<1>3. count \in Nat /\ count >= 1
  <2> DEFINE S == [first : Nat, count : Nat]
  <2>a. job.placed \in Seq(S)
    BY <1>2
  <2> HIDE DEF S
  <2>b. Len(job.placed) \in Nat
    BY <2>a, LenProperties
  <2>c. Len(job.placed) < 6
    BY <1>2
  <2>1. Len(job.placed) + 1 \in 1 .. 6
    BY <2>b, <2>c
  <2> DEFINE bytes == request.payload[Len(job.placed) + 1]
  <2>2. request.payload \in [1 .. 6 -> Nat]
    BY <1>1, Attempts DEF Typed
  <2>3. bytes # 0
    BY <2>1, <1>2 DEF Fits, Files
  <2>4. bytes \in Nat \ {0}
    BY <2>1, <2>2, <2>3
  <2>5. Clusters(bytes) \in Nat /\ Clusters(bytes) >= 1
    BY ONLY <2>4, ClustersOfBytes
  <2> QED BY <2>5
<1>4. FirstFree \in Nat /\ FirstFree >= 5
        /\ \A i \in DOMAIN job.placed : job.placed[i].first + job.placed[i].count <= FirstFree
  <2>1. CASE job.placed = <<>>
    BY <2>1 DEF FirstFree
  <2>2. CASE job.placed # <<>>
    <3>1. FirstFree = job.placed[Len(job.placed)].first + job.placed[Len(job.placed)].count
      BY <2>2 DEF FirstFree, Last
    <3> DEFINE n == Len(job.placed)
    <3>a. n \in Nat /\ n # 0 /\ DOMAIN job.placed = 1 .. n
      BY <2>2, <1>2, EmptySeq, LenProperties
    <3>b. \A i \in 1 .. n : job.placed[i] \in [first : Nat, count : Nat]
      <4> DEFINE S == [first : Nat, count : Nat]
      <4>1. job.placed \in Seq(S)
        BY <1>2
      <4> HIDE DEF S
      <4>2. \A i \in 1 .. Len(job.placed) : job.placed[i] \in S
        BY <4>1, ElementOfSeq
      <4> QED BY <4>2 DEF S
    <3>2. n \in DOMAIN job.placed
            /\ \A i \in DOMAIN job.placed : job.placed[i] \in [first : Nat, count : Nat]
      BY <3>a, <3>b
    <3>3. \A i \in DOMAIN job.placed : i = Len(job.placed) \/ i < Len(job.placed)
      BY <1>2
    <3>4. ASSUME NEW i \in DOMAIN job.placed
          PROVE  job.placed[i].first + job.placed[i].count <= FirstFree
      <4>1. CASE i = Len(job.placed)
        BY <4>1, <3>1, <3>2
      <4>2. CASE i < Len(job.placed)
        BY <4>2, <3>1, <3>2, <1>2 DEF Laid
      <4> QED BY <4>1, <4>2, <3>3
    <3> QED BY <3>1, <3>2, <3>4, <1>2 DEF Laid
  <2> QED BY <2>1, <2>2
<1>5. CASE FirstFree + count > DataClusters(job.fat) + 2
  <2>1. Ended("PayloadTooLarge")
    BY <1>5 DEF PlaceFile
  <2> QED BY <1>1, <2>1, EndSound DEF Ended, Early, Planning, Disk
<1>6. CASE ~(FirstFree + count > DataClusters(job.fat) + 2)
  <2>1. job' = [job EXCEPT !.placed = Append(@, piece),
                           !.pc = IF Len(job.placed) + 1 = 6 THEN "backup" ELSE @]
    <3>1. job' = [job EXCEPT !.placed = Append(@, piece),
                             !.pc = IF Len(job.placed) + 1 = 6 THEN PhaseAfter(@) ELSE @]
      BY <1>6 DEF PlaceFile
    <3>2. PhaseAfter(job.pc) = "backup"
      BY <1>1, Order
    <3> HIDE DEF piece
    <3> QED BY <3>1, <3>2
  <2>a. Append(job.placed, piece) \in Seq([first : Nat, count : Nat])
          /\ Append(job.placed, piece) # <<>>
          /\ Len(Append(job.placed, piece)) = Len(job.placed) + 1
    <3>1. piece \in [first : Nat, count : Nat]
      BY <1>3, <1>4
    <3> QED BY <3>1, <1>2, AppendProperties
  <2> HIDE DEF piece
  <2>2. job'.placed = Append(job.placed, piece) /\ job'.fat = 128 /\ job' \in Job
          /\ job'.result = job.result /\ job'.attempt = job.attempt
    BY <2>1, <2>a, <1>1, <1>2 DEF Typed, Job, Pcs, Planning
  <2>b. \/ job'.pc = "backup"
        \/ job'.pc = "place" /\ Len(job.placed) + 1 # 6
    BY <2>1, <1>1 DEF Typed, Job
  <2> USE DEF piece
  <2>3. FirstFree + count <= 32733
    BY <1>6, <1>2, <1>3, <1>4, FatSize
  <2>4. Laid(job'.placed)
    <3> DEFINE new == Append(job.placed, piece)
    <3>1. DOMAIN new = 1 .. Len(job.placed) + 1 /\ new[Len(job.placed) + 1] = piece
            /\ \A i \in DOMAIN job.placed : new[i] = job.placed[i]
            /\ DOMAIN job.placed = 1 .. Len(job.placed)
      BY <1>2, <1>3, <1>4
    <3>2. \A i \in DOMAIN new : i = Len(job.placed) + 1 \/ i \in DOMAIN job.placed
      BY <3>1, <1>2
    <3>3. ASSUME NEW i \in DOMAIN new
          PROVE  new[i].first >= 5 /\ new[i].count >= 1 /\ new[i].first + new[i].count <= 32733
      <4>1. CASE i = Len(job.placed) + 1
        BY <4>1, <3>1, <1>3, <1>4, <2>3
      <4>2. CASE i \in DOMAIN job.placed
        <5>1. new[i] = job.placed[i]
          BY <4>2, <3>1
        <5>2. /\ job.placed[i].first >= 5 /\ job.placed[i].count >= 1
              /\ job.placed[i].first + job.placed[i].count <= DataClusters(128) + 2
          BY <4>2, <1>2 DEF Laid
        <5>3. job.placed[i].first + job.placed[i].count <= 32733
          BY <5>2, FatSize
        <5> HIDE DEF new
        <5> QED BY <5>1, <5>2, <5>3
      <4> QED BY <4>1, <4>2, <3>2
    <3>4. ASSUME NEW i \in DOMAIN new, NEW k \in DOMAIN new, i < k
          PROVE  new[i].first + new[i].count <= new[k].first
      <4>1. i \in DOMAIN job.placed
        BY <3>1, <3>2, <3>4, <1>2
      <4>2. CASE k \in DOMAIN job.placed
        <5>1. new[i] = job.placed[i] /\ new[k] = job.placed[k]
          BY <4>1, <4>2, <3>1
        <5>2. Laid(job.placed)
          BY <1>2
        <5>3. job.placed[i].first + job.placed[i].count <= job.placed[k].first
          BY <4>1, <4>2, <5>2, <3>4 DEF Laid
        <5> HIDE DEF new
        <5> QED BY <5>1, <5>3
      <4>3. CASE k = Len(job.placed) + 1
        BY <4>1, <4>3, <3>1, <1>4
      <4> QED BY <4>2, <4>3, <3>2
    <3>5. \A i, k \in DOMAIN new : i < k => new[i].first + new[i].count <= new[k].first
      BY <3>4
    <3> HIDE DEF new
    <3>6. job'.placed = new
      BY <2>2 DEF new
    <3> QED BY <3>3, <3>5, <3>6, FatSize DEF Laid
  <2>5. PlanIsSound'
    <3>1. Fits'
      BY <1>1, <1>2 DEF Fits
    <3>2. job'.pc = "place" => Len(job'.placed) < 6
      BY <2>a, <2>2, <2>b, <1>2, LenProperties
    <3> QED BY <3>1, <3>2, <2>2, <2>4, <2>b DEF PlanIsSound
  <2>6. job'.pc \in Planning \cup {"backup"}
    BY <2>b DEF Planning
  <2> QED BY <1>1, <2>2, <2>5, <2>6, PlanSound DEF Planning
<1> QED BY <1>5, <1>6

\* The phase, the part it writes, the phase after it and whether it clears the part.
LEMMA WriteOrder ==
  ASSUME job.pc \in DOMAIN Target
  PROVE
  LET Is(pc, part, next) == job.pc = pc /\ Target[job.pc] = part /\ PhaseAfter(job.pc) = next
  IN \/ /\ job.pc \notin Clearing
        /\ \/ Is("backup", "backup", "entries") \/ Is("entries", "entries", "header")
           \/ Is("header", "header", "esp") \/ Is("esp", "esp", "read")
           \/ Is("bitmap", "nodes", "super") \/ Is("super", "super", "flush")
     \/ /\ job.pc \in Clearing
        /\ \/ Is("clearSuper", "super", "clearJournal") \/ Is("clearJournal", "journal", "clearRoot")
           \/ Is("clearRoot", "root", "clearNodes") \/ Is("clearNodes", "nodes", "bitmap")
BY Order DEF Target, Clearing

\* A call that goes on with another phase once something is written.
LEMMA GoesOnTyped ==
  ASSUME SInv, job.pc \notin Planning \cup {"ended"}, NEW q \in Pcs \ (Planning \cup {"ended"}),
         job' \in Job, job'.pc = q, job'.result = job.result, job'.attempt = job.attempt,
         job'.placed = job.placed, job'.fat = job.fat, request' = request,
         cache' \in [Parts -> Int], platter' \in [Parts -> Int],
         \A p \in Parts : cache'[p] <= job.attempt /\ platter'[p] <= job.attempt
  PROVE  Typed' /\ PlanIsSound' /\ Untouched'
<1>1. Typed /\ PlanIsSound /\ Untouched
  BY DEF SInv
<1>2. job.result = "none"
  BY <1>1 DEF Typed
<1>3. Typed'
  BY <1>1, <1>2 DEF Typed
<1>4. PlanIsSound'
  <2>1. Fits /\ job'.pc \notin {"ask", "validate", "fat", "place", "ended"}
    BY <1>1 DEF PlanIsSound, Planning
  <2>2. Fits'
    BY <2>1 DEF Fits
  <2> QED BY <2>1, <2>2, <1>1 DEF PlanIsSound, Laid
<1>5. Untouched'
  BY <1>1, <1>2 DEF Untouched, Early
<1> QED BY <1>3, <1>4, <1>5

LEMMA WritePartSound == SInv /\ WritePart => SInv'
<1> SUFFICES ASSUME SInv, WritePart PROVE SInv'
  OBVIOUS
<1> DEFINE part == Target[job.pc]
<1>1. job.pc \in DOMAIN Target /\ UNCHANGED <<request, platter, tree>> /\ Typed /\ DiskIsSound
  BY DEF WritePart, SInv
<1>2. part \in Parts
  BY <1>1, WriteOrder DEF Parts
<1>3. job.pc \notin Planning \cup Filling /\ job.pc # "root"
  BY <1>1, WriteOrder DEF Planning, Filling
<1>4. cache.root # job.attempt
  BY <1>1, <1>3 DEF DiskIsSound
<1> DEFINE value == IF job.pc \in Clearing THEN Zero ELSE job.attempt
<1>5. CASE cache' = [cache EXCEPT ![part] = value] /\ On
  <2>1. job' = [job EXCEPT !.pc = PhaseAfter(job.pc)]
    BY <1>5 DEF On
  <2>2. PhaseAfter(job.pc) \in Pcs \ (Planning \cup Filling)
    BY <1>1, WriteOrder DEF Pcs, Planning, Filling, HasHeader, HasJournal, Formatting
  <2>3. job' \in Job /\ job'.pc = PhaseAfter(job.pc) /\ job'.result = job.result
          /\ job'.attempt = job.attempt /\ job'.placed = job.placed /\ job'.fat = job.fat
    BY <2>1, <2>2, <1>1 DEF Typed, Job
  <2>4. value \in Int /\ value <= job.attempt
    BY <1>1 DEF Typed, Job, Zero
  <2>5. /\ cache' \in [Parts -> Int] /\ cache'[part] = value
        /\ \A p \in Parts \ {part} : cache'[p] = cache[p]
        /\ \A p \in Parts : cache'[p] <= job.attempt
    BY <1>1, <1>2, <1>5, <2>4 DEF Typed
  <2>6. Typed' /\ PlanIsSound' /\ Untouched'
    BY <1>1, <1>3, <2>2, <2>3, <2>5, GoesOnTyped DEF Filling, Typed
  <2>7. DiskIsSound'
    <3>1. cache'.root # job.attempt
      <4>1. CASE part = "root"
        <5>1. value = Zero /\ job.attempt \in Nat
          BY <4>1, <1>1, WriteOrder DEF Typed, Job
        <5> QED BY <4>1, <5>1, <2>5 DEF Zero
      <4>2. CASE part # "root"
        BY <4>2, <1>4, <2>5 DEF Parts
      <4> QED BY <4>1, <4>2
    <3>2. job'.pc # "root"
      BY <1>1, <2>3, WriteOrder
    <3>3. job'.pc \in {"header"} \cup HasHeader => cache'.entries = job.attempt
      <4>1. CASE job.pc = "entries"
        <5>1. part = "entries" /\ value = job.attempt
          BY <4>1, <1>1, WriteOrder
        <5> QED BY <5>1, <2>5
      <4>2. CASE job.pc # "entries"
        <5>1. job'.pc \in {"header"} \cup HasHeader => job.pc \in {"header"} \cup HasHeader
          BY <4>2, <1>1, <2>3, WriteOrder DEF HasHeader, HasJournal, Formatting
        <5>2. part # "entries"
          BY <4>2, <1>1, WriteOrder
        <5> QED BY <5>1, <5>2, <1>1, <2>5 DEF DiskIsSound, Parts
      <4> QED BY <4>1, <4>2
    <3>4. job'.pc \in HasHeader => cache'.header = job.attempt
      BY <1>1, <1>2, <2>3, <2>5, WriteOrder DEF DiskIsSound, HasHeader, HasJournal, Formatting, Parts
    <3>5. job'.pc \in HasJournal => cache'.journal = Zero
      BY <1>1, <1>2, <2>3, <2>5, WriteOrder DEF DiskIsSound, HasJournal, Formatting, Parts
    <3>6. job'.pc \in Formatting => cache'.root = Zero
      BY <1>1, <1>2, <2>3, <2>5, WriteOrder DEF DiskIsSound, Formatting, Parts
    <3>7. job'.pc \in {"super", "flush", "root"} => cache'.nodes = job.attempt
      BY <1>1, <1>2, <2>3, <2>5, WriteOrder DEF DiskIsSound, Parts
    <3>8. job'.pc \in {"flush", "root"} => cache'.super = job.attempt
      BY <1>1, <1>2, <2>3, <2>5, WriteOrder DEF DiskIsSound, Parts
    <3> QED BY <2>3, <3>1, <3>2, <3>3, <3>4, <3>5, <3>6, <3>7, <3>8 DEF DiskIsSound
  <2> QED BY <2>6, <2>7 DEF SInv
<1>6. CASE Ended(FailureOf(job.pc)) /\ cache' = cache
  <2>1. FailureOf(job.pc) \in {"DfsFormat", "Block"}
    BY DEF FailureOf
  <2>2. job' = [job EXCEPT !.pc = "ended", !.result = FailureOf(job.pc)]
    BY <1>6 DEF Ended
  <2>3. job.pc # "ended" /\ FailureOf(job.pc) \notin Early
    BY <1>3, <2>1 DEF Filling, Early
  <2> QED BY <1>1, <1>6, <2>1, <2>2, <2>3, EndSound
<1>7. CASE Ended(FailureOf(job.pc)) /\ part \in Large /\ cache' = [cache EXCEPT ![part] = Torn]
  <2>1. FailureOf(job.pc) \in {"DfsFormat", "Block"}
    BY DEF FailureOf
  <2>2. job' = [job EXCEPT !.pc = "ended", !.result = FailureOf(job.pc)]
    BY <1>7 DEF Ended
  <2>3. /\ job'.pc = "ended" /\ job'.result \in {"DfsFormat", "Block"} /\ job'.placed = job.placed
        /\ job'.fat = job.fat /\ job'.attempt = job.attempt /\ job' \in Job
    BY <2>1, <2>2, <1>1 DEF Typed, Job, Pcs, Filling
  <2>4. /\ cache' \in [Parts -> Int] /\ cache'.root = cache.root
        /\ \A p \in Parts : cache'[p] <= job.attempt
    <3>1. job.attempt \in Nat /\ Torn = -2 /\ part # "root"
      BY <1>1, <1>7 DEF Typed, Job, Torn, Large
    <3>2. cache \in [Parts -> Int] /\ \A p \in Parts : cache[p] <= job.attempt
      BY <1>1 DEF Typed
    <3>3. \A p \in Parts : cache'[p] = IF p = part THEN Torn ELSE cache[p]
      BY <3>2, <1>7
    <3>a. Torn \in Int
      BY <3>1
    <3> HIDE DEF part
    <3>b. cache' \in [Parts -> Int]
      BY <3>a, <3>2, <1>7
    <3>4. cache' \in [Parts -> Int] /\ "root" \in Parts
      BY <3>b DEF Parts
    <3> QED BY <3>1, <3>2, <3>3, <3>4
  <2>5. Typed'
    BY <1>1, <2>3, <2>4 DEF Typed
  <2>6. PlanIsSound'
    BY <1>1, <2>3 DEF PlanIsSound, SInv, Fits
  <2>7. Untouched'
    BY <2>3 DEF Untouched, Planning, Early
  <2>8. DiskIsSound'
    BY <1>4, <2>3, <2>4 DEF DiskIsSound, HasHeader, HasJournal, Formatting
  <2> QED BY <2>5, <2>6, <2>7, <2>8 DEF SInv
<1> QED BY <1>5, <1>6, <1>7 DEF WritePart

\* A step after planning that leaves the disk alone.
LEMMA GoesOnSound ==
  ASSUME SInv, job.pc \notin Planning \cup {"ended"}, NEW q \in Pcs \ (Planning \cup {"ended"}),
         job' \in Job, job'.pc = q, job'.result = job.result, job'.attempt = job.attempt,
         job'.placed = job.placed, job'.fat = job.fat,
         request' = request, cache' = cache, platter' = platter, DiskIsSound'
  PROVE  SInv'
<1>1. Typed
  BY DEF SInv
<1> QED BY <1>1, GoesOnTyped DEF SInv, Typed

LEMMA ReadTableSound == SInv /\ ReadTable => SInv'
<1> SUFFICES ASSUME SInv, ReadTable PROVE SInv'
  OBVIOUS
<1>1. job.pc = "read" /\ UNCHANGED <<request, Disk>> /\ Typed /\ DiskIsSound
  BY DEF ReadTable, SInv
<1>2. CASE On
  <2>1. job' = [job EXCEPT !.pc = "clearSuper"]
    BY <1>1, <1>2, Order DEF On
  <2>2. job' \in Job /\ job'.pc = "clearSuper" /\ job'.result = job.result
          /\ job'.attempt = job.attempt /\ job'.placed = job.placed /\ job'.fat = job.fat
    BY <2>1, <1>1 DEF Typed, Job, Pcs, HasHeader
  <2>3. DiskIsSound'
    BY <1>1, <2>2 DEF DiskIsSound, HasHeader, HasJournal, Formatting, Filling, Disk
  <2>4. "clearSuper" \in Pcs \ (Planning \cup {"ended"}) /\ job.pc \notin Planning \cup {"ended"}
    BY <1>1 DEF Pcs, Planning, HasHeader
  <2> QED BY <1>1, <2>2, <2>3, <2>4, GoesOnSound DEF Disk
<1>3. CASE Ended("DfsFormat")
  BY <1>1, <1>3, EndSound DEF Ended, Early, Disk
<1> QED BY <1>2, <1>3 DEF ReadTable

LEMMA FlushSound == SInv /\ Flush => SInv'
<1> SUFFICES ASSUME SInv, Flush PROVE SInv'
  OBVIOUS
<1>1. job.pc = "flush" /\ UNCHANGED <<request, cache, tree>> /\ Typed /\ DiskIsSound
  BY DEF Flush, SInv
<1>2. CASE platter' = cache /\ On
  <2>1. job' = [job EXCEPT !.pc = "root"]
    BY <1>1, <1>2, Order DEF On
  <2>2. job' \in Job /\ job'.pc = "root" /\ job'.result = job.result
          /\ job'.attempt = job.attempt /\ job'.placed = job.placed /\ job'.fat = job.fat
    BY <2>1, <1>1 DEF Typed, Job, Pcs, HasHeader, HasJournal, Formatting
  <2>3. DiskIsSound'
    BY <1>1, <1>2, <2>2 DEF DiskIsSound, HasHeader, HasJournal, Formatting, Filling
  <2>4. "root" \in Pcs \ (Planning \cup {"ended"}) /\ job.pc \notin Planning \cup {"ended"}
    BY <1>1 DEF Pcs, Planning, HasHeader, HasJournal, Formatting
  <2>5. Typed' /\ PlanIsSound' /\ Untouched'
    BY <1>1, <1>2, <2>2, <2>4, GoesOnTyped DEF Typed
  <2> QED BY <2>3, <2>5 DEF SInv
<1>3. CASE Ended("DfsFormat") /\ UNCHANGED platter
  BY <1>1, <1>3, EndSound DEF Ended, Early
<1> QED BY <1>2, <1>3 DEF Flush

LEMMA StoreRootSound == SInv /\ StoreRoot => SInv'
<1> SUFFICES ASSUME SInv, StoreRoot PROVE SInv'
  OBVIOUS
<1>1. job.pc = "root" /\ UNCHANGED request /\ Typed /\ DiskIsSound /\ PlanIsSound
  BY DEF StoreRoot, SInv
<1>2. CASE On /\ cache' = [cache EXCEPT !.root = job.attempt] /\ platter' = cache' /\ tree' = <<>>
  <2>1. job' = [job EXCEPT !.pc = "seed"]
    BY <1>1, <1>2, Order DEF On
  <2>2. job' \in Job /\ job'.pc = "seed" /\ job'.result = job.result
          /\ job'.attempt = job.attempt /\ job'.placed = job.placed /\ job'.fat = job.fat
    BY <2>1, <1>1 DEF Typed, Job, Pcs, Filling
  <2>3. /\ cache.header = job.attempt /\ cache.entries = job.attempt /\ cache.super = job.attempt
        /\ cache.nodes = job.attempt /\ cache.journal = Zero /\ Fits
    BY <1>1 DEF DiskIsSound, PlanIsSound, HasHeader, HasJournal, Formatting
  <2>4. /\ cache' \in [Parts -> Int] /\ \A p \in Parts : cache'[p] <= job.attempt
        /\ cache'.header = cache.header /\ cache'.entries = cache.entries /\ cache'.super = cache.super
        /\ cache'.nodes = cache.nodes /\ cache'.journal = cache.journal
    <3>1. cache \in [Parts -> Int] /\ job.attempt \in Int /\ \A p \in Parts : cache[p] <= job.attempt
      BY <1>1 DEF Typed, Job
    <3>2. cache' \in [Parts -> Int] /\ \A p \in Parts : cache'[p] = IF p = "root" THEN job.attempt ELSE cache[p]
      BY <1>2, <3>1
    <3>3. \A p \in Parts : cache'[p] <= job.attempt
      BY <3>1, <3>2
    <3> QED BY <3>2, <3>3 DEF Parts
  <2>5. DiskIsSound'
    <3>1. IsNew' /\ Fits' /\ job'.pc \in Filling
      BY <1>1, <1>2, <2>2, <2>3, <2>4 DEF IsNew, Fits, Filling
    <3> QED BY <3>1, <2>2 DEF DiskIsSound, HasHeader, HasJournal, Formatting
  <2>6. "seed" \in Pcs \ (Planning \cup {"ended"}) /\ job.pc \notin Planning \cup {"ended"}
    BY <1>1 DEF Pcs, Planning, Filling
  <2>7. Typed' /\ PlanIsSound' /\ Untouched'
    <3>1. platter' \in [Parts -> Int] /\ \A p \in Parts : cache'[p] <= job.attempt /\ platter'[p] <= job.attempt
      BY <1>2, <2>4
    <3> QED BY <1>1, <2>2, <2>4, <2>6, <3>1, GoesOnTyped
  <2> QED BY <2>5, <2>7 DEF SInv
<1>3. CASE Ended("DfsFormat") /\ UNCHANGED Disk
  BY <1>1, <1>3, EndSound DEF Ended, Early, Disk
<1> QED BY <1>2, <1>3 DEF StoreRoot

\* A step of the tree: the call goes on in the last phases, the disk is not touched.
LEMMA SeedSound ==
  ASSUME SInv, job.pc \in {"seed", "fill"}, NEW q \in {"seed", "fill", "last"}, NEW at \in Nat,
         job' = [job EXCEPT !.at = at, !.pc = q],
         request' = request, cache' = cache, platter' = platter
  PROVE  SInv'
<1>1. Typed /\ DiskIsSound
  BY DEF SInv
<1>2. job' \in Job /\ job'.pc = q /\ job'.result = job.result
        /\ job'.attempt = job.attempt /\ job'.placed = job.placed /\ job'.fat = job.fat
  BY <1>1 DEF Typed, Job, Pcs, Filling
<1>3. q \in Pcs \ (Planning \cup {"ended"}) /\ job.pc \notin Planning \cup {"ended"}
  BY DEF Pcs, Planning, Filling
<1>4. DiskIsSound'
  <2>1. q \in Filling /\ q \notin {"header"} \cup HasHeader
    BY DEF Filling, HasHeader, HasJournal, Formatting
  <2> QED BY <1>1, <1>2, <2>1 DEF DiskIsSound, IsNew, Fits, HasHeader, HasJournal, Formatting
<1> QED BY <1>2, <1>3, <1>4, GoesOnSound

LEMMA CreateSound == SInv /\ Create => SInv'
<1> SUFFICES ASSUME SInv, Create PROVE SInv'
  OBVIOUS
<1>1. job.pc = "seed" /\ UNCHANGED <<request, cache, platter>> /\ Typed /\ job.at \in Nat
  BY DEF Create, SInv, Typed, Job
<1>2. CASE NextEntry
  <2>1. PICK q \in {"seed", "last"} : job' = [job EXCEPT !.at = job.at + 1, !.pc = q]
    BY <1>2 DEF NextEntry
  <2>2. job.at + 1 \in Nat /\ q \in {"seed", "fill", "last"} /\ job.pc \in {"seed", "fill"}
    BY <1>1
  <2> QED BY <1>1, <2>1, <2>2, SeedSound
<1>3. CASE On
  <2>1. job' = [job EXCEPT !.at = job.at, !.pc = "fill"]
    BY <1>1, <1>3, Order DEF On, Typed, Job
  <2> QED BY <1>1, <2>1, SeedSound
<1>4. CASE Ended("DfsFormat")
  BY <1>1, <1>4, EndSound DEF Ended, Early
<1> QED BY <1>2, <1>3, <1>4 DEF Create

LEMMA FillSound == SInv /\ Fill => SInv'
<1> SUFFICES ASSUME SInv, Fill PROVE SInv'
  OBVIOUS
<1>1. job.pc = "fill" /\ UNCHANGED <<request, cache, platter>> /\ Typed /\ job.at \in Nat
  BY DEF Fill, SInv, Typed, Job
<1>2. CASE NextEntry
  <2>1. PICK q \in {"seed", "last"} : job' = [job EXCEPT !.at = job.at + 1, !.pc = q]
    BY <1>2 DEF NextEntry
  <2>2. job.at + 1 \in Nat /\ q \in {"seed", "fill", "last"} /\ job.pc \in {"seed", "fill"}
    BY <1>1
  <2> QED BY <1>1, <2>1, <2>2, SeedSound
<1>3. CASE Ended("DfsFormat")
  BY <1>1, <1>3, EndSound DEF Ended, Early
<1> QED BY <1>2, <1>3 DEF Fill

LEMMA FinishSound == SInv /\ Finish => SInv'
<1> SUFFICES ASSUME SInv, Finish PROVE SInv'
  OBVIOUS
<1>1. job.pc = "last" /\ UNCHANGED <<request, cache, tree>>
  BY DEF Finish
<1>2. CASE platter' = cache /\ Ended("Installed")
  BY <1>1, <1>2, EndSound DEF Ended, Early
<1>3. CASE Ended("Block") /\ UNCHANGED platter
  BY <1>1, <1>3, EndSound DEF Ended, Early
<1> QED BY <1>2, <1>3 DEF Finish

\* The device writes back nothing while cache and platter agree.
LEMMA WriteBackSound == SInv /\ WriteBack => SInv'
<1> SUFFICES ASSUME SInv, WriteBack PROVE SInv'
  OBVIOUS
<1>1. UNCHANGED <<request, job, cache, tree>> /\ platter # cache
  BY DEF WriteBack
<1>2. Typed /\ PlanIsSound /\ Untouched /\ DiskIsSound
  BY DEF SInv
<1>3. PICK p \in Parts : platter' = [platter EXCEPT ![p] = cache[p]] \/ platter' = [platter EXCEPT ![p] = Torn]
  BY DEF WriteBack
<1>4. Typed'
  <2>1. cache[p] \in Int /\ cache[p] <= job.attempt /\ Torn \in Int /\ Torn <= job.attempt
    BY <1>2 DEF Typed, Job, Torn
  <2>2. PICK v \in Int : v <= job.attempt /\ platter' = [platter EXCEPT ![p] = v]
    BY <1>3, <2>1
  <2>3. platter' \in [Parts -> Int] /\ \A x \in Parts : platter'[x] = IF x = p THEN v ELSE platter[x]
    BY <1>2, <2>2 DEF Typed
  <2>4. \A x \in Parts : cache[x] <= job.attempt /\ platter'[x] <= job.attempt
    BY <1>2, <2>2, <2>3 DEF Typed
  <2> QED BY <1>1, <1>2, <2>3, <2>4 DEF Typed
<1>5. PlanIsSound'
  BY <1>1, <1>2 DEF PlanIsSound, Fits
<1>6. Untouched'
  BY <1>1, <1>2 DEF Untouched, Before
<1>7. DiskIsSound'
  BY <1>1, <1>2 DEF DiskIsSound, IsNew
<1> QED BY <1>4, <1>5, <1>6, <1>7 DEF SInv

LEMMA PowerFailsSound == SInv /\ PowerFails => SInv'
<1> SUFFICES ASSUME SInv, PowerFails PROVE SInv'
  OBVIOUS
<1>1. Typed /\ job.attempt \in Nat \ {0}
  BY DEF SInv, Typed, Job
<1>2. platter' = Replayed(platter) /\ cache' = platter' /\ job' = NewJob(job.attempt + 1) /\ request' = request
  BY DEF PowerFails
<1>3. Replayed(platter) \in [Parts -> Int] /\ \A p \in Parts : Replayed(platter)[p] < job.attempt + 1
  <2>1. /\ platter \in [Parts -> Int] /\ job.attempt \in Nat \ {0}
        /\ \A p \in Parts : platter[p] < job.attempt + 1
    BY <1>1 DEF Typed
  <2>2. Replayed(platter) = platter
          \/ \E v \in {0, Torn} : Replayed(platter) = [platter EXCEPT !.journal = Zero, !.nodes = v]
    BY DEF Replayed
  <2>3. ASSUME NEW v \in {0, Torn}, Replayed(platter) = [platter EXCEPT !.journal = Zero, !.nodes = v]
        PROVE  Replayed(platter) \in [Parts -> Int] /\ \A p \in Parts : Replayed(platter)[p] < job.attempt + 1
    <3>1. v \in Int /\ Zero \in Int /\ v < job.attempt + 1 /\ Zero < job.attempt + 1
      BY <2>1 DEF Torn, Zero
    <3>2. Replayed(platter) \in [Parts -> Int]
            /\ \A p \in Parts : Replayed(platter)[p] \in {platter[p], v, Zero}
      BY <2>1, <2>3, <3>1
    <3> QED BY <2>1, <3>1, <3>2
  <2> QED BY <2>1, <2>2, <2>3
<1> QED BY <1>1, <1>2, <1>3, JobStarts DEF Typed

LEMMA TryAgainSound == SInv /\ TryAgain => SInv'
<1> SUFFICES ASSUME SInv, TryAgain PROVE SInv'
  OBVIOUS
<1>1. Typed /\ job.attempt \in Nat \ {0}
  BY DEF SInv, Typed, Job
<1>2. UNCHANGED <<request, cache, platter>> /\ job' = NewJob(job.attempt + 1)
  BY DEF TryAgain
<1>3. \A p \in Parts : cache[p] < job.attempt + 1 /\ platter[p] < job.attempt + 1
  BY <1>1 DEF Typed
<1> QED BY <1>1, <1>2, <1>3, JobStarts DEF Typed

\* The inductive invariant: what is planned fits, what is not yet written is untouched,
\* and the parts of the new file system are on the disk in the order of the phases.
THEOREM InstallationIsSound == Spec => []SInv
<1>1. SInv /\ [Next]_vars => SInv'
  <2> SUFFICES ASSUME SInv, [Next]_vars PROVE SInv'
    OBVIOUS
  <2>1. CASE UNCHANGED vars
    BY <2>1 DEF vars, SInv, Typed, PlanIsSound, Fits, Untouched, Before, DiskIsSound, IsNew
  <2> QED
    BY <2>1, AskSound, ValidateSound, SizeFatSound, PlaceFileSound, WritePartSound, ReadTableSound,
       FlushSound, StoreRootSound, CreateSound, FillSound, FinishSound, WriteBackSound,
       PowerFailsSound, TryAgainSound DEF Next
<1> QED BY <1>1, InitSound, PTL DEF Spec

-----------------------------------------------------------------------------
(* What follows from it.                                                   *)

\* The sizes of the regions: the clusters end before the DFS, which ends before the
\* second table, and a FAT of 128 sectors has an entry for every cluster.
LEMMA DiskFits ==
  ASSUME NEW n \in Nat, n >= MinDiskSectors
  PROVE  /\ DfsStart < DfsEnd(n) /\ DfsEnd(n) < BackupEntries(n) /\ DfsEnd(n) <= LastUsable(n)
         /\ BackupEntries(n) + EntrySectors = n - 1 /\ ValidTable(n)
<1>1. MinDiskSectors = 268288
  BY DEF MinDiskSectors, EspStart, EspSectors
<1>2. BackupEntries(n) = n - 33 /\ LastUsable(n) = n - 34 /\ DfsStart = 264192
  BY DEF BackupEntries, LastUsable, DfsStart, EntrySectors, EspStart, EspSectors
<1>3. (n - 33) % 2048 \in 0 .. 2047
  BY <1>1
<1>4. DfsEnd(n) = n - 34 - ((n - 33) % 2048)
  BY <1>1, <1>2 DEF DfsEnd, Alignment
<1>5. DfsStart < DfsEnd(n) /\ DfsEnd(n) < BackupEntries(n) /\ DfsEnd(n) <= LastUsable(n)
  BY <1>1, <1>2, <1>3, <1>4
<1>6. BackupEntries(n) + EntrySectors = n - 1
  BY <1>2 DEF EntrySectors
<1>7. ValidTable(n)
  BY <1>1, <1>2 DEF ValidTable, FirstUsable, EntrySectors
<1> QED BY <1>5, <1>6, <1>7

\* For every size of the disk and of the six files, the regions an installation
\* plans lie apart and within the disk.
THEOREM RegionsAlwaysApart == Spec => []RegionsAreApart
<1>1. SInv => RegionsAreApart
  <2> SUFFICES ASSUME SInv, Planned PROVE RegionsAreApart
    BY DEF RegionsAreApart
  <2>1. Typed /\ PlanIsSound /\ job.placed \in Seq([first : Nat, count : Nat]) /\ Len(job.placed) = 6
    BY DEF SInv, Typed, Job, Planned
  <2>2. DOMAIN job.placed = 1 .. 6 /\ job.placed # <<>>
    <3>1. DOMAIN job.placed = 1 .. 6
      BY <2>1, LenProperties
    <3>2. Len(<<>>) = 0
      OBVIOUS
    <3> QED BY <2>1, <3>1, <3>2
  <2>3. job.fat = 128 /\ Fits /\ Laid(job.placed)
    BY <2>1, <2>2 DEF PlanIsSound
  <2>4. request.sectors \in Nat /\ request.sectors >= MinDiskSectors
    BY <2>1, <2>3, Attempts DEF Typed, Fits
  <2> DEFINE S == [first : Nat, count : Nat]
  <2>5. job.placed \in Seq(S)
    BY <2>1
  <2> HIDE DEF S
  <2>6. \A i \in 1 .. 6 : job.placed[i] \in S
    BY <2>1, <2>5, ElementOfSeq
  <2> USE DEF S
  <2>7. ASSUME NEW i \in Files
        PROVE  /\ job.placed[i].first \in Nat /\ job.placed[i].count \in Nat
               /\ job.placed[i].first >= 5 /\ job.placed[i].count >= 1
               /\ job.placed[i].first + job.placed[i].count <= 32733
    <3>1. i \in DOMAIN job.placed /\ job.placed[i] \in S
      BY <2>2, <2>6 DEF Files
    <3>2. /\ job.placed[i].first >= 5 /\ job.placed[i].count >= 1
          /\ job.placed[i].first + job.placed[i].count <= DataClusters(128) + 2
      BY <2>3, <3>1 DEF Laid
    <3>3. job.placed[i].first \in Nat /\ job.placed[i].count \in Nat
      BY <3>1
    <3> QED BY <3>2, <3>3, FatSize
  <2>8. DataStart(job.fat) = 2337
    BY <2>3 DEF DataStart, EspStart, RootSectors
  <2>9. ASSUME NEW i \in Files
        PROVE  /\ FileRegion(i).first = 2321 + 8 * job.placed[i].first
               /\ FileRegion(i).last = 2320 + 8 * job.placed[i].first + 8 * job.placed[i].count
    <3> DEFINE f == job.placed[i].first
               c == job.placed[i].count
    <3>1. f \in Nat /\ c \in Nat /\ FileRegion(i) = ClusterRegion(f, c)
      BY <2>7 DEF FileRegion
    <3> HIDE DEF f, c
    <3>2. ClusterStart(job.fat, f) = 2321 + 8 * f
      BY <2>8, <3>1 DEF ClusterStart, SectorsPerCluster
    <3>3. ClusterRegion(f, c) = [first |-> 2321 + 8 * f, last |-> 2321 + 8 * f + c * 8 - 1]
      BY <3>2 DEF ClusterRegion, Region, SectorsPerCluster
    <3>4. FileRegion(i).first = 2321 + 8 * f /\ FileRegion(i).last = 2320 + 8 * f + 8 * c
      BY <3>1, <3>3
    <3> QED BY <3>4 DEF f, c
  <2>10. EspStart = 2048 /\ EspSectors = 262144 /\ RootSectors = 32 /\ EntrySectors = 32 /\ FirstUsable = 34
    BY DEF EspStart, EspSectors, RootSectors, EntrySectors, FirstUsable
  <2>11. ClusterRegion(2, 3).first = 2337 /\ ClusterRegion(2, 3).last = 2360
    BY <2>8 DEF ClusterRegion, Region, ClusterStart, SectorsPerCluster
  <2>12. ASSUME NEW i \in Files
         PROVE  /\ ClusterRegion(2, 3).last < FileRegion(i).first
                /\ FileRegion(i).first < FileRegion(i).last
                /\ FileRegion(i).last < EspStart + EspSectors
                /\ job.placed[i].first + job.placed[i].count <= 256 * job.fat
    BY <2>3, <2>7, <2>9, <2>10, <2>11
  <2>13. ASSUME NEW i \in Files, NEW k \in Files, i < k
         PROVE  FileRegion(i).last < FileRegion(k).first
    <3>1. job.placed[i].first + job.placed[i].count <= job.placed[k].first
      BY <2>2, <2>3, <2>13 DEF Laid, Files
    <3> QED BY <3>1, <2>7, <2>9
  <2>14. /\ 2 + EntrySectors <= FirstUsable /\ FirstUsable <= EspStart
         /\ EspStart + 1 + 2 * job.fat + RootSectors <= ClusterRegion(2, 3).first
    BY <2>3, <2>10, <2>11
  <2> QED BY <2>4, <2>12, <2>13, <2>14, DiskFits DEF RegionsAreApart
<1> QED BY <1>1, InstallationIsSound, PTL

\* Whatever is refused or cancelled, and however often it is tried, no attempt that
\* was refused has written anything, and a first one leaves the disk as it was.
THEOREM RefusalsAlwaysLeave == Spec => []RefusalLeavesTheDisk
<1>1. SInv => RefusalLeavesTheDisk
  BY DEF SInv, Untouched, RefusalLeavesTheDisk
<1> QED BY <1>1, InstallationIsSound, PTL

\* Whatever was on the disk, whatever the device wrote back and whenever the power
\* fails, a start after the format finds the new tree or, before its root, none.
THEOREM FormattedAlwaysNew == Spec => []FormattedIsNew
<1> DEFINE Formatted(d) ==
      /\ d.header = job.attempt /\ d.entries = job.attempt /\ d.super = job.attempt
      /\ d.nodes = job.attempt /\ d.journal = Zero
<1>1. ASSUME Typed, Fits, Formatted(cache)
      PROVE  TableIsRead(cache) /\ SuperIsRead(cache) /\ ~Recorded(cache) /\ cache.header # Zero
  <2>1. job.attempt \in Nat \ {0} /\ request.sectors \in Nat /\ request.sectors >= MinDiskSectors
    BY <1>1, Attempts DEF Typed, Job, Fits
  <2>2. Partition(job.attempt) = [first |-> DfsStart, last |-> DfsEnd(request.sectors)]
    BY <2>1 DEF Partition
  <2>3. ValidPartition(Partition(job.attempt), request.sectors)
    <3>1. FirstUsable <= DfsStart /\ DfsStart \in Nat
      BY DEF FirstUsable, DfsStart, EspStart, EspSectors
    <3>2. DfsStart < DfsEnd(request.sectors) /\ DfsEnd(request.sectors) <= LastUsable(request.sectors)
      BY <2>1, DiskFits
    <3>3. DfsEnd(request.sectors) \in Int
      BY <2>1 DEF DfsEnd, LastUsable, BackupEntries, EntrySectors, Alignment
    <3> QED BY <2>2, <3>1, <3>2, <3>3 DEF ValidPartition
  <2>4. TableIsRead(cache)
    BY <1>1, <2>1, <2>3, DiskFits DEF TableIsRead
  <2>5. SuperIsRead(cache) /\ ~Recorded(cache) /\ cache.header # Zero
    BY <1>1, <2>1 DEF SuperIsRead, Recorded, Zero, Torn
  <2> QED BY <2>4, <2>5
<1>2. SInv => FormattedIsNew
  <2> SUFFICES ASSUME SInv PROVE FormattedIsNew
    OBVIOUS
  <2>1. Typed /\ PlanIsSound /\ DiskIsSound /\ job.attempt \in Nat \ {0}
    BY DEF SInv, Typed, Job
  <2>2. ASSUME job.pc = "root" PROVE Mount(platter) = Refused
    <3>1. Formatted(cache) /\ platter = cache /\ cache.root = Zero /\ Fits
      BY <2>1, <2>2 DEF DiskIsSound, PlanIsSound, HasHeader, HasJournal, Formatting
    <3>2. TableIsRead(cache) /\ SuperIsRead(cache) /\ ~Recorded(cache) /\ cache.header # Zero
      BY <3>1, <2>1, <1>1
    <3> QED BY <3>1, <3>2 DEF Mount
  <2>3. ASSUME cache.root = job.attempt PROVE Mount(platter) = job.attempt
    <3>1. Formatted(cache) /\ platter = cache /\ Fits
      BY <2>1, <2>3 DEF DiskIsSound, IsNew
    <3>2. TableIsRead(cache) /\ SuperIsRead(cache) /\ ~Recorded(cache) /\ cache.header # Zero
      BY <3>1, <2>1, <1>1
    <3>3. cache.root # Zero
      BY <2>1, <2>3 DEF Zero
    <3> QED BY <2>3, <3>1, <3>2, <3>3 DEF Mount
  <2> QED BY <2>2, <2>3 DEF FormattedIsNew
<1> QED BY <1>2, InstallationIsSound, PTL
-----------------------------------------------------------------------------
(* What is installed survives.                                             *)

\* The paths of the images and of the settings.
DirectoryPaths == {<<"etc">>, <<"home", "user">>}
FilePaths == {<<"etc", "hostname">>, <<"etc", "users.db">>}
Paths ==
  {path \in Seq(STRING) : \E r \in Requests : \E k \in DOMAIN r.image : path = r.image[k].path}
    \cup DirectoryPaths \cup FilePaths
TreeNode == [path : Paths, directory : BOOLEAN, sectors : Nat, whole : BOOLEAN]
Seeding == {"seed", "fill", "last"}
Seeded == job.pc \in Seeding \/ job.result = "Installed"
HasRoom == {"clearSuper", "clearJournal"} \cup HasJournal
HasEsp == {"read"} \cup HasRoom
HasBackup == {"entries", "header"} \cup HasHeader

\* What a phase has written stays, to the end of an installation.
TablesAreSound ==
  /\ job.pc \in HasBackup \/ Seeded => cache.backup = job.attempt
  /\ job.pc \in HasEsp \/ Seeded => cache.esp = job.attempt
  /\ job.pc \in HasRoom \/ Seeded => 0 <= Room
  /\ Seeded => cache.root = job.attempt

\* The entry is in the tree t, with all its data.
Kept(t, e) ==
  \E i \in DOMAIN t :
    /\ t[i].path = e.path /\ t[i].directory = e.directory
    /\ t[i].whole /\ e.sectors <= t[i].sectors

\* A path is there once, a directory is whole, and no file is where a directory will be.
Nodes(t) ==
  /\ t \in Seq(TreeNode)
  /\ \A i, j \in DOMAIN t : t[i].path = t[j].path => i = j
  /\ \A i \in DOMAIN t : t[i].directory => t[i].whole
  /\ \A i \in DOMAIN t, k \in DOMAIN Script :
       t[i].path = Script[k].path /\ Script[k].directory => t[i].directory

\* Every entry before the one at hand is kept, within the partition.
Progress ==
  /\ Used(tree) <= Room
  /\ \A k \in DOMAIN Script : k < job.at => Kept(tree, Script[k])
  /\ job.pc \in {"seed", "fill"} => job.at \in DOMAIN Script
  /\ job.pc \notin {"seed", "fill"} => job.at = Len(Script) + 1
  /\ job.pc = "fill" =>
       ~Entry.directory /\ \E i \in DOMAIN tree : Having(Entry.path) = {i} /\ ~tree[i].directory

TreeIsSound ==
  /\ Nodes(tree)
  /\ job.pc \notin Seeding \cup {"ended"} => job.at = 1
  /\ Seeded => Progress

Survives == TablesAreSound /\ TreeIsSound

-----------------------------------------------------------------------------
(* The sectors of a tree are a sum, in whatever order they are added.      *)

LEMMA LeastOf ==
  ASSUME NEW S \in SUBSET Nat, S # {}
  PROVE  \E m \in S : \A x \in S : m <= x
<1>1. PICK m \in S : \A x \in S : <<x, m>> \notin OpToRel(<, Nat)
  BY WFMin, NatLessThanWellFounded, Zenon
<1>2. \A x \in S : ~(x < m)
  BY <1>1, Zenon DEF OpToRel
<1> QED BY <1>2

Chosen(s) == CHOOSE x \in s : TRUE
Added(t, f, s) == IF s = {} THEN 0 ELSE f[s \ {Chosen(s)}] + t[Chosen(s)].sectors
Sums(t) == CHOOSE f : f = [s \in SUBSET DOMAIN t |-> Added(t, f, s)]

LEMMA UsedIsSum == \A t : Used(t) = Sums(t)[DOMAIN t]
BY DEF Used, FoldSeq, FoldFunction, FoldFunctionOnSet, MapThenFoldSet, Sums, Added, Chosen

\* The subsets of d with at most k elements, and the sums over these.
Small(d, k) == {s \in SUBSET d : Cardinality(s) <= k}
Summed(t, f, k) == f = [s \in Small(DOMAIN t, k) |-> Added(t, f, s)]

LEMMA AnyIn == \A s : s # {} => Chosen(s) \in s
BY DEF Chosen

LEMMA SizeFacts ==
  ASSUME NEW d, IsFiniteSet(d), NEW s \in SUBSET d
  PROVE  /\ IsFiniteSet(s) /\ Cardinality(s) \in Nat /\ Cardinality(s) <= Cardinality(d)
         /\ Cardinality(s) = 0 <=> s = {}
         /\ \A x \in s : s \ {x} \in SUBSET d /\ Cardinality(s \ {x}) = Cardinality(s) - 1
<1>1. IsFiniteSet(s) /\ Cardinality(s) \in Nat /\ Cardinality(s) <= Cardinality(d)
  BY FS_Subset, FS_CardinalityType
<1>2. Cardinality(s) = 0 <=> s = {}
  BY <1>1, FS_EmptySet
<1>3. \A x \in s : Cardinality(s \ {x}) = Cardinality(s) - 1
  BY <1>1, FS_RemoveElement
<1> QED BY <1>1, <1>2, <1>3

LEMMA SumsGrow ==
  ASSUME NEW t, IsFiniteSet(DOMAIN t), NEW k \in Nat, NEW f, Summed(t, f, k)
  PROVE  \E g : Summed(t, g, k + 1)
<1> DEFINE D == DOMAIN t
           h == [s \in Small(D, k + 1) |-> IF Cardinality(s) <= k THEN f[s] ELSE Added(t, f, s)]
<1>1. ASSUME NEW s \in Small(D, k + 1) PROVE h[s] = Added(t, h, s)
  <2>1. s \in SUBSET D /\ Cardinality(s) \in Nat /\ Cardinality(s) <= k + 1
    BY <1>1, SizeFacts DEF Small
  <2>2. CASE s = {}
    <3>1. Cardinality(s) <= k
      BY <2>1, <2>2, SizeFacts
    <3>2. s \in Small(D, k)
      BY <2>1, <3>1 DEF Small
    <3>3. f[s] = Added(t, f, s)
      BY <3>2, Zenon DEF Summed
    <3>4. h[s] = f[s]
      BY <1>1, <3>1, Zenon
    <3> HIDE DEF h
    <3> QED BY <2>2, <3>3, <3>4 DEF Added
  <2>3. CASE s # {}
    <3> DEFINE r == s \ {Chosen(s)}
    <3>1. r \in SUBSET D /\ Cardinality(r) = Cardinality(s) - 1
      BY <2>1, <2>3, AnyIn, SizeFacts
    <3>2. r \in Small(D, k + 1) /\ r \in Small(D, k) /\ Cardinality(r) <= k
      BY <2>1, <3>1 DEF Small
    <3>3. h[r] = f[r]
      BY <3>2, Zenon
    <3>4. h[s] = Added(t, f, s)
      <4>1. CASE Cardinality(s) <= k
        <5>1. s \in Small(D, k)
          BY <2>1, <4>1 DEF Small
        <5>2. f[s] = Added(t, f, s)
          BY <5>1, Zenon DEF Summed
        <5> QED BY <1>1, <4>1, <5>2, Zenon
      <4>2. CASE ~(Cardinality(s) <= k)
        BY <1>1, <4>2, Zenon
      <4> QED BY <4>1, <4>2
    <3> HIDE DEF h
    <3> QED BY <2>3, <3>3, <3>4 DEF Added
  <2> QED BY <2>2, <2>3
<1>2. h = [s \in Small(D, k + 1) |-> h[s]]
  BY Zenon
<1> HIDE DEF h
<1>3. Summed(t, h, k + 1)
  BY <1>1, <1>2, Zenon DEF Summed
<1> QED BY <1>3

LEMMA SumsExist ==
  ASSUME NEW t, IsFiniteSet(DOMAIN t)
  PROVE  Sums(t) = [s \in SUBSET DOMAIN t |-> Added(t, Sums(t), s)]
<1> DEFINE Missing == {k \in Nat : ~ \E f : Summed(t, f, k)}
           n == Cardinality(DOMAIN t)
<1>1. Missing = {}
  <2>1. SUFFICES ASSUME Missing # {} PROVE FALSE
    OBVIOUS
  <2>2. PICK m \in Missing : \A x \in Missing : m <= x
    BY <2>1, LeastOf, Zenon
  <2>3. m # 0
    <3> DEFINE f == [s \in Small(DOMAIN t, 0) |-> 0]
    <3>1. \A s \in Small(DOMAIN t, 0) : s = {}
      BY SizeFacts DEF Small
    <3>2. \A s \in Small(DOMAIN t, 0) : Added(t, f, s) = 0
      BY <3>1 DEF Added
    <3>3. f = [s \in Small(DOMAIN t, 0) |-> Added(t, f, s)]
      BY <3>2
    <3> HIDE DEF f
    <3>4. Summed(t, f, 0)
      BY <3>3 DEF Summed
    <3> QED BY <3>4
  <2>4. m - 1 \in Nat /\ ~(m <= m - 1) /\ m = (m - 1) + 1
    BY <2>3
  <2>5. \E f : Summed(t, f, m - 1)
    BY <2>2, <2>4
  <2>6. \E g : Summed(t, g, m)
    BY <2>4, <2>5, SumsGrow
  <2> QED BY <2>6
<1>2. n \in Nat /\ Small(DOMAIN t, n) = SUBSET DOMAIN t
  BY FS_CardinalityType, SizeFacts DEF Small
<1>3. PICK f : Summed(t, f, n)
  BY <1>1, <1>2
<1>4. f = [s \in SUBSET DOMAIN t |-> Added(t, f, s)]
  BY <1>2, <1>3 DEF Summed
<1> QED BY <1>4, Zenon DEF Sums

\* The sum is a number of sectors, and any of its members may be added last.
InAnyOrder(t, r) ==
  /\ Sums(t)[r] \in Nat
  /\ \A x \in r : Sums(t)[r] = Sums(t)[r \ {x}] + t[x].sectors

LEMMA SumInAnyOrder ==
  ASSUME NEW t \in Seq(TreeNode), NEW s \in SUBSET DOMAIN t
  PROVE  InAnyOrder(t, s)
<1> DEFINE F == Sums(t)
           D == DOMAIN t
           Wrong == {k \in Nat : \E r \in SUBSET D : Cardinality(r) = k /\ ~InAnyOrder(t, r)}
<1>1. IsFiniteSet(D) /\ \A x \in D : t[x].sectors \in Nat
  <2>1. D = 1 .. Len(t) /\ Len(t) \in Nat /\ \A x \in D : t[x] \in TreeNode
    BY LenProperties, ElementOfSeq
  <2>2. IsFiniteSet(1 .. Len(t))
    BY <2>1, FS_Interval
  <2> QED BY <2>1, <2>2 DEF TreeNode
<1>2. ASSUME NEW r \in SUBSET D
      PROVE  F[r] = Added(t, F, r)
  BY <1>1, <1>2, SumsExist, Zenon
<1> HIDE DEF F, D
<1>3. SUFFICES ASSUME Wrong # {} PROVE FALSE
  <2>1. Cardinality(s) \in Nat /\ s \in SUBSET D
    BY <1>1, SizeFacts DEF D
  <2> QED BY <2>1, <1>3
<1>4. PICK m \in Wrong : \A x \in Wrong : m <= x
  BY <1>3, LeastOf, Zenon
<1>5. PICK r \in SUBSET D : Cardinality(r) = m /\ ~InAnyOrder(t, r)
  BY <1>4
<1>6. ASSUME NEW q \in SUBSET D, NEW k \in Nat, Cardinality(q) = k, k < m PROVE InAnyOrder(t, q)
  <2>1. k \notin Wrong
    BY <1>4, <1>6
  <2> QED BY <2>1, <1>6
<1>7. m \in Nat
  BY <1>4
<1> HIDE DEF Wrong
<1>8. ASSUME NEW q \in SUBSET D, q \subseteq r, q # r PROVE InAnyOrder(t, q)
  <2>1. IsFiniteSet(r) /\ Cardinality(q) \in Nat
    BY <1>1, SizeFacts
  <2>2. Cardinality(q) <= Cardinality(r) /\ Cardinality(q) # Cardinality(r)
    BY <2>1, <1>8, FS_Subset
  <2>3. Cardinality(q) < m
    BY <2>1, <2>2, <1>5, <1>7
  <2> QED BY <2>1, <2>3, <1>6
<1>9. CASE r = {}
  <2>1. F[r] = 0
    BY <1>2, <1>9 DEF Added
  <2> QED BY <2>1, <1>5, <1>9 DEF InAnyOrder, F
<1>10. CASE r # {}
  <2> DEFINE c == Chosen(r)
  <2>1. c \in r /\ F[r] = F[r \ {c}] + t[c].sectors
    BY <1>2, <1>10, AnyIn DEF Added
  <2> HIDE DEF c
  <2>2. ASSUME NEW x \in r
        PROVE  /\ F[r \ {x}] \in Nat /\ t[x].sectors \in Nat
               /\ \A y \in r \ {x} : F[r \ {x}] = F[(r \ {x}) \ {y}] + t[y].sectors
    <3>1. r \ {x} \in SUBSET D /\ r \ {x} \subseteq r /\ r \ {x} # r /\ x \in D
      BY <2>2
    <3>2. InAnyOrder(t, r \ {x})
      BY <3>1, <1>8
    <3> QED BY <3>1, <3>2, <1>1 DEF InAnyOrder, F
  <2>3. F[r] \in Nat
    <3>1. F[r \ {c}] \in Nat /\ t[c].sectors \in Nat
      BY <2>1, <2>2
    <3> QED BY ONLY <2>1, <3>1
  <2>4. ASSUME NEW x \in r PROVE F[r] = F[r \ {x}] + t[x].sectors
    <3>1. CASE x = c
      BY <3>1, <2>1
    <3>2. CASE x # c
      <4> DEFINE u == (r \ {c}) \ {x}
      <4>1. x \in r \ {c} /\ c \in r \ {x} /\ (r \ {x}) \ {c} = u
        BY <3>2, <2>1, <2>4
      <4>2. F[r \ {c}] = F[u] + t[x].sectors
        BY <4>1, <2>1, <2>2
      <4>3. F[r \ {x}] = F[u] + t[c].sectors
        BY <4>1, <2>4, <2>2
      <4>4. F[u] \in Nat
        <5>1. u \in SUBSET D /\ u \subseteq r /\ u # r
          BY <2>1
        <5> QED BY <5>1, <1>8 DEF InAnyOrder, F
      <4>5. t[x].sectors \in Nat /\ t[c].sectors \in Nat
        BY <2>1, <2>2, <2>4
      <4> HIDE DEF u
      <4> QED BY <2>1, <4>2, <4>3, <4>4, <4>5
    <3> QED BY <3>1, <3>2
  <2> QED BY <1>5, <2>3, <2>4 DEF InAnyOrder, F
<1> QED BY <1>9, <1>10

\* What two trees sum up to where their entries have the same sizes.
LEMMA SumsAgree ==
  ASSUME NEW t \in Seq(TreeNode), NEW u \in Seq(TreeNode),
         NEW s \in SUBSET DOMAIN t, s \subseteq DOMAIN u,
         \A i \in s : t[i].sectors = u[i].sectors
  PROVE  Sums(t)[s] = Sums(u)[s]
<1> DEFINE Wrong == {k \in Nat : \E r \in SUBSET s : Cardinality(r) = k /\ Sums(t)[r] # Sums(u)[r]}
<1>1. IsFiniteSet(DOMAIN t) /\ IsFiniteSet(DOMAIN u) /\ IsFiniteSet(s)
  <2>1. DOMAIN t = 1 .. Len(t) /\ Len(t) \in Nat /\ DOMAIN u = 1 .. Len(u) /\ Len(u) \in Nat
    BY LenProperties
  <2>2. IsFiniteSet(1 .. Len(t)) /\ IsFiniteSet(1 .. Len(u))
    BY <2>1, FS_Interval
  <2>3. IsFiniteSet(DOMAIN t) /\ IsFiniteSet(DOMAIN u)
    BY <2>1, <2>2
  <2> QED BY <2>3, FS_Subset
<1>2. ASSUME NEW r \in SUBSET s
      PROVE  Sums(t)[r] = Added(t, Sums(t), r) /\ Sums(u)[r] = Added(u, Sums(u), r)
  <2>1. r \in SUBSET DOMAIN t /\ r \in SUBSET DOMAIN u
    OBVIOUS
  <2> QED BY <2>1, <1>1, SumsExist, Zenon
<1>3. SUFFICES ASSUME Wrong # {} PROVE FALSE
  <2>1. Cardinality(s) \in Nat
    BY <1>1, FS_CardinalityType
  <2> QED BY <2>1, <1>3
<1>4. PICK m \in Wrong : \A x \in Wrong : m <= x
  BY <1>3, LeastOf, Zenon
<1>5. PICK r \in SUBSET s : Cardinality(r) = m /\ Sums(t)[r] # Sums(u)[r]
  BY <1>4
<1>6. r # {}
  BY <1>2, <1>5 DEF Added
<1> DEFINE c == Chosen(r)
<1>7. c \in r /\ r \ {c} \in SUBSET s
  BY <1>6, AnyIn
<1>8. Sums(t)[r \ {c}] = Sums(u)[r \ {c}]
  <2>1. Cardinality(r \ {c}) = m - 1 /\ Cardinality(r \ {c}) \in Nat
    BY <1>1, <1>5, <1>7, SizeFacts
  <2>2. m - 1 \notin Wrong /\ m - 1 \in Nat
    BY <1>4, <2>1
  <2> QED BY <2>1, <2>2, <1>7
<1>9. t[c].sectors = u[c].sectors
  BY <1>7
<1> QED BY <1>2, <1>5, <1>6, <1>8, <1>9 DEF Added

LEMMA UsedOfNone == Used(<<>>) = 0
<1> DEFINE e == <<>>
<1>1. e \in Seq(TreeNode) /\ DOMAIN e = {}
  OBVIOUS
<1>2. IsFiniteSet(DOMAIN e)
  BY <1>1, FS_EmptySet
<1>3. Sums(e)[{}] = Added(e, Sums(e), {})
  BY <1>1, <1>2, SumsExist, Zenon
<1> HIDE DEF e
<1>4. Used(e) = 0
  BY <1>1, <1>3, UsedIsSum DEF Added
<1> QED BY <1>4 DEF e

LEMMA UsedIsNat ==
  ASSUME NEW t \in Seq(TreeNode)
  PROVE  Used(t) \in Nat
BY SumInAnyOrder, UsedIsSum DEF InAnyOrder

\* A new entry adds its sectors.
LEMMA UsedWithNew ==
  ASSUME NEW t \in Seq(TreeNode), NEW e \in TreeNode
  PROVE  Used(Append(t, e)) = Used(t) + e.sectors
<1> DEFINE u == Append(t, e)
           n == Len(t) + 1
<1>1. /\ u \in Seq(TreeNode) /\ n \in DOMAIN u /\ u[n] = e /\ DOMAIN u \ {n} = DOMAIN t
      /\ \A i \in DOMAIN t : u[i] = t[i]
  <2>1. /\ u \in Seq(TreeNode) /\ Len(u) = Len(t) + 1 /\ u[Len(t) + 1] = e
        /\ \A i \in 1 .. Len(t) : u[i] = t[i]
    BY AppendProperties
  <2>2. Len(t) \in Nat /\ DOMAIN t = 1 .. Len(t) /\ DOMAIN u = 1 .. Len(u)
    BY <2>1, LenProperties
  <2> HIDE DEF u
  <2>3. 1 .. Len(t) + 1 = (1 .. Len(t)) \cup {n} /\ n \notin 1 .. Len(t)
    BY <2>2
  <2> QED BY <2>1, <2>2, <2>3
<1> HIDE DEF u, n
<1>2. Sums(u)[DOMAIN u] = Sums(u)[DOMAIN t] + e.sectors
  <2>1. InAnyOrder(u, DOMAIN u)
    BY <1>1, SumInAnyOrder
  <2>2. Sums(u)[DOMAIN u] = Sums(u)[DOMAIN u \ {n}] + u[n].sectors
    BY <2>1, <1>1 DEF InAnyOrder
  <2> QED BY <2>2, <1>1
<1>3. Sums(t)[DOMAIN t] = Sums(u)[DOMAIN t]
  BY <1>1, SumsAgree
<1>4. Used(u) = Used(t) + e.sectors
  BY <1>2, <1>3, UsedIsSum
<1> QED BY <1>4 DEF u

\* An entry that grows adds what it has more.
LEMMA UsedWithMore ==
  ASSUME NEW t \in Seq(TreeNode), NEW u \in Seq(TreeNode), NEW i \in DOMAIN t,
         DOMAIN u = DOMAIN t, \A j \in DOMAIN t \ {i} : u[j] = t[j]
  PROVE  Used(u) = Used(t) + (u[i].sectors - t[i].sectors)
<1> DEFINE D == DOMAIN t
<1>1. InAnyOrder(t, D) /\ InAnyOrder(u, D) /\ InAnyOrder(t, D \ {i})
  BY SumInAnyOrder
<1>2. Sums(t)[D] = Sums(t)[D \ {i}] + t[i].sectors /\ Sums(u)[D] = Sums(u)[D \ {i}] + u[i].sectors
  BY <1>1 DEF InAnyOrder
<1>3. Sums(t)[D \ {i}] = Sums(u)[D \ {i}]
  BY SumsAgree
<1>4. Sums(t)[D \ {i}] \in Nat
  BY <1>1 DEF InAnyOrder
<1>5. t[i] \in TreeNode /\ u[i] \in TreeNode
  BY ElementOfSeq, LenProperties
<1>6. t[i].sectors \in Nat /\ u[i].sectors \in Nat
  BY <1>5 DEF TreeNode
<1> DEFINE a == t[i].sectors
           b == u[i].sectors
           x == Sums(t)[D \ {i}]
<1> HIDE DEF a, b, x
<1>7. Used(t) = x + a /\ Used(u) = x + b
  <2>1. Used(t) = Sums(t)[D] /\ Used(u) = Sums(u)[D]
    BY UsedIsSum
  <2> QED BY <2>1, <1>2, <1>3 DEF a, b, x
<1>8. x \in Nat /\ a \in Nat /\ b \in Nat
  BY <1>4, <1>6 DEF a, b, x
<1>9. Used(u) = Used(t) + (b - a)
  BY ONLY <1>7, <1>8
<1> QED BY <1>9 DEF a, b

-----------------------------------------------------------------------------
(* The entries that are to be there.                                       *)

Item == [path : Paths, directory : BOOLEAN, sectors : Nat]

IsSetting(e) ==
  /\ e \in Item
  /\ e.directory => e.path \in DirectoryPaths /\ e.sectors = 0
  /\ ~e.directory => e.path \in FilePaths

LEMMA PathsDiffer == DirectoryPaths \cap FilePaths = {}
<1>1. <<"home", "user">> # <<"etc", "hostname">> /\ <<"home", "user">> # <<"etc", "users.db">>
  OBVIOUS
<1>2. Len(<<"etc">>) = 1 /\ Len(<<"etc", "hostname">>) = 2 /\ Len(<<"etc", "users.db">>) = 2
  OBVIOUS
<1> QED BY <1>1, <1>2 DEF DirectoryPaths, FilePaths

LEMMA MembersTyped ==
  ASSUME NEW S, NEW T, NEW s \in Seq(S), \A i \in DOMAIN s : s[i] \in T
  PROVE  s \in Seq(T)
<1>1. s = [i \in 1 .. Len(s) |-> s[i]] /\ Len(s) \in Nat /\ DOMAIN s = 1 .. Len(s)
  BY LenProperties
<1>2. s \in [1 .. Len(s) -> T]
  BY <1>1
<1> QED BY <1>1, <1>2

LEMMA Pair == ASSUME NEW S, NEW a \in S, NEW b \in S PROVE <<a, b>> \in Seq(S)
OBVIOUS

LEMMA SettingsFacts ==
  /\ Settings \in Seq(Item) /\ Len(Settings) >= 2
  /\ \A k \in DOMAIN Settings : IsSetting(Settings[k])
<1> DEFINE a == Directory(<<"etc">>)
           b == File(<<"etc", "hostname">>, 1)
           c == File(<<"etc", "users.db">>, 1)
           d == Directory(<<"home", "user">>)
           S == {e \in Item : IsSetting(e)}
<1>1. a \in S /\ d \in S
  <2>1. Directory(<<"etc">>) \in Item /\ Directory(<<"home", "user">>) \in Item
    <3>1. <<"etc">> \in Paths /\ <<"home", "user">> \in Paths
      BY Zenon DEF Paths, DirectoryPaths
    <3> QED BY <3>1 DEF Directory, Item
  <2> QED BY <2>1 DEF IsSetting, Directory, DirectoryPaths
<1>2. b \in S /\ c \in S
  <2>1. File(<<"etc", "hostname">>, 1) \in Item /\ File(<<"etc", "users.db">>, 1) \in Item
    <3>1. <<"etc", "hostname">> \in Paths /\ <<"etc", "users.db">> \in Paths
      BY Zenon DEF Paths, FilePaths
    <3> QED BY <3>1 DEF File, Item
  <2> QED BY <2>1 DEF IsSetting, File, FilePaths
<1> DEFINE front == <<a, b>>
           back == <<c, d>>
<1>3. PICK more \in {<<>>, back} : Settings = front \o more
  BY DEF Settings
<1>4. front \in Seq(S) /\ back \in Seq(S) /\ Len(front) = 2
  <2>1. front \in Seq(S) /\ back \in Seq(S)
    BY <1>1, <1>2, Pair, Zenon
  <2>2. Len(front) = 2
    OBVIOUS
  <2> QED BY <2>1, <2>2
<1> HIDE DEF a, b, c, d, S, front, back
<1>5. more \in Seq(S) /\ Len(more) \in Nat
  BY <1>3, <1>4, EmptySeq, LenProperties
<1>6. Settings \in Seq(S) /\ Len(Settings) = 2 + Len(more)
  <2>1. front \o more \in Seq(S) /\ Len(front \o more) = Len(front) + Len(more)
    BY <1>4, <1>5, ConcatProperties, Zenon
  <2> QED BY <2>1, <1>3, <1>4
<1>7. Len(Settings) >= 2 /\ Len(Settings) \in Nat /\ DOMAIN Settings = 1 .. Len(Settings)
  BY <1>5, <1>6, LenProperties
<1>8. \A k \in DOMAIN Settings : Settings[k] \in S
  BY <1>6, <1>7, ElementOfSeq
<1>9. Settings \in Seq(Item)
  BY <1>6 DEF S
<1> QED BY <1>7, <1>8, <1>9 DEF S

\* A directory carries no data, and no file comes before a directory of its path.
LEMMA ScriptFacts ==
  ASSUME request \in Requests
  PROVE  /\ Script \in Seq(Item) /\ Len(Script) \in Nat /\ Len(Script) >= 2
         /\ DOMAIN Script = 1 .. Len(Script)
         /\ \A k \in DOMAIN Script : Script[k] \in Item /\ (Script[k].directory => Script[k].sectors = 0)
         /\ \A j, k \in DOMAIN Script :
              j < k /\ Script[j].path = Script[k].path /\ Script[k].directory => Script[j].directory
<1> DEFINE img == request.image
           n == Len(img)
<1>1. /\ img \in Seq(Item)
      /\ \A j, k \in DOMAIN img : img[j].path = img[k].path => img[j].directory = img[k].directory
      /\ \A k \in DOMAIN img : img[k].path \in DirectoryPaths => img[k].directory
      /\ \A k \in DOMAIN img : img[k].directory => img[k].sectors = 0
  <2>1. img \in Seq([path : Seq(STRING), directory : BOOLEAN, sectors : Nat])
    BY ImageAssumption
  <2>2. DOMAIN img = 1 .. Len(img)
          /\ \A k \in DOMAIN img : img[k] \in [path : Seq(STRING), directory : BOOLEAN, sectors : Nat]
    BY <2>1, LenProperties, ElementOfSeq
  <2>3. \A k \in DOMAIN img : img[k].path \in Paths
    BY <2>2 DEF Paths, img
  <2>4. \A k \in DOMAIN img : img[k] \in Item
    BY <2>2, <2>3 DEF Item
  <2>5. img \in Seq(Item)
    <3> DEFINE R == [path : Seq(STRING), directory : BOOLEAN, sectors : Nat]
    <3>1. img \in Seq(R)
      BY <2>1
    <3> HIDE DEF R
    <3> QED BY <3>1, <2>4, MembersTyped, Zenon
  <2> QED BY <2>5, ImageAssumption DEF DirectoryPaths
<1> HIDE DEF img
<1>2. n \in Nat /\ DOMAIN img = 1 .. n /\ Len(Settings) \in Nat /\ DOMAIN Settings = 1 .. Len(Settings)
  BY <1>1, SettingsFacts, LenProperties
<1>3. /\ Script \in Seq(Item) /\ Len(Script) = n + Len(Settings) /\ DOMAIN Script = 1 .. Len(Script)
      /\ \A k \in 1 .. n + Len(Settings) :
           Script[k] = IF k <= n THEN img[k] ELSE Settings[k - n]
  <2>1. Script = img \o Settings
    BY DEF Script, img
  <2>2. Script \in Seq(Item)
    BY <2>1, <1>1, SettingsFacts, ConcatProperties
  <2>3. /\ Len(Script) = n + Len(Settings)
        /\ \A k \in 1 .. n + Len(Settings) : Script[k] = IF k <= n THEN img[k] ELSE Settings[k - n]
    BY <2>1, <1>1, SettingsFacts, ConcatProperties
  <2> QED BY <2>2, <2>3, LenProperties
<1> HIDE DEF n
<1>4. Len(Script) \in Nat /\ Len(Script) >= 2
  BY <1>2, <1>3, SettingsFacts
<1>5. ASSUME NEW k \in DOMAIN Script
      PROVE  \/ k \in DOMAIN img /\ Script[k] = img[k]
             \/ k > n /\ IsSetting(Script[k])
  <2>1. k \in Int /\ 1 <= k /\ k <= n + Len(Settings)
    BY <1>2, <1>3, <1>4
  <2>2. CASE k <= n
    BY <2>1, <2>2, <1>2, <1>3
  <2>3. CASE ~(k <= n)
    <3>1. k - n \in DOMAIN Settings /\ Script[k] = Settings[k - n]
      BY <2>1, <2>3, <1>2, <1>3
    <3> QED BY <3>1, <2>1, <2>3, <1>2, SettingsFacts
  <2> QED BY <2>2, <2>3
<1>6. ASSUME NEW k \in DOMAIN Script PROVE Script[k] \in Item /\ (Script[k].directory => Script[k].sectors = 0)
  <2>1. CASE k \in DOMAIN img /\ Script[k] = img[k]
    BY <2>1, <1>1, <1>2, ElementOfSeq
  <2>2. CASE IsSetting(Script[k])
    BY <2>2 DEF IsSetting
  <2> QED BY <1>5, <2>1, <2>2
<1>7. ASSUME NEW j \in DOMAIN Script, NEW k \in DOMAIN Script, j < k,
             Script[j].path = Script[k].path, Script[k].directory
      PROVE  Script[j].directory
  <2>1. CASE j \in DOMAIN img /\ Script[j] = img[j]
    <3>1. CASE k \in DOMAIN img /\ Script[k] = img[k]
      BY <2>1, <3>1, <1>1, <1>7
    <3>2. CASE IsSetting(Script[k])
      BY <2>1, <3>2, <1>1, <1>7 DEF IsSetting
    <3> QED BY <3>1, <3>2, <1>5
  <2>2. CASE j > n /\ IsSetting(Script[j])
    <3>1. IsSetting(Script[k])
      <4>1. k \notin DOMAIN img
        BY <2>2, <1>2, <1>3, <1>4, <1>7
      <4> QED BY <4>1, <1>5
    <3>2. Script[j].path \in DirectoryPaths
      BY <3>1, <1>7 DEF IsSetting
    <3> QED BY <2>2, <3>2, PathsDiffer DEF IsSetting
  <2> QED BY <2>1, <2>2, <1>5
<1> QED BY <1>3, <1>4, <1>6, <1>7

-----------------------------------------------------------------------------
(* Trees that grow.                                                        *)

\* Whatever stands in the way of a directory, or of a file, is told.
LEMMA ObstacleTells ==
  ASSUME NEW e, e.directory \in BOOLEAN
  PROVE  /\ Obstacle(e) = "none" /\ e.directory => Having(e.path) = {}
         /\ Obstacle(e) = "none" /\ ~e.directory => ~IsDirectory(e.path)
         /\ Obstacle(e) = "AlreadyExists" => Having(e.path) # {}
<1> DEFINE a == e.directory /\ Having(e.path) # {}
           b == ~e.directory /\ IsDirectory(e.path)
           c == Having(e.path) = {} /\ ~IsDirectory(Front(e.path))
           d == Having(e.path) = {} /\ IsDirectory(Front(e.path)) /\ Len(tree) + 1 = 256
<1>1. Obstacle(e) = CASE a -> "AlreadyExists" [] b -> "IsDirectory" [] c -> "NotDirectory"
                      [] d -> "NoSpace" [] OTHER -> "none"
  BY DEF Obstacle
<1> HIDE DEF a, b, c, d
<1>2. Obstacle(e) = "none" => ~a /\ ~b
  BY <1>1
<1>3. Obstacle(e) = "AlreadyExists" => a
  BY <1>1
<1> QED BY <1>2, <1>3 DEF a, b

\* A new node, of a path that is not there.
LEMMA NodesWithNew ==
  ASSUME NEW t, Nodes(t), NEW e \in TreeNode, e.directory => e.whole,
         \A i \in DOMAIN t : t[i].path # e.path,
         \A k \in DOMAIN Script : Script[k].path = e.path /\ Script[k].directory => e.directory
  PROVE  /\ Nodes(Append(t, e)) /\ e = Append(t, e)[Len(t) + 1] /\ DOMAIN Append(t, e) = (DOMAIN t) \cup {Len(t) + 1}
         /\ \A i \in DOMAIN t : Append(t, e)[i] = t[i]
         /\ \A x : Kept(t, x) => Kept(Append(t, e), x)
<1> DEFINE u == Append(t, e)
           n == Len(t) + 1
<1>1. t \in Seq(TreeNode)
  BY DEF Nodes
<1>2. /\ u \in Seq(TreeNode) /\ DOMAIN u = (DOMAIN t) \cup {n} /\ u[n] = e
      /\ \A i \in DOMAIN t : u[i] = t[i]
  <2>1. /\ u \in Seq(TreeNode) /\ Len(u) = Len(t) + 1 /\ u[Len(t) + 1] = e
        /\ \A i \in 1 .. Len(t) : u[i] = t[i]
    BY <1>1, AppendProperties
  <2>2. Len(t) \in Nat /\ DOMAIN t = 1 .. Len(t) /\ DOMAIN u = 1 .. Len(u)
    BY <1>1, <2>1, LenProperties
  <2> HIDE DEF u
  <2> QED BY <2>1, <2>2
<1> HIDE DEF u, n
<1>3. \A i, j \in DOMAIN u : u[i].path = u[j].path => i = j
  BY <1>2 DEF Nodes
<1>4. \A i \in DOMAIN u : u[i].directory => u[i].whole
  BY <1>2 DEF Nodes
<1>5. \A i \in DOMAIN u, k \in DOMAIN Script :
        u[i].path = Script[k].path /\ Script[k].directory => u[i].directory
  BY <1>2 DEF Nodes
<1>6. \A x : Kept(t, x) => Kept(u, x)
  BY <1>2 DEF Kept
<1>7. Nodes(u)
  BY <1>2, <1>3, <1>4, <1>5 DEF Nodes
<1> QED BY <1>2, <1>6, <1>7 DEF u, n

\* Nodes that stay what they are and lose nothing.
LEMMA NodesWithMore ==
  ASSUME NEW t, Nodes(t), NEW u \in Seq(TreeNode), DOMAIN u = DOMAIN t,
         \A i \in DOMAIN t : /\ u[i].path = t[i].path /\ u[i].directory = t[i].directory
                             /\ t[i].whole => u[i].whole
                             /\ t[i].sectors <= u[i].sectors
  PROVE  Nodes(u) /\ \A x \in Item : Kept(t, x) => Kept(u, x)
<1>1. t \in Seq(TreeNode)
  BY DEF Nodes
<1>2. \A i \in DOMAIN t : t[i] \in TreeNode /\ u[i] \in TreeNode
  BY <1>1, ElementOfSeq, LenProperties
<1>3. \A i \in DOMAIN t : t[i].sectors \in Nat /\ u[i].sectors \in Nat
  BY <1>2 DEF TreeNode
<1>4. ASSUME NEW x \in Item, Kept(t, x) PROVE Kept(u, x)
  <2>1. PICK i \in DOMAIN t : /\ t[i].path = x.path /\ t[i].directory = x.directory
                              /\ t[i].whole /\ x.sectors <= t[i].sectors
    BY <1>4 DEF Kept
  <2>2. x.sectors \in Nat
    BY DEF Item
  <2>3. x.sectors <= u[i].sectors
    BY <2>1, <2>2, <1>3
  <2> QED BY <2>1, <2>3 DEF Kept
<1>5. Nodes(u)
  BY DEF Nodes
<1> QED BY <1>4, <1>5

-----------------------------------------------------------------------------
(* Every action keeps what was installed.                                  *)

\* The call goes on in phase q, or ends.
Moves(q) ==
  /\ job'.pc = q /\ job'.result = job.result /\ job'.at = job.at /\ job'.attempt = job.attempt
Ends(r) ==
  /\ job'.pc = "ended" /\ job'.result = r /\ job'.at = job.at /\ job'.attempt = job.attempt

LEMMA Outcomes ==
  ASSUME Typed
  PROVE  /\ On => Moves(PhaseAfter(job.pc))
         /\ \A r : Ended(r) => Ends(r)
<1>1. job \in Job
  BY DEF Typed
<1>2. On => Moves(PhaseAfter(job.pc))
  BY <1>1 DEF Job, On, Moves
<1>3. ASSUME NEW r, Ended(r) PROVE Ends(r)
  BY <1>1, <1>3 DEF Job, Ended, Ends
<1> QED BY <1>2, <1>3

LEMMA Steady ==
  ASSUME request' = request, job'.attempt = job.attempt
  PROVE  Script' = Script /\ Room' = Room
<1>1. Script' = Script
  BY DEF Script, Settings
<1>2. Partition(job.attempt)' = Partition(job.attempt)
  BY DEF Partition
<1>3. Room' = Room
  BY <1>2 DEF Room
<1> QED BY <1>1, <1>3

\* Before the root is stored there is no tree to speak of.
LEMMA BareSound ==
  ASSUME Typed, TreeIsSound, request' = request, job'.attempt = job.attempt, tree' = tree,
         job.pc \notin Seeding \cup {"ended"}, job'.result = job.result, job'.at = job.at,
         job'.pc \notin Seeding \cup {"ended"}
  PROVE  TreeIsSound'
<1>1. job'.result = "none" /\ ~Seeded'
  BY DEF Typed, Seeded
<1>2. Nodes(tree)'
  BY Steady DEF TreeIsSound, Nodes
<1> QED BY <1>1, <1>2 DEF TreeIsSound

\* A call that fails.
LEMMA FailSurvives ==
  ASSUME Survives, NEW r, r # "Installed", Ends(r), request' = request, Nodes(tree)'
  PROVE  Survives'
<1>1. job'.pc = "ended" /\ ~Seeded'
  BY DEF Ends, Seeded, Seeding
<1>2. TablesAreSound'
  BY <1>1 DEF TablesAreSound, HasBackup, HasEsp, HasRoom, HasHeader, HasJournal, Formatting
<1>3. TreeIsSound'
  BY <1>1 DEF TreeIsSound, Seeding
<1> QED BY <1>2, <1>3 DEF Survives

LEMMA FailLeavesTree ==
  ASSUME Survives, NEW r, r # "Installed", Ends(r), request' = request, tree' = tree
  PROVE  Survives'
<1>1. Nodes(tree)'
  BY Steady DEF Survives, TreeIsSound, Nodes, Ends
<1> QED BY <1>1, FailSurvives

LEMMA PlanSurvives ==
  ASSUME Typed, Survives, job.pc \in Planning, NEW q \in Planning \cup {"backup"}, Moves(q),
         UNCHANGED <<request, Disk>>
  PROVE  Survives'
<1>1. job'.result = "none" /\ job'.pc \notin Seeding \cup {"ended"} /\ ~Seeded'
        /\ job.pc \notin Seeding \cup {"ended"}
  BY DEF Typed, Planning, Moves, Seeded, Seeding
<1>2. TablesAreSound'
  BY <1>1 DEF TablesAreSound, Moves, Planning, HasBackup, HasEsp, HasRoom, HasHeader, HasJournal, Formatting
<1>3. TreeIsSound'
  BY <1>1, BareSound DEF Survives, Disk, Moves
<1> QED BY <1>2, <1>3 DEF Survives

LEMMA PlanningSurvives ==
  ASSUME SInv, Survives, Ask \/ Validate \/ SizeFat \/ PlaceFile
  PROVE  Survives'
<1>1. Typed /\ UNCHANGED <<request, Disk>> /\ job.pc \in {"ask", "validate", "fat", "place"}
  BY DEF SInv, Ask, Validate, SizeFat, PlaceFile
<1>2. CASE On
  <2>1. Moves(PhaseAfter(job.pc)) /\ PhaseAfter(job.pc) \in Planning \cup {"backup"}
    BY <1>1, <1>2, Outcomes, Order DEF Planning
  <2> QED BY <1>1, <2>1, PlanSurvives DEF Planning
<1>3. CASE \E r \in Early : Ended(r)
  <2>1. PICK r \in Early : Ends(r)
    BY <1>1, <1>3, Outcomes
  <2> QED BY <1>1, <2>1, FailLeavesTree DEF Early, Disk
<1>4. CASE job' = [job EXCEPT !.fat = NeededFat(@)]
  <2>1. Moves(job.pc)
    BY <1>1, <1>4 DEF Typed, Job, Moves
  <2> QED BY <1>1, <2>1, PlanSurvives DEF Planning
<1>5. CASE PlaceFile /\ ~\E r \in Early : Ended(r)
  <2> DEFINE q == IF Len(job.placed) + 1 = 6 THEN PhaseAfter(job.pc) ELSE job.pc
             more == Append(job.placed, [first |-> FirstFree, count |-> Clusters(request.payload[Len(job.placed) + 1])])
  <2>1. job.pc = "place" /\ job' = [job EXCEPT !.placed = more, !.pc = q]
    BY <1>5 DEF PlaceFile, Early
  <2> HIDE DEF more
  <2>2. q \in {"place", "backup"}
    BY <2>1, Order
  <2> HIDE DEF q
  <2>3. Moves(q)
    BY <1>1, <2>1 DEF Typed, Job, Moves
  <2> QED BY <1>1, <2>2, <2>3, PlanSurvives DEF Planning
<1>6. Ask => On \/ \E r \in Early : Ended(r)
  BY DEF Ask, Early
<1>7. Validate => On \/ \E r \in Early : Ended(r)
  <2>1. Refusal # "none" => Refusal \in Early
    BY DEF Refusal, Early
  <2> QED BY <2>1 DEF Validate
<1>8. SizeFat => On \/ (\E r \in Early : Ended(r)) \/ job' = [job EXCEPT !.fat = NeededFat(@)]
  BY DEF SizeFat, Early
<1> QED BY <1>2, <1>3, <1>4, <1>5, <1>6, <1>7, <1>8

LEMMA WritePartSurvives == SInv /\ Survives /\ WritePart => Survives'
<1> SUFFICES ASSUME SInv, Survives, WritePart PROVE Survives'
  OBVIOUS
<1> DEFINE part == Target[job.pc]
<1>1. job.pc \in DOMAIN Target /\ UNCHANGED <<request, platter, tree>> /\ Typed
  BY DEF WritePart, SInv
<1>2. job.pc \notin Planning \cup Filling /\ job.pc # "root"
  BY <1>1, WriteOrder DEF Planning, Filling
<1> DEFINE value == IF job.pc \in Clearing THEN Zero ELSE job.attempt
<1>3. CASE cache' = [cache EXCEPT ![part] = value] /\ On
  <2>1. Moves(PhaseAfter(job.pc))
    BY <1>1, <1>3, Outcomes
  <2>2. /\ part \in Parts /\ cache'[part] = value
        /\ \A p \in Parts \ {part} : cache'[p] = cache[p]
    <3>1. part \in Parts
      BY <1>1, WriteOrder DEF Parts
    <3> QED BY <3>1, <1>1, <1>3 DEF Typed
  <2>3. job'.pc \notin Seeding \cup {"ended"} /\ job.pc \notin Seeding \cup {"ended"}
    BY <1>1, <1>2, <2>1, WriteOrder DEF Moves, Seeding, Filling
  <2>4. ~Seeded' /\ job'.attempt = job.attempt /\ Room' = Room
    BY <1>1, <2>1, <2>3, Steady DEF Moves, Seeded, Typed
  <2>5. job'.pc \in HasBackup => cache'.backup = job.attempt
    <3>1. CASE job.pc = "backup"
      BY <3>1, <1>1, <2>2, WriteOrder
    <3>2. CASE job.pc # "backup"
      <4>1. part # "backup" /\ (job'.pc \in HasBackup => job.pc \in HasBackup)
        BY <3>2, <1>1, <2>1, WriteOrder DEF Moves, HasBackup, HasHeader, HasJournal, Formatting
      <4> QED BY <4>1, <2>2 DEF Survives, TablesAreSound, Parts
    <3> QED BY <3>1, <3>2
  <2>6. job'.pc \in HasEsp => cache'.esp = job.attempt
    <3>1. CASE job.pc = "esp"
      BY <3>1, <1>1, <2>2, WriteOrder
    <3>2. CASE job.pc # "esp"
      <4>1. part # "esp" /\ (job'.pc \in HasEsp => job.pc \in HasEsp)
        BY <3>2, <1>1, <2>1, WriteOrder DEF Moves, HasEsp, HasRoom, HasJournal, Formatting
      <4> QED BY <4>1, <2>2 DEF Survives, TablesAreSound, Parts
    <3> QED BY <3>1, <3>2
  <2>7. job'.pc \in HasRoom => job.pc \in HasRoom
    BY <1>1, <2>1, WriteOrder DEF Moves, HasRoom, HasJournal, Formatting
  <2>8. TablesAreSound'
    BY <2>4, <2>5, <2>6, <2>7 DEF Survives, TablesAreSound
  <2>9. TreeIsSound'
    BY <1>1, <2>1, <2>3, BareSound DEF Survives, Moves
  <2> QED BY <2>8, <2>9 DEF Survives
<1>4. CASE Ended(FailureOf(job.pc))
  <2>1. FailureOf(job.pc) # "Installed" /\ Ends(FailureOf(job.pc))
    BY <1>1, <1>4, Outcomes DEF FailureOf
  <2> QED BY <1>1, <2>1, FailLeavesTree
<1> QED BY <1>3, <1>4 DEF WritePart

LEMMA ReadTableSurvives == SInv /\ Survives /\ ReadTable => Survives'
<1> SUFFICES ASSUME SInv, Survives, ReadTable PROVE Survives'
  OBVIOUS
<1>1. job.pc = "read" /\ UNCHANGED <<request, Disk>> /\ Typed
  BY DEF ReadTable, SInv
<1>2. CASE On /\ SectorsOf(Partition(cache.header)) > Reserved(SectorsOf(Partition(cache.header)))
  <2>1. Moves("clearSuper")
    BY <1>1, <1>2, Outcomes, Order
  <2>2. 0 <= Room
    <3> DEFINE x == SectorsOf(Partition(job.attempt))
    <3>1. x > Reserved(x)
      BY <1>1, <1>2 DEF SInv, DiskIsSound, HasHeader
    <3>2. request.sectors \in Nat /\ job.attempt \in Nat \ {0}
      BY <1>1, Attempts DEF Typed, Job
    <3>3. x \in Int
      BY <3>2 DEF SectorsOf, Partition, DfsStart, DfsEnd, LastUsable, BackupEntries,
                  EspStart, EspSectors, EntrySectors, Alignment
    <3>4. Room = x - Reserved(x)
      BY DEF Room
    <3> HIDE DEF x
    <3>5. Reserved(x) \in Int
      BY <3>3 DEF Reserved
    <3> QED BY <3>1, <3>3, <3>4, <3>5
  <2>3. job'.pc \notin Seeding \cup {"ended"} /\ job.pc \notin Seeding \cup {"ended"} /\ ~Seeded'
    BY <1>1, <2>1 DEF Moves, Seeding, Seeded, Typed
  <2>4. Room' = Room
    BY <1>1, <2>1, Steady DEF Moves
  <2>5. TablesAreSound'
    BY <1>1, <2>1, <2>2, <2>3, <2>4
       DEF Survives, TablesAreSound, Moves, HasBackup, HasEsp, HasRoom, HasHeader, HasJournal, Disk
  <2>6. TreeIsSound'
    BY <1>1, <2>1, <2>3, BareSound DEF Survives, Moves, Disk
  <2> QED BY <2>5, <2>6 DEF Survives
<1>3. CASE Ended("DfsFormat")
  BY <1>1, <1>3, Outcomes, FailLeavesTree DEF Disk
<1> QED BY <1>2, <1>3 DEF ReadTable

LEMMA FlushSurvives == SInv /\ Survives /\ Flush => Survives'
<1> SUFFICES ASSUME SInv, Survives, Flush PROVE Survives'
  OBVIOUS
<1>1. job.pc = "flush" /\ UNCHANGED <<request, cache, tree>> /\ Typed
  BY DEF Flush, SInv
<1>2. CASE On
  <2>1. Moves("root")
    BY <1>1, <1>2, Outcomes, Order
  <2>2. job'.pc \notin Seeding \cup {"ended"} /\ job.pc \notin Seeding \cup {"ended"} /\ ~Seeded'
    BY <1>1, <2>1 DEF Moves, Seeding, Seeded, Typed
  <2>3. Room' = Room
    BY <1>1, <2>1, Steady DEF Moves
  <2>4. TablesAreSound'
    BY <1>1, <2>1, <2>2, <2>3
       DEF Survives, TablesAreSound, Moves, HasBackup, HasEsp, HasRoom, HasHeader, HasJournal, Formatting
  <2>5. TreeIsSound'
    BY <1>1, <2>1, <2>2, BareSound DEF Survives, Moves
  <2> QED BY <2>4, <2>5 DEF Survives
<1>3. CASE Ended("DfsFormat")
  BY <1>1, <1>3, Outcomes, FailLeavesTree
<1> QED BY <1>2, <1>3 DEF Flush

\* An empty tree, and the first entry to come.
LEMMA StoreRootSurvives == SInv /\ Survives /\ StoreRoot => Survives'
<1> SUFFICES ASSUME SInv, Survives, StoreRoot PROVE Survives'
  OBVIOUS
<1>1. job.pc = "root" /\ request' = request /\ Typed
  BY DEF StoreRoot, SInv
<1>2. CASE On /\ cache' = [cache EXCEPT !.root = job.attempt] /\ tree' = <<>>
  <2>1. Moves("seed")
    BY <1>1, <1>2, Outcomes, Order
  <2>2. /\ cache'.root = job.attempt /\ cache'.backup = cache.backup /\ cache'.esp = cache.esp
        /\ job'.attempt = job.attempt
    BY <1>1, <1>2, <2>1 DEF Typed, Parts, Moves
  <2>3. Room' = Room /\ Script' = Script
    BY <1>1, <2>1, Steady DEF Moves
  <2>4. TablesAreSound'
    BY <1>1, <2>1, <2>2, <2>3
       DEF Survives, TablesAreSound, Moves, HasBackup, HasEsp, HasRoom, HasHeader, HasJournal, Formatting
  <2>5. Nodes(tree)'
    <3>1. <<>> \in Seq(TreeNode) /\ DOMAIN <<>> = {}
      OBVIOUS
    <3> QED BY <1>2, <3>1 DEF Nodes
  <2>6. job.at = 1 /\ job'.at = 1 /\ job'.pc = "seed"
    BY <1>1, <2>1 DEF Survives, TreeIsSound, Seeding, Moves
  <2>7. Progress'
    <3>1. Used(tree') <= Room
      BY <1>1, <1>2, UsedOfNone DEF Survives, TablesAreSound, HasRoom, HasJournal, Formatting
    <3>2. 1 \in DOMAIN Script /\ \A k \in DOMAIN Script : ~(k < 1)
      BY <1>1, ScriptFacts DEF Typed
    <3> QED BY <2>3, <2>6, <3>1, <3>2 DEF Progress
  <2>8. TreeIsSound'
    BY <2>5, <2>6, <2>7 DEF TreeIsSound, Seeding
  <2> QED BY <2>4, <2>8 DEF Survives
<1>3. CASE Ended("DfsFormat") /\ UNCHANGED Disk
  BY <1>1, <1>3, Outcomes, FailLeavesTree DEF Disk
<1> QED BY <1>2, <1>3 DEF StoreRoot

\* What is said of the tables holds on.
LEMMA SeedingTables ==
  ASSUME Survives, Seeded, cache' = cache, request' = request, job'.attempt = job.attempt,
         job'.pc \in Seeding \cup {"ended"}
  PROVE  TablesAreSound'
<1>1. job'.pc \notin HasBackup /\ job'.pc \notin HasEsp /\ job'.pc \notin HasRoom
  BY DEF Seeding, HasBackup, HasEsp, HasRoom, HasHeader, HasJournal, Formatting
<1> QED BY <1>1, Steady DEF Survives, TablesAreSound

\* The entry at hand is there: on with the next one.
LEMMA NextSurvives ==
  ASSUME Typed, Survives, job.pc \in {"seed", "fill"}, NextEntry,
         request' = request, cache' = cache, Nodes(tree'), Used(tree') <= Room,
         \A x \in Item : Kept(tree, x) => Kept(tree', x), Kept(tree', Entry)
  PROVE  Survives'
<1>1. Seeded /\ Progress /\ request \in Requests /\ job \in Job
  BY DEF Typed, Seeded, Seeding, Survives, TreeIsSound
<1> DEFINE q == IF job.at = Len(Script) THEN "last" ELSE "seed"
<1>2. job' = [job EXCEPT !.at = @ + 1, !.pc = q]
  BY DEF NextEntry
<1> HIDE DEF q
<1>3. job'.at = job.at + 1 /\ job'.pc = q /\ job'.attempt = job.attempt
  BY <1>1, <1>2 DEF Job
<1>4. Script' = Script /\ Room' = Room
  BY <1>3, Steady
<1>5. TablesAreSound'
  <2>1. q \in Seeding \cup {"ended"}
    BY DEF q, Seeding
  <2> QED BY <1>1, <1>3, <2>1, SeedingTables
<1>6. Nodes(tree)'
  BY <1>4 DEF Nodes
<1>7. job.at \in 1 .. Len(Script) /\ Len(Script) \in Nat /\ DOMAIN Script = 1 .. Len(Script)
        /\ \A k \in DOMAIN Script : Script[k] \in Item
  BY <1>1, ScriptFacts DEF Progress
<1>8. \A k \in DOMAIN Script : k < job.at + 1 => Kept(tree', Script[k])
  <2> SUFFICES ASSUME NEW k \in DOMAIN Script, k < job.at + 1 PROVE Kept(tree', Script[k])
    OBVIOUS
  <2>1. CASE k = job.at
    BY <2>1 DEF Entry
  <2>2. CASE k # job.at
    <3>1. k < job.at
      BY <2>2, <1>7
    <3> QED BY <3>1, <1>1, <1>7 DEF Progress
  <2> QED BY <2>1, <2>2
<1>9. /\ q = "seed" => job.at + 1 \in DOMAIN Script
      /\ q # "seed" => job.at + 1 = Len(Script) + 1
      /\ q # "fill"
  BY <1>7 DEF q
<1>10. Progress'
  BY <1>3, <1>4, <1>8, <1>9 DEF Progress
<1>11. TreeIsSound'
  <2>1. job'.pc \in Seeding
    BY <1>3 DEF q, Seeding
  <2> QED BY <2>1, <1>6, <1>10 DEF TreeIsSound
<1> QED BY <1>5, <1>11 DEF Survives

\* The nodes of Entry's path, before it is created and after.
LEMMA CreateSurvives == SInv /\ Survives /\ Create => Survives'
<1> SUFFICES ASSUME SInv, Survives, Create PROVE Survives'
  OBVIOUS
<1> DEFINE new == [path |-> Entry.path, directory |-> Entry.directory, sectors |-> 0, whole |-> Entry.directory]
           u == Append(tree, new)
<1>1. job.pc = "seed" /\ UNCHANGED <<request, cache, platter>> /\ Typed /\ request \in Requests
  BY DEF Create, SInv, Typed
<1>2. Seeded /\ Progress /\ Nodes(tree) /\ tree \in Seq(TreeNode)
  BY <1>1 DEF Seeded, Seeding, Survives, TreeIsSound, Nodes
<1>3. /\ job.at \in DOMAIN Script /\ Entry \in Item /\ Entry = Script[job.at]
      /\ Entry.directory \in BOOLEAN /\ Entry.path \in Paths /\ Entry.sectors \in Nat
      /\ Entry.directory => Entry.sectors = 0
  <2>1. job.at \in DOMAIN Script
    BY <1>1, <1>2 DEF Progress
  <2>2. Entry \in Item /\ Entry = Script[job.at] /\ (Entry.directory => Entry.sectors = 0)
    BY <2>1, <1>1, ScriptFacts DEF Entry
  <2> QED BY <2>1, <2>2 DEF Item
<1>0. /\ Obstacle(Entry) = "none" /\ Entry.directory => Having(Entry.path) = {}
      /\ Obstacle(Entry) = "none" /\ ~Entry.directory => ~IsDirectory(Entry.path)
      /\ Obstacle(Entry) = "AlreadyExists" => Having(Entry.path) # {}
  <2>1. Entry.directory \in BOOLEAN
    BY <1>3
  <2> QED BY ONLY <2>1, ObstacleTells
<1>4. Used(tree) <= Room /\ Used(tree) \in Nat
  BY <1>2, UsedIsNat DEF Progress
<1>5. ASSUME Obstacle(Entry) = "none", Having(Entry.path) = {}
      PROVE  /\ Nodes(u) /\ new = u[Len(tree) + 1] /\ DOMAIN u = (DOMAIN tree) \cup {Len(tree) + 1}
             /\ \A i \in DOMAIN tree : u[i] = tree[i] /\ tree[i].path # Entry.path
             /\ \A x : Kept(tree, x) => Kept(u, x)
             /\ Used(u) = Used(tree)
  <2>1. new \in TreeNode /\ (new.directory => new.whole)
    BY <1>3 DEF TreeNode
  <2>2. \A i \in DOMAIN tree : tree[i].path # new.path
    BY <1>5 DEF Having
  <2>3. ASSUME NEW k \in DOMAIN Script, Script[k].path = new.path, Script[k].directory
        PROVE  new.directory
    <3>1. Script[k].path = Entry.path
      BY <2>3
    <3>2. ~(k < job.at)
      <4>1. SUFFICES ASSUME k < job.at PROVE FALSE
        OBVIOUS
      <4>2. Kept(tree, Script[k])
        BY <4>1, <1>2 DEF Progress
      <4> QED BY <4>2, <2>2, <3>1 DEF Kept
    <3>3. k = job.at \/ job.at < k
      BY <3>2, <1>1, <1>3, ScriptFacts
    <3>4. Entry.directory
      BY <3>1, <3>3, <2>3, <1>1, <1>3, ScriptFacts
    <3> QED BY <3>4
  <2>4. Used(u) = Used(tree) + new.sectors
    BY <1>2, <2>1, UsedWithNew
  <2> HIDE DEF new
  <2>5. /\ Nodes(u) /\ new = u[Len(tree) + 1] /\ DOMAIN u = (DOMAIN tree) \cup {Len(tree) + 1}
        /\ \A i \in DOMAIN tree : u[i] = tree[i]
        /\ \A x : Kept(tree, x) => Kept(u, x)
    BY <1>2, <2>1, <2>2, <2>3, NodesWithNew
  <2>6. new.sectors = 0 /\ new.path = Entry.path
    BY DEF new
  <2> HIDE DEF u
  <2> QED BY <1>4, <2>2, <2>4, <2>5, <2>6
<1>6. CASE Obstacle(Entry) = "none" /\ Entry.directory /\ NextEntry
           /\ tree' = IF Having(Entry.path) # {} THEN tree ELSE u
  <2>1. Having(Entry.path) = {}
    BY <1>0, <1>6
  <2>2. tree' = u
    BY <2>1, <1>6
  <2>3. new.path = Entry.path /\ new.directory = Entry.directory /\ new.whole = Entry.directory /\ new.sectors = 0
    OBVIOUS
  <2> HIDE DEF new, u
  <2>4. Kept(u, Entry)
    <3>1. Len(tree) + 1 \in DOMAIN u /\ u[Len(tree) + 1] = new
      BY <1>5, <1>6, <2>1
    <3>2. new.whole /\ Entry.sectors <= new.sectors
      BY <1>3, <1>6, <2>3
    <3> QED BY <2>3, <3>1, <3>2 DEF Kept
  <2>5. Nodes(tree') /\ Used(tree') <= Room /\ Kept(tree', Entry)
          /\ \A x \in Item : Kept(tree, x) => Kept(tree', x)
    BY <1>4, <1>5, <1>6, <2>1, <2>2, <2>4
  <2> QED BY <1>1, <1>6, <2>5, NextSurvives
<1>7. CASE Obstacle(Entry) = "none" /\ ~Entry.directory /\ On
           /\ tree' = IF Having(Entry.path) # {} THEN tree ELSE u
  <2>1. ~IsDirectory(Entry.path)
    BY <1>0, <1>7
  <2>2. Moves("fill")
    BY <1>1, <1>7, Outcomes, Order
  <2>3. job'.pc = "fill" /\ job'.at = job.at /\ job'.attempt = job.attempt
    BY <2>2 DEF Moves
  <2>4. Script' = Script /\ Room' = Room
    BY <1>1, <2>3, Steady
  <2>5. TablesAreSound'
    BY <1>1, <1>2, <2>3, SeedingTables DEF Seeding
  <2>6. /\ Nodes(tree') /\ Used(tree') <= Room /\ \A x \in Item : Kept(tree, x) => Kept(tree', x)
        /\ \E i \in DOMAIN tree' :
             {j \in DOMAIN tree' : tree'[j].path = Entry.path} = {i} /\ ~tree'[i].directory
    <3>1. CASE Having(Entry.path) # {}
      <4>1. tree' = tree
        BY <1>7, <3>1
      <4>2. PICK i \in DOMAIN tree : tree[i].path = Entry.path
        BY <3>1 DEF Having
      <4>3. {j \in DOMAIN tree : tree[j].path = Entry.path} = {i}
        BY <4>2, <1>2 DEF Nodes
      <4>4. ~tree[i].directory
        BY <4>2, <2>1 DEF IsDirectory, Having
      <4> QED BY <4>1, <4>3, <4>4, <1>2, <1>4
    <3>2. CASE Having(Entry.path) = {}
      <4>1. tree' = u
        BY <1>7, <3>2
      <4>2. new.path = Entry.path /\ ~new.directory
        BY <1>7
      <4> HIDE DEF new, u
      <4>3. /\ u[Len(tree) + 1] = new /\ DOMAIN u = (DOMAIN tree) \cup {Len(tree) + 1}
            /\ \A i \in DOMAIN tree : u[i] = tree[i] /\ tree[i].path # Entry.path
            /\ Nodes(u) /\ Used(u) = Used(tree) /\ \A x : Kept(tree, x) => Kept(u, x)
        BY <1>5, <1>7, <3>2
      <4>4. {j \in DOMAIN u : u[j].path = Entry.path} = {Len(tree) + 1}
        BY <4>2, <4>3
      <4> QED BY <4>1, <4>2, <4>3, <4>4, <1>4
    <3> QED BY <3>1, <3>2
  <2>7. \A k \in DOMAIN Script : k < job.at => Kept(tree', Script[k])
    BY <2>6, <1>1, <1>2, ScriptFacts DEF Progress
  <2>8. Entry' = Entry /\ Having(Entry.path)' = {j \in DOMAIN tree' : tree'[j].path = Entry.path}
    BY <2>3, <2>4 DEF Entry, Having
  <2>9. Progress'
    <3>1. Used(tree)' <= Room' /\ job'.at \in DOMAIN Script' /\ job'.pc = "fill" /\ ~Entry'.directory
      BY <1>3, <1>7, <2>3, <2>4, <2>6, <2>8
    <3>2. \E i \in DOMAIN tree' : Having(Entry.path)' = {i} /\ ~tree'[i].directory
      BY <2>6, <2>8
    <3>3. \A k \in DOMAIN Script' : k < job'.at => Kept(tree', Script'[k])
      BY <2>3, <2>4, <2>7
    <3> QED BY <3>1, <3>2, <3>3 DEF Progress
  <2>10. Nodes(tree)'
    BY <2>4, <2>6 DEF Nodes
  <2>11. TreeIsSound'
    BY <2>3, <2>9, <2>10 DEF TreeIsSound, Seeding
  <2> QED BY <2>5, <2>11 DEF Survives
<1>8. CASE Tolerated(Entry) /\ NextEntry /\ tree' = tree
  <2>1. Entry.directory /\ Having(Entry.path) # {}
    BY <1>0, <1>8 DEF Tolerated
  <2>2. PICK i \in DOMAIN tree : tree[i].path = Entry.path
    BY <2>1 DEF Having
  <2>3. tree[i].directory
    BY <2>1, <2>2, <1>2, <1>3 DEF Nodes
  <2>4. tree[i].whole /\ tree[i].sectors \in Nat
    <3>1. tree[i] \in TreeNode
      BY <1>2, LenProperties, ElementOfSeq
    <3> QED BY <3>1, <2>3, <1>2 DEF Nodes, TreeNode
  <2>5. Entry.sectors <= tree[i].sectors
    BY <2>1, <2>4, <1>3
  <2>6. Kept(tree', Entry)
    BY <2>1, <2>2, <2>3, <2>4, <2>5, <1>8 DEF Kept
  <2> QED BY <1>1, <1>2, <1>4, <1>8, <2>6, NextSurvives
<1>9. CASE Ended("DfsFormat") /\ tree' = tree
  BY <1>1, <1>9, Outcomes, FailLeavesTree
<1> QED BY <1>6, <1>7, <1>8, <1>9 DEF Create

LEMMA TreeWith ==
  ASSUME NEW t \in Seq(TreeNode), NEW i \in DOMAIN t, NEW n \in TreeNode
  PROVE  /\ [t EXCEPT ![i] = n] \in Seq(TreeNode) /\ DOMAIN [t EXCEPT ![i] = n] = DOMAIN t
         /\ \A j \in DOMAIN t : [t EXCEPT ![i] = n][j] = IF j = i THEN n ELSE t[j]
<1>1. i \in 1 .. Len(t)
  BY LenProperties
<1>2. [t EXCEPT ![i] = n] \in Seq(TreeNode)
  BY <1>1, ExceptSeq
<1> QED BY <1>2

LEMMA LeastOfOne == ASSUME NEW i \in Nat PROVE Min({i}) = i
BY DEF Min

\* The file at hand gets its data, or what there is room for.
LEMMA FillSurvives == SInv /\ Survives /\ Fill => Survives'
<1> SUFFICES ASSUME SInv, Survives, Fill PROVE Survives'
  OBVIOUS
<1>1. job.pc = "fill" /\ UNCHANGED <<request, cache, platter>> /\ Typed /\ request \in Requests
  BY DEF Fill, SInv, Typed
<1>2. Seeded /\ Progress /\ Nodes(tree) /\ tree \in Seq(TreeNode)
  BY <1>1 DEF Seeded, Seeding, Survives, TreeIsSound, Nodes
<1>3. Entry \in Item /\ Entry.sectors \in Nat
  <2>1. job.at \in DOMAIN Script
    BY <1>1, <1>2 DEF Progress
  <2>2. Entry \in Item
    BY <2>1, <1>1, ScriptFacts DEF Entry
  <2> QED BY <2>2 DEF Item
<1>4. PICK i \in DOMAIN tree : Having(Entry.path) = {i} /\ ~tree[i].directory /\ ~Entry.directory
  BY <1>1, <1>2 DEF Progress
<1>5. tree[i] \in TreeNode /\ i \in Nat /\ tree[i].path = Entry.path /\ tree[i].sectors \in Nat
  <2>1. DOMAIN tree = 1 .. Len(tree) /\ Len(tree) \in Nat /\ tree[i] \in TreeNode
    BY <1>2, LenProperties, ElementOfSeq
  <2>2. tree[i].path = Entry.path
    BY <1>4 DEF Having
  <2> QED BY <2>1, <2>2 DEF TreeNode
<1>6. Min(Having(Entry.path)) = i
  BY <1>4, <1>5, LeastOfOne
<1> DEFINE has == tree[i].sectors
           more == IF Entry.sectors > has THEN Entry.sectors - has ELSE 0
           room == Room - Used(tree)
           some == IF more <= room THEN more ELSE room
           full == [tree[i] EXCEPT !.sectors = has + more, !.whole = TRUE]
           part == [tree[i] EXCEPT !.sectors = has + some]
<1>7. /\ \/ /\ more <= room /\ NextEntry
            /\ tree' = [tree EXCEPT ![i].sectors = has + more, ![i].whole = TRUE]
         \/ /\ Ended("DfsFormat")
            /\ \/ UNCHANGED tree
               \/ tree' = [tree EXCEPT ![i].sectors = has + (IF more <= room THEN more ELSE room)]
  BY <1>6 DEF Fill
<1>8. Used(tree) \in Nat /\ Room \in Int /\ Used(tree) <= Room /\ room \in Nat
  <2>1. Used(tree) \in Nat /\ Used(tree) <= Room
    BY <1>2, UsedIsNat DEF Progress
  <2>2. request.sectors \in Nat
    BY <1>1, Attempts
  <2>3. Room \in Int
    BY <2>2 DEF Room, Reserved, SectorsOf, Partition, DfsStart, DfsEnd, LastUsable, BackupEntries,
                EspStart, EspSectors, EntrySectors, Alignment
  <2> QED BY <2>1, <2>3
<1>9. more \in Nat /\ some \in Nat /\ has \in Nat /\ Entry.sectors <= has + more
  BY <1>3, <1>5, <1>8
<1>10. /\ full \in TreeNode /\ full.path = tree[i].path /\ full.directory = tree[i].directory
       /\ full.sectors = has + more /\ full.whole
  <2>1. has + more \in Nat
    BY <1>9
  <2> HIDE DEF more
  <2> QED BY <2>1, <1>5 DEF TreeNode
<1>11. /\ part \in TreeNode /\ part.path = tree[i].path /\ part.directory = tree[i].directory
       /\ part.sectors = has + some /\ part.whole = tree[i].whole
  <2>1. has + some \in Nat
    BY <1>9
  <2> HIDE DEF some
  <2> QED BY <2>1, <1>5 DEF TreeNode
<1>12. CASE more <= room /\ NextEntry /\ tree' = [tree EXCEPT ![i].sectors = has + more, ![i].whole = TRUE]
  <2>1. tree' = [tree EXCEPT ![i] = full]
    <3> HIDE DEF more
    <3> QED BY <1>12
  <2> DEFINE u == [tree EXCEPT ![i] = full]
  <2> HIDE DEF full, more, has, room
  <2>2. /\ u \in Seq(TreeNode) /\ DOMAIN u = DOMAIN tree
        /\ \A j \in DOMAIN tree : u[j] = IF j = i THEN full ELSE tree[j]
    BY <1>2, <1>10, TreeWith
  <2> HIDE DEF u
  <2>3. has <= has + more
    BY <1>9
  <2>4. tree[i].sectors <= full.sectors
    BY <2>3, <1>10 DEF has
  <2>5. \A j \in DOMAIN tree : tree[j].sectors <= tree[j].sectors
    <3>1. \A j \in DOMAIN tree : tree[j] \in TreeNode
      BY <1>2, LenProperties, ElementOfSeq
    <3> QED BY <3>1 DEF TreeNode
  <2>6. Nodes(u) /\ \A x \in Item : Kept(tree, x) => Kept(u, x)
    BY <1>2, <1>10, <2>2, <2>4, <2>5, NodesWithMore
  <2>7. Used(u) = Used(tree) + (full.sectors - tree[i].sectors)
    BY <1>2, <2>2, UsedWithMore
  <2>8. Used(u) = Used(tree) + more
    BY <2>7, <1>8, <1>9, <1>10 DEF has
  <2>9. Used(u) <= Room
    BY <2>8, <1>8, <1>9, <1>12 DEF room
  <2>10. Kept(u, Entry)
    <3>1. i \in DOMAIN u /\ u[i] = full
      BY <2>2
    <3>2. tree[i].directory = Entry.directory
      <4>1. tree[i].directory \in BOOLEAN /\ Entry.directory \in BOOLEAN
        BY <1>3, <1>5 DEF TreeNode, Item
      <4> QED BY <4>1, <1>4, Zenon
    <3>3. full.path = Entry.path /\ full.directory = Entry.directory /\ full.whole
            /\ Entry.sectors <= full.sectors
      BY <3>2, <1>5, <1>9, <1>10
    <3> QED BY <3>1, <3>3 DEF Kept
  <2>11. tree' = u
    BY <2>1 DEF u
  <2> QED BY <1>1, <1>12, <2>6, <2>9, <2>10, <2>11, NextSurvives
<1>13. CASE Ended("DfsFormat") /\ tree' = tree
  BY <1>1, <1>13, Outcomes, FailLeavesTree
<1>14. CASE Ended("DfsFormat") /\ tree' = [tree EXCEPT ![i].sectors = has + some]
  <2>1. tree' = [tree EXCEPT ![i] = part]
    <3> HIDE DEF some
    <3> QED BY <1>14
  <2> DEFINE u == [tree EXCEPT ![i] = part]
  <2> HIDE DEF part, more, some, has, room
  <2>2. /\ u \in Seq(TreeNode) /\ DOMAIN u = DOMAIN tree
        /\ \A j \in DOMAIN tree : u[j] = IF j = i THEN part ELSE tree[j]
    BY <1>2, <1>11, TreeWith
  <2> HIDE DEF u
  <2>3. tree[i].sectors <= part.sectors
    BY <1>9, <1>11 DEF has
  <2>4. \A j \in DOMAIN tree : tree[j].sectors <= tree[j].sectors
    <3>1. \A j \in DOMAIN tree : tree[j] \in TreeNode
      BY <1>2, LenProperties, ElementOfSeq
    <3> QED BY <3>1 DEF TreeNode
  <2>5. Nodes(u)
    BY <1>2, <1>11, <2>2, <2>3, <2>4, NodesWithMore
  <2>6. Ends("DfsFormat") /\ tree' = u
    BY <1>1, <1>14, <2>1, Outcomes DEF u
  <2>7. Nodes(tree)'
    <3>1. Script' = Script
      BY <1>1, <2>6, Steady DEF Ends
    <3> QED BY <2>5, <2>6, <3>1 DEF Nodes
  <2> QED BY <1>1, <2>6, <2>7, FailSurvives
<1> QED BY <1>7, <1>12, <1>13, <1>14

LEMMA FinishSurvives == SInv /\ Survives /\ Finish => Survives'
<1> SUFFICES ASSUME SInv, Survives, Finish PROVE Survives'
  OBVIOUS
<1>1. job.pc = "last" /\ UNCHANGED <<request, cache, tree>> /\ Typed
  BY DEF Finish, SInv
<1>2. CASE Ended("Installed")
  <2>1. Ends("Installed")
    BY <1>1, <1>2, Outcomes
  <2>2. Seeded /\ Progress
    BY <1>1 DEF Seeded, Seeding, Survives, TreeIsSound
  <2>3. Script' = Script /\ Room' = Room
    BY <1>1, <2>1, Steady DEF Ends
  <2>4. TablesAreSound'
    BY <1>1, <2>1, <2>2, SeedingTables DEF Ends
  <2>5. Nodes(tree)'
    BY <1>1, <2>3 DEF Survives, TreeIsSound, Nodes
  <2>6. Progress'
    BY <1>1, <2>1, <2>2, <2>3 DEF Progress, Ends
  <2>7. TreeIsSound'
    BY <2>1, <2>5, <2>6 DEF TreeIsSound, Ends
  <2> QED BY <2>4, <2>7 DEF Survives
<1>3. CASE Ended("Block")
  BY <1>1, <1>3, Outcomes, FailLeavesTree
<1> QED BY <1>2, <1>3 DEF Finish

\* The platter is not what these parts speak of.
LEMMA QuietSurvives == Survives /\ UNCHANGED <<request, job, cache, tree>> => Survives'
<1> SUFFICES ASSUME Survives, UNCHANGED <<request, job, cache, tree>> PROVE Survives'
  OBVIOUS
<1>1. Script' = Script /\ Room' = Room
  BY Steady
<1>2. TablesAreSound'
  BY <1>1 DEF Survives, TablesAreSound, Seeded
<1>3. Nodes(tree)'
  BY <1>1 DEF Survives, TreeIsSound, Nodes
<1>4. Progress => Progress'
  BY <1>1 DEF Progress, Entry, Having
<1>5. TreeIsSound'
  BY <1>3, <1>4 DEF Survives, TreeIsSound, Seeded
<1> QED BY <1>2, <1>5 DEF Survives

LEMMA EmptyNodes == Nodes(<<>>)
<1>1. <<>> \in Seq(TreeNode) /\ DOMAIN <<>> = {}
  OBVIOUS
<1> QED BY <1>1 DEF Nodes

\* A new attempt has nothing to keep.
LEMMA AnewSurvives ==
  ASSUME NEW n, job' = NewJob(n), tree' = <<>>
  PROVE  Survives'
<1>1. job'.pc = "ask" /\ job'.at = 1 /\ ~Seeded'
  BY DEF NewJob, Seeded, Seeding
<1>2. TablesAreSound'
  BY <1>1 DEF TablesAreSound, HasBackup, HasEsp, HasRoom, HasHeader, HasJournal, Formatting
<1>3. Nodes(tree)'
  <2>1. <<>> \in Seq(TreeNode) /\ DOMAIN <<>> = {}
    OBVIOUS
  <2> QED BY <2>1 DEF Nodes
<1> QED BY <1>1, <1>2, <1>3 DEF Survives, TreeIsSound

LEMMA InitSurvives == Init => Survives
<1> SUFFICES ASSUME Init PROVE Survives
  OBVIOUS
<1>1. job.pc = "ask" /\ job.at = 1 /\ ~Seeded /\ tree = <<>>
  BY DEF Init, NewJob, Seeded, Seeding
<1>2. TablesAreSound
  BY <1>1 DEF TablesAreSound, HasBackup, HasEsp, HasRoom, HasHeader, HasJournal, Formatting
<1> QED BY <1>1, <1>2, EmptyNodes DEF Survives, TreeIsSound

\* What was reported as installed is on the platter, for every image, account and
\* disk and in any number of attempts: both tables, the boot files and every entry,
\* whole and within the partition.
THEOREM InstalledAlwaysSurvives == Spec => []InstalledSurvives
<1>1. SInv /\ Survives /\ [Next]_vars => Survives'
  <2> SUFFICES ASSUME SInv, Survives, [Next]_vars PROVE Survives'
    OBVIOUS
  <2>1. CASE UNCHANGED vars
    BY <2>1, QuietSurvives DEF vars
  <2>2. CASE WriteBack
    BY <2>2, QuietSurvives DEF WriteBack
  <2>3. CASE PowerFails \/ TryAgain
    BY <2>3, AnewSurvives DEF PowerFails, TryAgain
  <2> QED
    BY <2>1, <2>2, <2>3, PlanningSurvives, WritePartSurvives, ReadTableSurvives, FlushSurvives,
       StoreRootSurvives, CreateSurvives, FillSurvives, FinishSurvives DEF Next
<1>2. SInv /\ Survives /\ FormattedIsNew => InstalledSurvives
  <2> SUFFICES ASSUME SInv, Survives, FormattedIsNew, job.result = "Installed" PROVE InstalledSurvives
    BY DEF InstalledSurvives
  <2>1. Seeded /\ Progress /\ request \in Requests /\ job.pc = "ended"
    BY DEF Seeded, Survives, TreeIsSound, SInv, Typed
  <2>2. cache.root = job.attempt /\ cache.backup = job.attempt /\ cache.esp = job.attempt
    BY <2>1 DEF Survives, TablesAreSound
  <2>3. IsNew
    BY <2>2 DEF SInv, DiskIsSound
  <2>4. \A p \in {"backup", "entries", "header", "esp"} : platter[p] = job.attempt
    BY <2>2, <2>3 DEF IsNew
  <2>5. Mount(platter) = job.attempt
    BY <2>2 DEF FormattedIsNew
  <2>6. \A k \in DOMAIN Script : k < job.at
    BY <2>1, ScriptFacts DEF Progress
  <2>7. ASSUME NEW k \in DOMAIN Script
        PROVE  \E i \in DOMAIN tree : LET e == Script[k] IN
                 tree[i].path = e.path /\ tree[i].directory = e.directory /\ tree[i].whole
                   /\ tree[i].sectors >= e.sectors
    <3>1. Kept(tree, Script[k])
      BY <2>1, <2>6 DEF Progress
    <3>2. PICK i \in DOMAIN tree : /\ tree[i].path = Script[k].path /\ tree[i].directory = Script[k].directory
                                   /\ tree[i].whole /\ Script[k].sectors <= tree[i].sectors
      BY <3>1 DEF Kept
    <3>3. tree[i].sectors >= Script[k].sectors
      BY <3>2
    <3> QED BY <3>2, <3>3
  <2>8. Used(tree) <= Room
    BY <2>1 DEF Progress
  <2> QED BY <2>4, <2>5, <2>7, <2>8 DEF InstalledSurvives
<1> QED BY <1>1, <1>2, InitSurvives, InstallationIsSound, FormattedAlwaysNew, PTL DEF Spec
=============================================================================
