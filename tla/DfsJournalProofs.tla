-------------------------- MODULE DfsJournalProofs --------------------------
(***************************************************************************)
(* Theorems of DfsJournal, for any number of sectors, any contents and any *)
(* size of the journal: a power failure at any moment leaves the metadata  *)
(* before or after the running transaction, and the next mount finds it.   *)
(***************************************************************************)
EXTENDS DfsJournal, TLAPS

\* The first n sectors of the transaction are in the journal, or in place.
Written(n) == \A i \in 1 .. n : cache.payload[i] = kernel.txn[i].data
Placed(n) == \A i \in 1 .. n : cache.homes[kernel.txn[i].target] = kernel.txn[i].data

Recording == {"payload", "flush payload", "header"}
Applying == {"targets", "flush targets", "clear", "flush clear"}

\* Outside a commit and a replay nothing is in the cache only.
AtRest ==
  kernel.pc \in {"down", "mounted"} =>
    /\ kernel.txn = <<>> /\ kernel.next = 1 /\ ~kernel.mounting
    /\ cache = platter
    /\ kernel.pc = "down" => Intact(platter)
    /\ kernel.pc = "mounted" => platter.header = Cleared

\* Up to the commit record the transaction is in the journal's payload only.
IsRecording ==
  kernel.pc \in Recording =>
    /\ kernel.txn \in Transactions /\ ~kernel.mounting
    /\ cache.header = Cleared /\ platter.header = Cleared
    /\ cache.homes = platter.homes
    /\ IF kernel.pc = "payload"
       THEN kernel.next <= Len(kernel.txn) /\ Written(kernel.next - 1)
       ELSE kernel.next = 1 /\ Written(Len(kernel.txn))
    /\ kernel.pc = "header" => cache = platter

\* The record may or may not have reached the platter; its payload has.
IsPublishing ==
  kernel.pc = "flush header" =>
    /\ kernel.txn \in Transactions /\ ~kernel.mounting /\ kernel.next = 1
    /\ cache.header = kernel.txn /\ platter.header \in {Cleared, kernel.txn}
    /\ cache.homes = platter.homes /\ cache.payload = platter.payload
    /\ Written(Len(kernel.txn))

\* The record stays until every target is on the platter.
IsApplying ==
  kernel.pc \in Applying =>
    /\ kernel.txn \in Transactions
    /\ cache.payload = platter.payload /\ Written(Len(kernel.txn))
    /\ \A h \in Homes : ~Covers(kernel.txn, h) => cache.homes[h] = platter.homes[h]
    /\ kernel.pc # "flush clear" => cache.header = kernel.txn /\ platter.header = kernel.txn
    /\ IF kernel.pc = "targets"
       THEN kernel.next <= Len(kernel.txn) /\ Placed(kernel.next - 1)
       ELSE kernel.next = 1 /\ Placed(Len(kernel.txn))
    /\ kernel.pc \in {"clear", "flush clear"} => cache.homes = platter.homes
    /\ kernel.pc = "clear" => cache = platter
    /\ kernel.pc = "flush clear" =>
         cache.header = Cleared /\ platter.header \in {Cleared, kernel.txn}

Phases == AtRest /\ IsRecording /\ IsPublishing /\ IsApplying
JInv == JournalTypeOK /\ MountNeverRefused /\ Phases

\* What a step is to the store.
StoreStep == [Promise!StoreNext]_<<Survives, Status, Pending>>

-----------------------------------------------------------------------------
(* Transactions and images.                                                *)

\* A transaction is a non-empty sequence with distinct targets that fits the journal.
LEMMA TransactionFacts ==
  ASSUME NEW t \in Transactions
  PROVE  /\ t \in Seq(Entry) /\ Len(t) \in Slots /\ DOMAIN t = 1 .. Len(t)
         /\ t # Cleared
         /\ \A i \in 1 .. Len(t) : t[i].target \in Homes /\ t[i].data \in Datum
         /\ \A i \in 1 .. Len(t) : i \in Slots
         /\ \A i, j \in 1 .. Len(t) : t[i].target = t[j].target => i = j
<1>1. PICK n \in Slots : t \in [1 .. n -> Entry]
  BY DEF Transactions
<1>2. n \in Nat /\ n > 0
  BY JournalAssumption DEF Slots
<1>3. t \in Seq(Entry) /\ Len(t) = n /\ DOMAIN t = 1 .. n
  BY <1>1, <1>2
<1>4. \A i, j \in DOMAIN t : t[i].target = t[j].target => i = j
  BY DEF Transactions
<1>5. \A i \in 1 .. n : i \in Slots
  BY <1>2, JournalAssumption DEF Slots
<1> QED
  BY <1>1, <1>2, <1>3, <1>4, <1>5 DEF Cleared, Entry

\* A record whose payload is in the journal is intact.
LEMMA IntactIs ==
  ASSUME NEW image, image.header \in Transactions,
         \A i \in 1 .. Len(image.header) : image.payload[i] = image.header[i].data
  PROVE  Intact(image) /\ Journaled(image) = image.header
<1> DEFINE t == image.header
<1>1. t \in Seq(Entry) /\ DOMAIN t = 1 .. Len(t)
  BY TransactionFacts
<1>2. \A i \in 1 .. Len(t) : [t[i] EXCEPT !.data = image.payload[i]] = t[i]
  <2>1. SUFFICES ASSUME NEW i \in 1 .. Len(t)
                 PROVE  [t[i] EXCEPT !.data = image.payload[i]] = t[i]
    OBVIOUS
  <2>2. t[i] \in Entry
    BY <1>1
  <2>3. image.payload[i] = t[i].data
    OBVIOUS
  <2> QED
    BY <2>2, <2>3 DEF Entry
<1>3. Journaled(image) = [i \in DOMAIN t |-> t[i]]
  BY <1>1, <1>2 DEF Journaled
<1>4. t = [i \in DOMAIN t |-> t[i]]
  BY <1>1
<1> QED
  BY <1>3, <1>4 DEF Intact

\* A cleared journal is intact, and a mount finds the sectors as they are.
LEMMA ClearedIs ==
  ASSUME NEW image \in Image, image.header = Cleared
  PROVE  Intact(image) /\ Redone(image, image.header) = image.homes
<1>1. \A h \in Homes : ~Covers(Cleared, h)
  BY DEF Covers, Cleared
<1>2. Redone(image, image.header) = [h \in Homes |-> image.homes[h]]
  BY <1>1 DEF Redone
<1>3. image.homes = [h \in Homes |-> image.homes[h]]
  BY DEF Image
<1>4. Journaled(image) = image.header
  BY DEF Journaled, Cleared
<1> QED
  BY <1>2, <1>3, <1>4 DEF Intact

\* Redoing a record does not depend on the sectors it covers.
LEMMA RedoneAgrees ==
  ASSUME NEW a, NEW b, NEW t,
         \A h \in Homes : ~Covers(t, h) => a.homes[h] = b.homes[h]
  PROVE  Redone(a, t) = Redone(b, t)
BY DEF Redone

\* Once every target is in place there is nothing left to redo.
LEMMA RedoneInPlace ==
  ASSUME NEW image \in Image, NEW t \in Transactions,
         \A i \in 1 .. Len(t) : image.homes[t[i].target] = t[i].data
  PROVE  Redone(image, t) = image.homes
<1>1. DOMAIN t = 1 .. Len(t)
  BY TransactionFacts
<1>2. \A h \in Homes :
        Covers(t, h) => t[CHOOSE i \in DOMAIN t : t[i].target = h].data = image.homes[h]
  <2>1. SUFFICES ASSUME NEW h \in Homes, Covers(t, h)
                 PROVE  t[CHOOSE i \in DOMAIN t : t[i].target = h].data = image.homes[h]
    OBVIOUS
  <2> DEFINE c == CHOOSE i \in DOMAIN t : t[i].target = h
  <2>2. c \in DOMAIN t /\ t[c].target = h
    BY <2>1 DEF Covers
  <2> QED
    BY <1>1, <2>2
<1>3. Redone(image, t) = [h \in Homes |-> image.homes[h]]
  BY <1>2 DEF Redone
<1>4. image.homes = [h \in Homes |-> image.homes[h]]
  BY DEF Image
<1> QED
  BY <1>3, <1>4

\* What the store calls applying a transaction is redoing it.
LEMMA AppliedIsRedone ==
  ASSUME NEW image, NEW t
  PROVE  Promise!Applied(image.homes, t) = Redone(image, t)
BY DEF Promise!Applied, Redone, Covers

-----------------------------------------------------------------------------
(* What a state of each phase is to the store.                             *)

\* Outside a commit the store is idle or down and no transaction is pending.
LEMMA RestView ==
  ASSUME JInv, kernel.pc \in {"down", "mounted"}
  PROVE  /\ Status = IF kernel.pc = "mounted" THEN "idle" ELSE "down"
         /\ Pending = <<>>
<1>1. Status = IF kernel.pc = "mounted" THEN "idle" ELSE "down"
  <2>1. CASE kernel.pc = "mounted"
    BY <2>1 DEF Status, Unrecorded, JInv, Phases, AtRest
  <2>2. CASE kernel.pc = "down"
    BY <2>2 DEF Status, Unrecorded
  <2> QED
    BY <2>1, <2>2
<1>2. Status \notin {"waiting", "applied"}
  BY <1>1
<1> QED
  BY <1>1, <1>2 DEF Pending

\* While a commit is recording the store waits.
LEMMA RecordingView ==
  ASSUME JInv, kernel.pc \in Recording
  PROVE  /\ Status = "waiting" /\ Pending = kernel.txn
         /\ Survives = platter.homes
<1>1. ~kernel.mounting /\ platter.header = Cleared /\ platter \in Image
  BY DEF JInv, Phases, IsRecording, JournalTypeOK
<1>2. Status = "waiting"
  BY <1>1 DEF Status, Unrecorded, Recording
<1> QED
  BY <1>1, <1>2, ClearedIs DEF Pending, Survives

\* While the record is being published the store has it or not, as the platter.
LEMMA PublishingView ==
  ASSUME JInv, kernel.pc = "flush header"
  PROVE  /\ Status = IF platter.header = Cleared THEN "waiting" ELSE "applied"
         /\ Pending = kernel.txn
<1>1. ~kernel.mounting
  BY DEF JInv, Phases, IsPublishing
<1> QED
  BY <1>1 DEF Status, Pending, Unrecorded

\* While targets are written the store has the transaction, or is down in a mount.
LEMMA ApplyingView ==
  ASSUME JInv, kernel.pc \in Applying
  PROVE  /\ Status = IF kernel.mounting THEN "down" ELSE "applied"
         /\ Pending = IF kernel.mounting THEN <<>> ELSE kernel.txn
BY DEF Status, Pending, Unrecorded, Applying

\* While targets are written a mount would find the transaction redone.
LEMMA ApplyingSurvives ==
  ASSUME JInv, kernel.pc \in Applying
  PROVE  Survives = Redone(platter, kernel.txn)
<1>1. kernel.txn \in Transactions /\ platter \in Image
  BY DEF JInv, Phases, IsApplying, JournalTypeOK
<1>2. CASE platter.header = kernel.txn
  BY <1>2 DEF Survives
<1>3. CASE platter.header # kernel.txn
  <2>1. kernel.pc = "flush clear" /\ platter.header = Cleared
    BY <1>3 DEF JInv, Phases, IsApplying
  <2>2. \A i \in 1 .. Len(kernel.txn) :
          platter.homes[kernel.txn[i].target] = kernel.txn[i].data
    BY <2>1 DEF JInv, Phases, IsApplying, Placed, Applying
  <2> QED
    BY <1>1, <2>1, <2>2, ClearedIs, RedoneInPlace DEF Survives
<1> QED
  BY <1>2, <1>3

\* The kernel with nothing under way.
LEMMA KernelAtRest ==
  /\ Mounted.pc = "mounted" /\ Down.pc = "down"
  /\ \A k \in {Mounted, Down} :
       /\ k.txn = <<>> /\ k.next = 1 /\ ~k.mounting
       /\ k \in [pc : Pcs, mounting : BOOLEAN, txn : Headers, next : Slots]
<1>1. 1 \in Slots /\ <<>> \in Headers /\ "mounted" \in Pcs /\ "down" \in Pcs
  BY JournalAssumption DEF Slots, Headers, Cleared, Pcs
<1>2. Down = [pc |-> "down", mounting |-> FALSE, txn |-> <<>>, next |-> 1]
  BY DEF Down
<1>3. Down \in [pc : Pcs, mounting : BOOLEAN, txn : Headers, next : Slots]
  BY <1>1, <1>2
<1>4. /\ Mounted.pc = "mounted" /\ Mounted.txn = <<>> /\ Mounted.next = 1 /\ ~Mounted.mounting
      /\ Mounted \in [pc : Pcs, mounting : BOOLEAN, txn : Headers, next : Slots]
  BY <1>1, <1>2, <1>3 DEF Mounted
<1> QED
  BY <1>2, <1>3, <1>4

-----------------------------------------------------------------------------
(* The steps.                                                              *)

\* commit begins with the payload.
LEMMA CommitSound ==
  ASSUME JInv, Commit
  PROVE  JInv' /\ StoreStep
<1>1. PICK t \in Transactions : kernel' = [kernel EXCEPT !.pc = "payload", !.txn = t]
  BY DEF Commit
<1>2. kernel.pc = "mounted" /\ UNCHANGED <<cache, platter>>
  BY DEF Commit
<1>3. /\ kernel.next = 1 /\ ~kernel.mounting /\ cache = platter /\ platter.header = Cleared
      /\ kernel \in [pc : Pcs, mounting : BOOLEAN, txn : Headers, next : Slots]
  BY <1>2 DEF JInv, Phases, AtRest, JournalTypeOK
<1>4. /\ kernel'.pc = "payload" /\ kernel'.txn = t /\ kernel'.next = 1 /\ ~kernel'.mounting
      /\ kernel' \in [pc : Pcs, mounting : BOOLEAN, txn : Headers, next : Slots]
  BY <1>1, <1>3 DEF Pcs, Headers
<1>5. Len(t) \in Nat /\ Len(t) >= 1
  BY TransactionFacts, JournalAssumption DEF Slots
<1>6. JInv'
  <2>1. JournalTypeOK' /\ MountNeverRefused'
    BY <1>2, <1>4 DEF JInv, JournalTypeOK, MountNeverRefused
  <2>2. IsRecording'
    BY <1>2, <1>3, <1>4, <1>5 DEF IsRecording, Written
  <2> QED
    BY <2>1, <2>2, <1>4
       DEF JInv, Phases, AtRest, IsPublishing, IsApplying, Applying
<1>7. Promise!Begin
  <2>1. Status = "idle"
    BY <1>2, RestView
  <2>2. Status' = "waiting" /\ Pending' = t
    BY <1>2, <1>3, <1>4 DEF Status, Pending, Unrecorded
  <2>3. Survives' = Survives
    BY <1>2 DEF Survives, Redone
  <2> QED
    BY <2>1, <2>2, <2>3 DEF Promise!Begin
<1> QED
  BY <1>6, <1>7 DEF StoreStep, Promise!StoreNext

\* The next sector of a transaction, or the flush after the last.
LEMMA AdvanceIs ==
  ASSUME JInv, kernel.txn \in Transactions, kernel.next <= Len(kernel.txn),
         NEW flush \in Pcs
  PROVE  /\ Advance(flush) \in [pc : Pcs, mounting : BOOLEAN, txn : Headers, next : Slots]
         /\ Advance(flush).txn = kernel.txn /\ Advance(flush).mounting = kernel.mounting
         /\ \/ /\ Advance(flush).pc = kernel.pc /\ Advance(flush).next = kernel.next + 1
               /\ kernel.next + 1 <= Len(kernel.txn)
            \/ /\ Advance(flush).pc = flush /\ Advance(flush).next = 1
               /\ kernel.next = Len(kernel.txn)
<1>1. kernel \in [pc : Pcs, mounting : BOOLEAN, txn : Headers, next : Slots]
  BY DEF JInv, JournalTypeOK
<1>2. Len(kernel.txn) \in Slots
  BY TransactionFacts
<1>3. kernel.next \in Nat /\ Len(kernel.txn) \in Nat /\ TransactionSectors \in Nat
      /\ Slots = 1 .. TransactionSectors /\ 1 \in Slots
  BY <1>1, <1>2, JournalAssumption DEF Slots
<1>4. CASE kernel.next < Len(kernel.txn)
  <2>1. Advance(flush) = [kernel EXCEPT !.next = kernel.next + 1]
    BY <1>4 DEF Advance
  <2>2. kernel.next + 1 \in Slots
    BY <1>1, <1>2, <1>3, <1>4
  <2> QED
    BY <2>1, <2>2, <1>1, <1>3, <1>4
<1>5. CASE ~(kernel.next < Len(kernel.txn))
  <2>1. Advance(flush) = [kernel EXCEPT !.next = 1, !.pc = flush]
    BY <1>5 DEF Advance
  <2>2. kernel.next = Len(kernel.txn)
    BY <1>3, <1>5
  <2>3. /\ Advance(flush).pc = flush /\ Advance(flush).next = 1
        /\ Advance(flush).txn = kernel.txn /\ Advance(flush).mounting = kernel.mounting
    BY <2>1, <1>1
  <2>4. Advance(flush) \in [pc : Pcs, mounting : BOOLEAN, txn : Headers, next : Slots]
    BY <2>1, <1>1, <1>3
  <2> QED
    BY <2>2, <2>3, <2>4
<1> QED
  BY <1>4, <1>5

\* The payload goes to the journal's own sectors.
LEMMA WritePayloadSound ==
  ASSUME JInv, WritePayload
  PROVE  JInv' /\ StoreStep
<1> DEFINE t == kernel.txn
<1>1. /\ kernel.pc = "payload" /\ UNCHANGED platter
      /\ cache' = [cache EXCEPT !.payload[kernel.next] = t[kernel.next].data]
      /\ kernel' = Advance("flush payload")
  BY DEF WritePayload
<1>2. /\ t \in Transactions /\ ~kernel.mounting /\ kernel.next <= Len(t)
      /\ cache.header = Cleared /\ platter.header = Cleared /\ cache.homes = platter.homes
      /\ Written(kernel.next - 1)
  BY <1>1 DEF JInv, Phases, IsRecording, Recording
<1>3. /\ cache \in Image /\ platter \in Image /\ kernel.next \in Slots
  BY DEF JInv, JournalTypeOK
<1>4. Len(t) \in Nat /\ kernel.next \in 1 .. Len(t) /\ kernel.next \in Slots
      /\ \A i \in 1 .. Len(t) : i \in Slots /\ t[i].data \in Datum
  BY <1>2, <1>3, TransactionFacts, JournalAssumption DEF Slots
<1>5. /\ cache'.header = Cleared /\ cache'.homes = platter.homes
      /\ cache'.payload = [cache.payload EXCEPT ![kernel.next] = t[kernel.next].data]
      /\ cache' \in Image
  BY <1>1, <1>2, <1>3, <1>4 DEF Image
<1>6. \A i \in 1 .. kernel.next : cache'.payload[i] = t[i].data
  BY <1>2, <1>3, <1>4, <1>5 DEF Written, Image
<1>7. /\ kernel' \in [pc : Pcs, mounting : BOOLEAN, txn : Headers, next : Slots]
      /\ kernel'.txn = t /\ ~kernel'.mounting
      /\ \/ /\ kernel'.pc = "payload" /\ kernel'.next = kernel.next + 1
            /\ kernel.next + 1 <= Len(t)
         \/ kernel'.pc = "flush payload" /\ kernel'.next = 1 /\ kernel.next = Len(t)
  BY <1>1, <1>2, AdvanceIs, "flush payload" \in Pcs DEF Pcs
<1>8. JInv'
  <2>1. JournalTypeOK' /\ MountNeverRefused'
    BY <1>1, <1>3, <1>5, <1>7 DEF JournalTypeOK, MountNeverRefused
  <2>2. IsRecording'
    <3>1. CASE kernel'.pc = "payload"
      <4>1. kernel'.next - 1 = kernel.next /\ kernel'.next <= Len(t)
        BY <3>1, <1>4, <1>7
      <4>2. Written(kernel.next - 1)'
        BY <4>1, <1>6, <1>7 DEF Written
      <4> QED
        BY <3>1, <4>1, <4>2, <1>1, <1>2, <1>5, <1>7 DEF IsRecording
    <3>2. CASE kernel'.pc = "flush payload"
      <4>1. Written(Len(kernel.txn))'
        BY <3>2, <1>6, <1>7 DEF Written
      <4> QED
        BY <3>2, <4>1, <1>1, <1>2, <1>5, <1>7 DEF IsRecording
    <3> QED
      BY <3>1, <3>2, <1>7
  <2> QED
    BY <2>1, <2>2, <1>7
       DEF JInv, Phases, AtRest, IsPublishing, IsApplying, Applying
<1>9. UNCHANGED <<Survives, Status, Pending>>
  <2>1. kernel.pc \in Recording /\ kernel'.pc \in Recording
    BY <1>1, <1>7 DEF Recording
  <2>2. Status' = "waiting" /\ Pending' = kernel.txn
    BY <1>1, <1>2, <1>7 DEF Status, Pending, Unrecorded
  <2>3. Survives' = Survives
    <3>1. platter' = platter
      BY <1>1
    <3> QED
      BY <3>1 DEF Survives
  <2> QED
    BY <2>1, <2>2, <2>3, RecordingView
<1> QED
  BY <1>8, <1>9 DEF StoreStep

\* The payload is on the platter before the record is written.
LEMMA FlushPayloadSound ==
  ASSUME JInv, FlushPayload
  PROVE  JInv' /\ StoreStep
<1>1. /\ kernel.pc = "flush payload" /\ UNCHANGED cache /\ platter' = cache
      /\ kernel' = [kernel EXCEPT !.pc = "header"]
  BY DEF FlushPayload
<1>2. /\ kernel.txn \in Transactions /\ ~kernel.mounting /\ kernel.next = 1
      /\ cache.header = Cleared /\ platter.header = Cleared /\ cache.homes = platter.homes
      /\ Written(Len(kernel.txn))
  BY <1>1 DEF JInv, Phases, IsRecording, Recording
<1>3. /\ cache \in Image /\ platter \in Image
      /\ kernel \in [pc : Pcs, mounting : BOOLEAN, txn : Headers, next : Slots]
  BY DEF JInv, JournalTypeOK
<1>4. /\ kernel'.pc = "header" /\ kernel'.txn = kernel.txn /\ ~kernel'.mounting
      /\ kernel'.next = 1
      /\ kernel' \in [pc : Pcs, mounting : BOOLEAN, txn : Headers, next : Slots]
  BY <1>1, <1>2, <1>3 DEF Pcs
<1>5. JInv'
  <2>1. JournalTypeOK' /\ MountNeverRefused'
    BY <1>1, <1>3, <1>4 DEF JournalTypeOK, MountNeverRefused
  <2>2. IsRecording'
    BY <1>1, <1>2, <1>4 DEF IsRecording, Written
  <2> QED
    BY <2>1, <2>2, <1>4
       DEF JInv, Phases, AtRest, IsPublishing, IsApplying, Applying
<1>6. UNCHANGED <<Survives, Status, Pending>>
  <2>1. Status' = "waiting" /\ Pending' = kernel.txn
    BY <1>4 DEF Status, Pending, Unrecorded
  <2>2. Survives' = platter.homes
    <3>1. Redone(cache, cache.header) = cache.homes
      BY <1>2, <1>3, ClearedIs
    <3>2. platter' = cache
      BY <1>1
    <3>3. Survives' = Redone(cache, cache.header)
      BY <3>2 DEF Survives
    <3> QED
      BY <3>1, <3>3, <1>2
  <2> QED
    BY <2>1, <2>2, <1>1, RecordingView DEF Recording
<1> QED
  BY <1>5, <1>6 DEF StoreStep

\* The record is written over a cleared journal.
LEMMA WriteHeaderSound ==
  ASSUME JInv, WriteHeader
  PROVE  JInv' /\ StoreStep
<1>1. /\ kernel.pc = "header" /\ UNCHANGED platter
      /\ cache' = [cache EXCEPT !.header = kernel.txn]
      /\ kernel' = [kernel EXCEPT !.pc = "flush header"]
  BY DEF WriteHeader
<1>2. /\ kernel.txn \in Transactions /\ ~kernel.mounting /\ kernel.next = 1
      /\ platter.header = Cleared /\ cache = platter
      /\ Written(Len(kernel.txn))
  BY <1>1 DEF JInv, Phases, IsRecording, Recording
<1>3. /\ cache \in Image /\ platter \in Image
      /\ kernel \in [pc : Pcs, mounting : BOOLEAN, txn : Headers, next : Slots]
  BY DEF JInv, JournalTypeOK
<1>4. /\ kernel'.pc = "flush header" /\ kernel'.txn = kernel.txn /\ ~kernel'.mounting
      /\ kernel'.next = 1
      /\ kernel' \in [pc : Pcs, mounting : BOOLEAN, txn : Headers, next : Slots]
  BY <1>1, <1>2, <1>3 DEF Pcs
<1>5. /\ cache'.header = kernel.txn /\ cache'.homes = platter.homes
      /\ cache'.payload = platter.payload /\ cache' \in Image
  BY <1>1, <1>2, <1>3 DEF Image, Headers
<1>6. JInv'
  <2>1. JournalTypeOK' /\ MountNeverRefused'
    BY <1>1, <1>3, <1>4, <1>5 DEF JournalTypeOK, MountNeverRefused
  <2>2. IsPublishing'
    BY <1>1, <1>2, <1>4, <1>5 DEF IsPublishing, Written
  <2> QED
    BY <2>1, <2>2, <1>4
       DEF JInv, Phases, AtRest, IsRecording, Recording, IsApplying, Applying
<1>7. UNCHANGED <<Survives, Status, Pending>>
  <2>1. Status' = "waiting" /\ Pending' = kernel.txn
    BY <1>1, <1>2, <1>4 DEF Status, Pending, Unrecorded
  <2>2. Survives' = Survives
    <3>1. platter' = platter
      BY <1>1
    <3> QED
      BY <3>1 DEF Survives
  <2> QED
    BY <2>1, <2>2, <1>1, RecordingView DEF Recording
<1> QED
  BY <1>6, <1>7 DEF StoreStep

\* Once the record is on the platter the transaction is in the store.
LEMMA FlushHeaderSound ==
  ASSUME JInv, FlushHeader
  PROVE  JInv' /\ StoreStep
<1> DEFINE t == kernel.txn
<1>1. /\ kernel.pc = "flush header" /\ UNCHANGED cache /\ platter' = cache
      /\ kernel' = [kernel EXCEPT !.pc = "targets"]
  BY DEF FlushHeader
<1>2. /\ t \in Transactions /\ ~kernel.mounting /\ kernel.next = 1
      /\ cache.header = t /\ platter.header \in {Cleared, t}
      /\ cache.homes = platter.homes /\ cache.payload = platter.payload
      /\ Written(Len(t))
  BY <1>1 DEF JInv, Phases, IsPublishing
<1>3. /\ cache \in Image /\ platter \in Image
      /\ kernel \in [pc : Pcs, mounting : BOOLEAN, txn : Headers, next : Slots]
  BY DEF JInv, JournalTypeOK
<1>4. /\ kernel'.pc = "targets" /\ kernel'.txn = t /\ ~kernel'.mounting /\ kernel'.next = 1
      /\ kernel' \in [pc : Pcs, mounting : BOOLEAN, txn : Headers, next : Slots]
  BY <1>1, <1>2, <1>3 DEF Pcs
<1>5. Len(t) \in Nat /\ Len(t) >= 1 /\ t # Cleared
  BY <1>2, TransactionFacts, JournalAssumption DEF Slots
<1>6. JInv'
  <2>1. JournalTypeOK' /\ MountNeverRefused'
    BY <1>1, <1>3, <1>4 DEF JournalTypeOK, MountNeverRefused
  <2>2. IsApplying'
    <3>1. cache' = cache /\ platter' = cache
      BY <1>1
    <3>2. Written(Len(kernel.txn))'
      BY <3>1, <1>2, <1>4 DEF Written
    <3>3. Placed(kernel.next - 1)'
      BY <1>4 DEF Placed
    <3> QED
      BY <3>1, <3>2, <3>3, <1>2, <1>4, <1>5 DEF IsApplying
  <2> QED
    BY <2>1, <2>2, <1>4
       DEF JInv, Phases, AtRest, IsRecording, Recording, IsPublishing
<1>7. Pending = t /\ Pending' = t /\ Status' = "applied"
  BY <1>1, <1>4, PublishingView DEF Status, Pending, Unrecorded
<1>8. Survives' = Redone(cache, t)
  <2>1. platter' = cache
    BY <1>1
  <2>2. Survives' = Redone(cache, cache.header)
    BY <2>1 DEF Survives
  <2> QED
    BY <2>2, <1>2
<1>9. CASE platter.header = Cleared
  <2>1. Status = "waiting"
    BY <1>1, <1>9, PublishingView
  <2>2. Survives = platter.homes
    BY <1>3, <1>9, ClearedIs DEF Survives
  <2>3. Promise!Applied(Survives, t) = Redone(cache, t)
    BY <2>2, <1>2, AppliedIsRedone
  <2>4. Promise!Apply
    BY <2>1, <2>3, <1>7, <1>8 DEF Promise!Apply
  <2> QED
    BY <2>4, <1>6 DEF StoreStep, Promise!StoreNext
<1>10. CASE platter.header # Cleared
  <2>1. Status = "applied" /\ platter.header = t
    BY <1>1, <1>2, <1>10, PublishingView
  <2>2. Survives = Redone(platter, t)
    BY <2>1 DEF Survives
  <2>3. Redone(platter, t) = Redone(cache, t)
    BY <1>2, RedoneAgrees
  <2> QED
    BY <2>1, <2>2, <2>3, <1>6, <1>7, <1>8 DEF StoreStep
<1> QED
  BY <1>9, <1>10

\* A phase that goes on applying looks the same to the store.
LEMMA ApplyingUnseen ==
  ASSUME JInv, JInv', kernel.pc \in Applying, kernel'.pc \in Applying,
         kernel'.txn = kernel.txn, kernel'.mounting = kernel.mounting,
         \A h \in Homes : ~Covers(kernel.txn, h) => platter'.homes[h] = platter.homes[h]
  PROVE  UNCHANGED <<Survives, Status, Pending>>
<1> DEFINE t == kernel.txn
<1>1. Survives = Redone(platter, t)
  BY ApplyingSurvives
<1>2. platter' \in Image /\ t \in Transactions
  BY DEF JInv, Phases, IsApplying, JournalTypeOK
<1>3. Survives' = Redone(platter', t)
  <2>1. CASE platter'.header = t
    BY <2>1 DEF Survives
  <2>2. CASE platter'.header # t
    <3>1. kernel'.pc = "flush clear" /\ platter'.header = Cleared
      BY <2>2 DEF JInv, Phases, IsApplying
    <3>2. \A i \in 1 .. Len(t) : platter'.homes[t[i].target] = t[i].data
      BY <3>1 DEF JInv, Phases, IsApplying, Placed, Applying
    <3>3. Redone(platter', t) = platter'.homes
      BY <3>2, <1>2, RedoneInPlace
    <3>4. Redone(platter', platter'.header) = platter'.homes
      BY <3>1, <1>2, ClearedIs
    <3> QED
      BY <3>3, <3>4 DEF Survives
  <2> QED
    BY <2>1, <2>2
<1>4. Redone(platter', t) = Redone(platter, t)
  BY RedoneAgrees
<1>5. Status = IF kernel.mounting THEN "down" ELSE "applied"
  BY ApplyingView
<1>6. Status' = IF kernel.mounting THEN "down" ELSE "applied"
  BY DEF Status, Unrecorded, Applying
<1>7. Pending' = Pending
  BY <1>5, <1>6 DEF Pending
<1> QED
  BY <1>1, <1>3, <1>4, <1>5, <1>6, <1>7

\* A target is written in the cache.
LEMMA WriteTargetSound ==
  ASSUME JInv, WriteTarget
  PROVE  JInv' /\ StoreStep
<1> DEFINE t == kernel.txn
           entry == t[kernel.next]
<1>1. /\ kernel.pc = "targets" /\ UNCHANGED platter
      /\ cache' = [cache EXCEPT !.homes[entry.target] = entry.data]
      /\ kernel' = Advance("flush targets")
  BY DEF WriteTarget
<1>2. /\ t \in Transactions /\ kernel.next <= Len(t)
      /\ cache.header = t /\ platter.header = t /\ cache.payload = platter.payload
      /\ Written(Len(t)) /\ Placed(kernel.next - 1)
      /\ \A h \in Homes : ~Covers(t, h) => cache.homes[h] = platter.homes[h]
  BY <1>1 DEF JInv, Phases, IsApplying, Applying
<1>3. /\ cache \in Image /\ platter \in Image /\ kernel.next \in Slots
  BY DEF JInv, JournalTypeOK
<1>4. /\ Len(t) \in Nat /\ kernel.next \in 1 .. Len(t) /\ DOMAIN t = 1 .. Len(t)
      /\ entry.target \in Homes /\ entry.data \in Datum
      /\ \A i \in 1 .. Len(t) : t[i].target \in Homes
      /\ \A i, j \in 1 .. Len(t) : t[i].target = t[j].target => i = j
  BY <1>2, <1>3, TransactionFacts, JournalAssumption DEF Slots
<1>5. /\ cache'.header = t /\ cache'.payload = cache.payload
      /\ cache'.homes = [cache.homes EXCEPT ![entry.target] = entry.data]
      /\ cache' \in Image
  BY <1>1, <1>2, <1>3, <1>4 DEF Image
<1>6. \A i \in 1 .. kernel.next : cache'.homes[t[i].target] = t[i].data
  <2>1. SUFFICES ASSUME NEW i \in 1 .. kernel.next
                 PROVE  cache'.homes[t[i].target] = t[i].data
    OBVIOUS
  <2>2. CASE i = kernel.next
    BY <2>2, <1>3, <1>4, <1>5 DEF Image
  <2>3. CASE i # kernel.next
    <3>1. i \in 1 .. kernel.next - 1 /\ i \in 1 .. Len(t)
      BY <2>3, <1>4
    <3>2. t[i].target # entry.target
      BY <3>1, <2>3, <1>4
    <3>3. cache.homes[t[i].target] = t[i].data
      BY <3>1, <1>2 DEF Placed
    <3> QED
      BY <3>1, <3>2, <3>3, <1>3, <1>4, <1>5 DEF Image
  <2> QED
    BY <2>2, <2>3
<1>7. \A h \in Homes : ~Covers(t, h) => cache'.homes[h] = platter.homes[h]
  <2>1. \A h \in Homes : ~Covers(t, h) => h # entry.target
    BY <1>4 DEF Covers
  <2> QED
    BY <2>1, <1>2, <1>3, <1>5 DEF Image
<1>8. /\ kernel' \in [pc : Pcs, mounting : BOOLEAN, txn : Headers, next : Slots]
      /\ kernel'.txn = t /\ kernel'.mounting = kernel.mounting
      /\ \/ /\ kernel'.pc = "targets" /\ kernel'.next = kernel.next + 1
            /\ kernel.next + 1 <= Len(t)
         \/ kernel'.pc = "flush targets" /\ kernel'.next = 1 /\ kernel.next = Len(t)
  BY <1>1, <1>2, AdvanceIs, "flush targets" \in Pcs DEF Pcs
<1>9. JInv'
  <2>1. platter' = platter
    BY <1>1
  <2>2. JournalTypeOK' /\ MountNeverRefused'
    BY <2>1, <1>3, <1>5, <1>8 DEF JournalTypeOK, MountNeverRefused
  <2>3. Written(Len(kernel.txn))'
    BY <1>2, <1>5, <1>8 DEF Written
  <2>4. IsApplying'
    <3>1. CASE kernel'.pc = "targets"
      <4>1. kernel'.next - 1 = kernel.next /\ kernel'.next <= Len(t)
        BY <3>1, <1>4, <1>8
      <4>2. Placed(kernel.next - 1)'
        BY <4>1, <1>6, <1>8 DEF Placed
      <4> QED
        BY <2>1, <2>3, <3>1, <4>1, <4>2, <1>2, <1>5, <1>7, <1>8 DEF IsApplying
    <3>2. CASE kernel'.pc = "flush targets"
      <4>1. Placed(Len(kernel.txn))'
        BY <3>2, <1>6, <1>8 DEF Placed
      <4> QED
        BY <2>1, <2>3, <3>2, <4>1, <1>2, <1>5, <1>7, <1>8 DEF IsApplying
    <3> QED
      BY <3>1, <3>2, <1>8
  <2> QED
    BY <2>2, <2>4, <1>8
       DEF JInv, Phases, AtRest, IsRecording, Recording, IsPublishing
<1>10. UNCHANGED <<Survives, Status, Pending>>
  <2>1. kernel.pc \in Applying /\ kernel'.pc \in Applying
    BY <1>1, <1>8 DEF Applying
  <2> QED
    BY <2>1, <1>1, <1>8, <1>9, ApplyingUnseen
<1> QED
  BY <1>9, <1>10 DEF StoreStep

\* The targets are on the platter before the journal is cleared.
LEMMA FlushTargetsSound ==
  ASSUME JInv, FlushTargets
  PROVE  JInv' /\ StoreStep
<1> DEFINE t == kernel.txn
<1>1. /\ kernel.pc = "flush targets" /\ cache' = cache /\ platter' = cache
      /\ kernel' = [kernel EXCEPT !.pc = "clear"]
  BY DEF FlushTargets
<1>2. /\ t \in Transactions /\ kernel.next = 1 /\ cache.header = t
      /\ Written(Len(t)) /\ Placed(Len(t))
      /\ \A h \in Homes : ~Covers(t, h) => cache.homes[h] = platter.homes[h]
  BY <1>1 DEF JInv, Phases, IsApplying, Applying
<1>3. /\ cache \in Image
      /\ kernel \in [pc : Pcs, mounting : BOOLEAN, txn : Headers, next : Slots]
  BY DEF JInv, JournalTypeOK
<1>4. /\ kernel'.pc = "clear" /\ kernel'.txn = t /\ kernel'.next = 1
      /\ kernel'.mounting = kernel.mounting
      /\ kernel' \in [pc : Pcs, mounting : BOOLEAN, txn : Headers, next : Slots]
  BY <1>1, <1>2, <1>3 DEF Pcs
<1>5. JInv'
  <2>1. JournalTypeOK' /\ MountNeverRefused'
    BY <1>1, <1>3, <1>4 DEF JournalTypeOK, MountNeverRefused
  <2>2. Written(Len(kernel.txn))'
    BY <1>1, <1>2, <1>4 DEF Written
  <2>3. Placed(Len(kernel.txn))'
    BY <1>1, <1>2, <1>4 DEF Placed
  <2>4. IsApplying'
    BY <2>2, <2>3, <1>1, <1>2, <1>4 DEF IsApplying
  <2> QED
    BY <2>1, <2>4, <1>4
       DEF JInv, Phases, AtRest, IsRecording, Recording, IsPublishing
<1>6. UNCHANGED <<Survives, Status, Pending>>
  BY <1>1, <1>2, <1>4, <1>5, ApplyingUnseen DEF Applying
<1> QED
  BY <1>5, <1>6 DEF StoreStep

\* The journal is cleared in the cache.
LEMMA ClearHeaderSound ==
  ASSUME JInv, ClearHeader
  PROVE  JInv' /\ StoreStep
<1> DEFINE t == kernel.txn
<1>1. /\ kernel.pc = "clear" /\ platter' = platter
      /\ cache' = [cache EXCEPT !.header = Cleared]
      /\ kernel' = [kernel EXCEPT !.pc = "flush clear"]
  BY DEF ClearHeader
<1>2. /\ t \in Transactions /\ kernel.next = 1 /\ cache = platter /\ platter.header = t
      /\ Written(Len(t)) /\ Placed(Len(t))
  BY <1>1 DEF JInv, Phases, IsApplying, Applying
<1>3. /\ cache \in Image /\ platter \in Image
      /\ kernel \in [pc : Pcs, mounting : BOOLEAN, txn : Headers, next : Slots]
  BY DEF JInv, JournalTypeOK
<1>4. /\ kernel'.pc = "flush clear" /\ kernel'.txn = t /\ kernel'.next = 1
      /\ kernel'.mounting = kernel.mounting
      /\ kernel' \in [pc : Pcs, mounting : BOOLEAN, txn : Headers, next : Slots]
  BY <1>1, <1>2, <1>3 DEF Pcs
<1>5. /\ cache'.header = Cleared /\ cache'.payload = cache.payload
      /\ cache'.homes = cache.homes /\ cache' \in Image
  BY <1>1, <1>3 DEF Image, Headers
<1>6. JInv'
  <2>1. JournalTypeOK' /\ MountNeverRefused'
    BY <1>1, <1>3, <1>4, <1>5 DEF JournalTypeOK, MountNeverRefused
  <2>2. Written(Len(kernel.txn))'
    BY <1>5, <1>2, <1>4 DEF Written
  <2>3. Placed(Len(kernel.txn))'
    BY <1>5, <1>2, <1>4 DEF Placed
  <2>4. IsApplying'
    BY <2>2, <2>3, <1>1, <1>2, <1>4, <1>5 DEF IsApplying
  <2> QED
    BY <2>1, <2>4, <1>4
       DEF JInv, Phases, AtRest, IsRecording, Recording, IsPublishing
<1>7. UNCHANGED <<Survives, Status, Pending>>
  BY <1>1, <1>2, <1>4, <1>6, ApplyingUnseen DEF Applying
<1> QED
  BY <1>6, <1>7 DEF StoreStep

\* The commit, or the replay, is over.
LEMMA FlushClearSound ==
  ASSUME JInv, FlushClear
  PROVE  JInv' /\ StoreStep
<1>1. /\ kernel.pc = "flush clear" /\ cache' = cache /\ platter' = cache /\ kernel' = Mounted
  BY DEF FlushClear
<1>2. /\ kernel.txn \in Transactions /\ cache.header = Cleared
      /\ cache.homes = platter.homes /\ Placed(Len(kernel.txn))
  BY <1>1 DEF JInv, Phases, IsApplying, Applying
<1>3. cache \in Image /\ platter \in Image
  BY DEF JInv, JournalTypeOK
<1>4. /\ kernel'.pc = "mounted" /\ kernel'.txn = <<>> /\ kernel'.next = 1 /\ ~kernel'.mounting
      /\ kernel' \in [pc : Pcs, mounting : BOOLEAN, txn : Headers, next : Slots]
  BY <1>1, KernelAtRest
<1>5. JInv'
  <2>1. JournalTypeOK' /\ MountNeverRefused'
    BY <1>1, <1>3, <1>4 DEF JournalTypeOK, MountNeverRefused
  <2>2. AtRest'
    BY <1>1, <1>2, <1>4 DEF AtRest
  <2> QED
    BY <2>1, <2>2, <1>4
       DEF JInv, Phases, IsRecording, Recording, IsPublishing, IsApplying, Applying
<1>6. Survives = platter.homes
  <2>1. \A i \in 1 .. Len(kernel.txn) :
          platter.homes[kernel.txn[i].target] = kernel.txn[i].data
    BY <1>2 DEF Placed
  <2>2. Redone(platter, kernel.txn) = platter.homes
    BY <2>1, <1>2, <1>3, RedoneInPlace
  <2> QED
    BY <2>2, <1>1, ApplyingSurvives DEF Applying
<1>7. Survives' = cache.homes
  <2>1. Redone(cache, cache.header) = cache.homes
    BY <1>2, <1>3, ClearedIs
  <2>2. platter' = cache
    BY <1>1
  <2> QED
    BY <2>1, <2>2 DEF Survives
<1>8. /\ Status = IF kernel.mounting THEN "down" ELSE "applied"
      /\ Pending = IF kernel.mounting THEN <<>> ELSE kernel.txn
  BY <1>1, ApplyingView DEF Applying
<1>9. Status' = "idle"
  BY <1>4 DEF Status, Unrecorded
<1>10. Pending' = <<>>
  BY <1>9 DEF Pending
<1>11. CASE kernel.mounting
  <2>1. Promise!Restart
    BY <1>2, <1>6, <1>7, <1>8, <1>9, <1>10, <1>11 DEF Promise!Restart
  <2> QED
    BY <2>1, <1>5 DEF StoreStep, Promise!StoreNext
<1>12. CASE ~kernel.mounting
  <2>1. Promise!Finish
    BY <1>2, <1>6, <1>7, <1>8, <1>9, <1>10, <1>12 DEF Promise!Finish
  <2> QED
    BY <2>1, <1>5 DEF StoreStep, Promise!StoreNext
<1> QED
  BY <1>11, <1>12

\* A mount finds a cleared journal or a record that is whole.
LEMMA MountSound ==
  ASSUME JInv, Mount
  PROVE  JInv' /\ StoreStep
<1>1. kernel.pc = "down" /\ cache' = cache /\ platter' = platter
  BY DEF Mount
<1>2. /\ kernel.txn = <<>> /\ kernel.next = 1 /\ ~kernel.mounting /\ cache = platter
      /\ Intact(cache)
  BY <1>1 DEF JInv, Phases, AtRest
<1>3. /\ cache \in Image /\ platter \in Image
      /\ kernel \in [pc : Pcs, mounting : BOOLEAN, txn : Headers, next : Slots]
  BY DEF JInv, JournalTypeOK
<1>4. Status = "down" /\ Pending = <<>>
  BY <1>1, RestView
<1>5. Survives' = Survives
  BY <1>1 DEF Survives
<1>6. CASE cache.header = Cleared /\ kernel' = Mounted
  <2>1. /\ kernel'.pc = "mounted" /\ kernel'.txn = <<>> /\ kernel'.next = 1 /\ ~kernel'.mounting
        /\ kernel' \in [pc : Pcs, mounting : BOOLEAN, txn : Headers, next : Slots]
    BY <1>6, KernelAtRest
  <2>2. JInv'
    <3>1. JournalTypeOK' /\ MountNeverRefused'
      BY <1>1, <1>3, <2>1 DEF JournalTypeOK, MountNeverRefused
    <3>2. AtRest'
      BY <1>1, <1>2, <1>6, <2>1 DEF AtRest
    <3> QED
      BY <3>1, <3>2, <2>1
         DEF JInv, Phases, IsRecording, Recording, IsPublishing, IsApplying, Applying
  <2>3. Status' = "idle"
    BY <2>1 DEF Status, Unrecorded
  <2>4. Pending' = <<>>
    BY <2>3 DEF Pending
  <2>5. Promise!Restart
    BY <2>3, <2>4, <1>4, <1>5 DEF Promise!Restart
  <2> QED
    BY <2>2, <2>5 DEF StoreStep, Promise!StoreNext
<1>7. CASE cache.header # Cleared /\ kernel' = Replay
  <2> DEFINE t == cache.header
  <2>1. t \in Transactions /\ Journaled(cache) = t
    BY <1>2, <1>3, <1>7 DEF Image, Headers, Intact
  <2>2. kernel' = [kernel EXCEPT !.pc = "targets", !.mounting = TRUE, !.txn = t]
    BY <1>7, <2>1 DEF Replay
  <2>3. /\ kernel'.pc = "targets" /\ kernel'.txn = t /\ kernel'.next = 1 /\ kernel'.mounting
        /\ kernel' \in [pc : Pcs, mounting : BOOLEAN, txn : Headers, next : Slots]
    BY <2>1, <2>2, <1>2, <1>3 DEF Pcs, Headers
  <2>4. Len(t) \in Nat /\ Len(t) >= 1 /\ DOMAIN t = 1 .. Len(t) /\ t \in Seq(Entry)
    BY <2>1, TransactionFacts, JournalAssumption DEF Slots
  <2>5. \A i \in 1 .. Len(t) : cache.payload[i] = t[i].data
    <3>1. SUFFICES ASSUME NEW i \in 1 .. Len(t) PROVE cache.payload[i] = t[i].data
      OBVIOUS
    <3>2. t[i] = [t[i] EXCEPT !.data = cache.payload[i]]
      BY <2>1, <2>4 DEF Journaled
    <3>3. t[i] \in Entry
      BY <2>4
    <3> QED
      BY <3>2, <3>3 DEF Entry
  <2>6. JInv'
    <3>1. JournalTypeOK' /\ MountNeverRefused'
      BY <1>1, <1>3, <2>3 DEF JournalTypeOK, MountNeverRefused
    <3>2. Written(Len(kernel.txn))'
      BY <1>1, <2>3, <2>5 DEF Written
    <3>3. Placed(kernel.next - 1)'
      BY <2>3 DEF Placed
    <3>4. IsApplying'
      BY <3>2, <3>3, <1>1, <1>2, <2>1, <2>3, <2>4 DEF IsApplying
    <3> QED
      BY <3>1, <3>4, <2>3
         DEF JInv, Phases, AtRest, IsRecording, Recording, IsPublishing
  <2>7. Status' = "down"
    BY <2>3 DEF Status, Unrecorded
  <2>8. Pending' = <<>>
    BY <2>7 DEF Pending
  <2> QED
    BY <1>4, <1>5, <2>6, <2>7, <2>8 DEF StoreStep
<1>8. CASE cache.header # Cleared /\ ~Intact(cache)
  BY <1>2, <1>8
<1> QED
  BY <1>6, <1>7, <1>8 DEF Mount

\* A sector written back gives the platter that sector of the cache.
LEMMA WriteBackIs ==
  ASSUME JInv, WriteBack
  PROVE  /\ platter' \in Image
         /\ platter'.header \in {platter.header, cache.header}
         /\ \A h \in Homes : platter'.homes[h] \in {platter.homes[h], cache.homes[h]}
         /\ cache.payload = platter.payload => platter'.payload = platter.payload
         /\ cache.homes = platter.homes => platter'.homes = platter.homes
         /\ cache = platter => platter' = platter
<1>1. cache \in Image /\ platter \in Image
  BY DEF JInv, JournalTypeOK
<1>2. CASE platter' = [platter EXCEPT !.header = cache.header]
  BY <1>1, <1>2 DEF Image
<1>3. CASE \E i \in Slots : platter' = [platter EXCEPT !.payload[i] = cache.payload[i]]
  <2>1. PICK i \in Slots : platter' = [platter EXCEPT !.payload[i] = cache.payload[i]]
    BY <1>3
  <2> QED
    BY <2>1, <1>1 DEF Image
<1>4. CASE \E h \in Homes : platter' = [platter EXCEPT !.homes[h] = cache.homes[h]]
  <2>1. PICK h \in Homes : platter' = [platter EXCEPT !.homes[h] = cache.homes[h]]
    BY <1>4
  <2> QED
    BY <2>1, <1>1 DEF Image
<1> QED
  BY <1>2, <1>3, <1>4 DEF WriteBack

\* The device writes back a sector by itself: the transaction appears in the store
\* when this is its record, and nothing else shows.
LEMMA WriteBackSound ==
  ASSUME JInv, WriteBack
  PROVE  JInv' /\ StoreStep
<1> DEFINE t == kernel.txn
<1>1. cache' = cache /\ kernel' = kernel
  BY DEF WriteBack
<1>2. cache \in Image /\ platter \in Image /\ platter' \in Image
  BY WriteBackIs DEF JInv, JournalTypeOK
<1>3. JournalTypeOK' /\ MountNeverRefused'
  BY <1>1, <1>2 DEF JInv, JournalTypeOK, MountNeverRefused
<1>4. Written(Len(t))' = Written(Len(t)) /\ Placed(Len(t))' = Placed(Len(t))
  BY <1>1 DEF Written, Placed
<1>5. CASE kernel.pc \in {"down", "mounted"}
  <2>1. cache = platter
    BY <1>5 DEF JInv, Phases, AtRest
  <2>2. platter' = platter
    BY <2>1, WriteBackIs
  <2>3. UNCHANGED vars
    BY <1>1, <2>2 DEF vars
  <2> QED
    BY <2>3 DEF vars, JInv, JournalTypeOK, MountNeverRefused, Phases, AtRest, IsRecording,
       IsPublishing, IsApplying, Written, Placed, Covers, Intact, Journaled, StoreStep,
       Survives, Redone, Status, Pending, Unrecorded
<1>6. CASE kernel.pc \in Recording
  <2>1. /\ cache.header = Cleared /\ platter.header = Cleared /\ cache.homes = platter.homes
        /\ kernel.pc = "header" => cache = platter
    BY <1>6 DEF JInv, Phases, IsRecording
  <2>2. /\ platter'.header = Cleared /\ platter'.homes = platter.homes
        /\ kernel.pc = "header" => platter' = platter
    BY <2>1, WriteBackIs
  <2>3. Written(kernel.next - 1)' = Written(kernel.next - 1)
    BY <1>1 DEF Written
  <2>4. IsRecording'
    BY <1>1, <1>4, <1>6, <2>1, <2>2, <2>3 DEF JInv, Phases, IsRecording
  <2>5. JInv'
    BY <1>1, <1>3, <1>6, <2>4
       DEF JInv, Phases, AtRest, IsPublishing, IsApplying, Recording, Applying
  <2>6. Survives' = Survives
    <3>1. Redone(platter', platter'.header) = platter'.homes
      BY <1>2, <2>2, ClearedIs
    <3>2. Survives = platter.homes
      BY <1>6, RecordingView
    <3> QED
      BY <3>1, <3>2, <2>2 DEF Survives
  <2>7. Status' = Status
    BY <1>1, <2>1, <2>2 DEF Status, Unrecorded
  <2>8. Pending' = Pending
    BY <1>1, <2>7 DEF Pending
  <2> QED
    BY <2>5, <2>6, <2>7, <2>8 DEF StoreStep
<1>7. CASE kernel.pc = "flush header"
  <2>1. /\ t \in Transactions /\ ~kernel.mounting /\ kernel.next = 1
        /\ cache.header = t /\ platter.header \in {Cleared, t}
        /\ cache.homes = platter.homes /\ cache.payload = platter.payload /\ Written(Len(t))
    BY <1>7 DEF JInv, Phases, IsPublishing
  <2>2. /\ platter'.header \in {platter.header, t} /\ platter'.homes = platter.homes
        /\ platter'.payload = platter.payload
    BY <2>1, WriteBackIs
  <2>3. IsPublishing'
    BY <1>1, <1>4, <2>1, <2>2 DEF IsPublishing
  <2>4. JInv'
    BY <1>1, <1>3, <1>7, <2>3
       DEF JInv, Phases, AtRest, IsRecording, IsApplying, Recording, Applying
  <2>5. /\ Status = IF platter.header = Cleared THEN "waiting" ELSE "applied"
        /\ Pending = t
    BY <1>7, PublishingView
  <2>6. CASE platter'.header = platter.header
    <3>1. Survives' = Survives
      BY <2>2, <2>6 DEF Survives, Redone
    <3>2. Status' = Status
      BY <1>1, <2>6 DEF Status, Unrecorded
    <3>3. Pending' = Pending
      BY <1>1, <3>2 DEF Pending
    <3> QED
      BY <2>4, <3>1, <3>2, <3>3 DEF StoreStep
  <2>7. CASE platter'.header # platter.header
    <3>1. platter.header = Cleared /\ platter'.header = t /\ t # Cleared
      BY <2>1, <2>2, <2>7, TransactionFacts
    <3>2. Survives = platter.homes
      BY <3>1, <1>2, ClearedIs DEF Survives
    <3>3. Survives' = Promise!Applied(Survives, t)
      <4>1. Survives' = Redone(platter', t)
        BY <3>1 DEF Survives
      <4>2. Redone(platter', t) = Redone(platter, t)
        BY <2>2, RedoneAgrees
      <4> QED
        BY <4>1, <4>2, <3>2, AppliedIsRedone
    <3>4. Status' = "applied"
      BY <1>1, <1>7, <2>1, <3>1 DEF Status, Unrecorded
    <3>5. Pending' = t
      BY <1>1, <3>4 DEF Pending
    <3>6. Promise!Apply
      BY <2>5, <3>1, <3>3, <3>4, <3>5 DEF Promise!Apply
    <3> QED
      BY <2>4, <3>6 DEF StoreStep, Promise!StoreNext
  <2> QED
    BY <2>6, <2>7
<1>8. CASE kernel.pc \in Applying
  <2>1. /\ t \in Transactions
        /\ cache.payload = platter.payload /\ Written(Len(t))
        /\ \A h \in Homes : ~Covers(t, h) => cache.homes[h] = platter.homes[h]
        /\ kernel.pc # "flush clear" => cache.header = t /\ platter.header = t
        /\ kernel.pc \in {"clear", "flush clear"} => cache.homes = platter.homes
        /\ kernel.pc = "clear" => cache = platter
        /\ kernel.pc = "flush clear" =>
             cache.header = Cleared /\ platter.header \in {Cleared, t}
    BY <1>8 DEF JInv, Phases, IsApplying
  <2>2. /\ platter'.payload = platter.payload
        /\ \A h \in Homes : ~Covers(t, h) => platter'.homes[h] = platter.homes[h]
        /\ kernel.pc # "flush clear" => platter'.header = t
        /\ kernel.pc \in {"clear", "flush clear"} => platter'.homes = platter.homes
        /\ kernel.pc = "clear" => platter' = platter
        /\ kernel.pc = "flush clear" => platter'.header \in {Cleared, t}
    BY <2>1, WriteBackIs
  <2>3. Placed(kernel.next - 1)' = Placed(kernel.next - 1)
    BY <1>1 DEF Placed
  <2>4. \A h \in Homes : ~Covers(t, h) => cache.homes[h] = platter'.homes[h]
    BY <2>1, <2>2
  <2>5. (\A h \in Homes : ~Covers(kernel.txn, h) => cache.homes[h] = platter.homes[h])'
    BY <1>1, <2>4 DEF Covers
  <2>6. /\ kernel.pc = "targets" => kernel.next <= Len(t) /\ Placed(kernel.next - 1)
        /\ kernel.pc # "targets" => kernel.next = 1 /\ Placed(Len(t))
    BY <1>8 DEF JInv, Phases, IsApplying
  <2>7. IsApplying'
    BY <1>1, <1>4, <2>1, <2>2, <2>3, <2>5, <2>6 DEF IsApplying
  <2>8. JInv'
    BY <1>1, <1>3, <1>8, <2>7
       DEF JInv, Phases, AtRest, IsRecording, IsPublishing, Recording, Applying
  <2>9. UNCHANGED <<Survives, Status, Pending>>
    BY <1>1, <1>8, <2>2, <2>8, ApplyingUnseen
  <2> QED
    BY <2>8, <2>9 DEF StoreStep
<1>9. kernel.pc \in {"down", "mounted", "flush header"} \cup Recording \cup Applying
  BY DEF JInv, JournalTypeOK, MountNeverRefused, Pcs, Recording, Applying
<1> QED
  BY <1>5, <1>6, <1>7, <1>8, <1>9

\* The power fails: what the platter holds is a cleared journal or a record that is
\* whole, and a mount would find the store.
LEMMA PowerFailsSound ==
  ASSUME JInv, PowerFails
  PROVE  JInv' /\ StoreStep
<1> DEFINE t == kernel.txn
<1>1. cache' = platter /\ platter' = platter /\ kernel' = Down
  BY DEF PowerFails
<1>2. platter \in Image
  BY DEF JInv, JournalTypeOK
<1>3. /\ kernel'.pc = "down" /\ kernel'.txn = <<>> /\ kernel'.next = 1 /\ ~kernel'.mounting
      /\ kernel' \in [pc : Pcs, mounting : BOOLEAN, txn : Headers, next : Slots]
  BY <1>1, KernelAtRest
<1>4. Intact(platter)
  <2>1. CASE platter.header = Cleared
    BY <2>1, <1>2, ClearedIs
  <2>2. CASE platter.header # Cleared /\ kernel.pc \in {"flush header"} \cup Applying
    <3>1. platter.header = t /\ t \in Transactions
          /\ cache.payload = platter.payload /\ Written(Len(t))
      BY <2>2 DEF JInv, Phases, IsPublishing, IsApplying
    <3>2. \A i \in 1 .. Len(t) : platter.payload[i] = t[i].data
      BY <3>1 DEF Written
    <3> QED
      BY <3>1, <3>2, IntactIs
  <2>3. CASE platter.header # Cleared /\ kernel.pc \notin {"flush header"} \cup Applying
    <3>1. kernel.pc \in {"down", "mounted"} \cup Recording
      BY <2>3 DEF JInv, JournalTypeOK, MountNeverRefused, Pcs, Recording, Applying
    <3>2. kernel.pc = "down"
      BY <2>3, <3>1 DEF JInv, Phases, AtRest, IsRecording
    <3> QED
      BY <3>2 DEF JInv, Phases, AtRest
  <2> QED
    BY <2>1, <2>2, <2>3
<1>5. JInv'
  <2>1. JournalTypeOK' /\ MountNeverRefused'
    BY <1>1, <1>2, <1>3 DEF JournalTypeOK, MountNeverRefused
  <2>2. Intact(platter)'
    BY <1>1, <1>4 DEF Intact, Journaled
  <2>3. AtRest'
    BY <1>1, <1>3, <2>2 DEF AtRest
  <2> QED
    BY <1>3, <2>1, <2>3
       DEF JInv, Phases, IsRecording, IsPublishing, IsApplying, Recording, Applying
<1>6. Survives' = Survives
  BY <1>1 DEF Survives, Redone
<1>7. Status' = "down"
  BY <1>3 DEF Status, Unrecorded
<1>8. Pending' = <<>>
  BY <1>7 DEF Pending
<1>9. Promise!PowerLoss
  BY <1>6, <1>7, <1>8 DEF Promise!PowerLoss
<1> QED
  BY <1>5, <1>9 DEF StoreStep, Promise!StoreNext

\* The formatted device is an empty store.
LEMMA InitSound ==
  ASSUME Init
  PROVE  JInv /\ Promise!StoreInit
<1>1. cache = Formatted /\ platter = Formatted /\ kernel = Mounted
  BY DEF Init
<1>2. /\ kernel.pc = "mounted" /\ kernel.txn = <<>> /\ kernel.next = 1 /\ ~kernel.mounting
      /\ kernel \in [pc : Pcs, mounting : BOOLEAN, txn : Headers, next : Slots]
  BY <1>1, KernelAtRest
<1>3. /\ Formatted \in Image /\ Formatted.header = Cleared
      /\ Formatted.homes = [h \in Homes |-> Blank]
  BY JournalAssumption DEF Formatted, Image, Headers
<1>4. JInv
  <2>1. JournalTypeOK /\ MountNeverRefused
    BY <1>1, <1>2, <1>3 DEF JournalTypeOK, MountNeverRefused
  <2> QED
    BY <1>1, <1>2, <1>3, <2>1
       DEF JInv, Phases, AtRest, IsRecording, IsPublishing, IsApplying, Recording, Applying
<1>5. Survives = [h \in Homes |-> Blank]
  BY <1>1, <1>3, ClearedIs DEF Survives
<1>6. Status = "idle" /\ Pending = <<>>
  BY <1>2, <1>4, RestView
<1> QED
  BY <1>4, <1>5, <1>6 DEF Promise!StoreInit

\* Every step keeps the invariant and is a step of the store or none.
LEMMA NextSound ==
  ASSUME JInv, [Next]_vars
  PROVE  JInv' /\ StoreStep
<1>1. CASE UNCHANGED vars
  BY <1>1 DEF vars, JInv, JournalTypeOK, MountNeverRefused, Phases, AtRest, IsRecording,
     IsPublishing, IsApplying, Written, Placed, Covers, Intact, Journaled, StoreStep,
     Survives, Redone, Status, Pending, Unrecorded
<1> QED
  BY <1>1, CommitSound, WritePayloadSound, FlushPayloadSound, WriteHeaderSound,
     FlushHeaderSound, WriteTargetSound, FlushTargetsSound, ClearHeaderSound,
     FlushClearSound, MountSound, WriteBackSound, PowerFailsSound DEF Next

\* A record leaves the platter in its own place only: when the journal has been
\* cleared, which is after the targets are there.
RecordReplayed ==
  platter'.header # platter.header =>
    \A i \in DOMAIN platter.header :
      platter.homes[platter.header[i].target] = platter.header[i].data

LEMMA RecordStep ==
  ASSUME JInv, [Next]_vars
  PROVE  RecordReplayed
<1> DEFINE t == kernel.txn
<1>1. SUFFICES ASSUME platter'.header # platter.header
               PROVE  \A i \in DOMAIN platter.header :
                        platter.homes[platter.header[i].target] = platter.header[i].data
  BY DEF RecordReplayed
<1>2. CASE platter.header = Cleared
  BY <1>2 DEF Cleared
<1>3. CASE platter.header # Cleared
  <2>1. platter'.header = cache.header
    <3>1. platter' = cache \/ WriteBack
      BY <1>1 DEF Next, vars, Commit, WritePayload, FlushPayload, WriteHeader, FlushHeader,
         WriteTarget, FlushTargets, ClearHeader, FlushClear, Mount, PowerFails
    <3> QED
      BY <3>1, <1>1, WriteBackIs
  <2>2. cache.header # platter.header
    BY <1>1, <2>1
  <2>3. kernel.pc = "flush clear"
    <3>1. kernel.pc \notin {"down", "mounted"}
      BY <2>2 DEF JInv, Phases, AtRest
    <3>2. kernel.pc \notin Recording
      BY <1>3 DEF JInv, Phases, IsRecording
    <3>3. kernel.pc # "flush header"
      BY <1>3, <2>2 DEF JInv, Phases, IsPublishing
    <3>4. kernel.pc \in Applying
      BY <3>1, <3>2, <3>3
         DEF JInv, JournalTypeOK, MountNeverRefused, Pcs, Recording, Applying
    <3> QED
      BY <3>4, <2>2 DEF JInv, Phases, IsApplying
  <2>4. /\ t \in Transactions /\ platter.header = t
        /\ cache.homes = platter.homes /\ Placed(Len(t))
    BY <1>3, <2>3 DEF JInv, Phases, IsApplying, Applying
  <2> QED
    BY <2>4, TransactionFacts DEF Placed
<1> QED
  BY <1>2, <1>3

-----------------------------------------------------------------------------
(* The theorems.                                                           *)

\* The phases of a commit and of a replay hold at every moment.
LEMMA Invariance == Spec => []JInv
<1>1. Init => JInv
  BY InitSound
<1>2. JInv /\ [Next]_vars => JInv'
  BY NextSound
<1> QED
  BY <1>1, <1>2, PTL DEF Spec

\* Type correctness: the index into the transaction stays within the journal
\* (dfs.rs, commit_transaction and replay_journal).
THEOREM JournalAlwaysTyped == Spec => []JournalTypeOK
<1>1. JInv => JournalTypeOK
  BY DEF JInv
<1> QED
  BY <1>1, Invariance, PTL

\* replay_journal never returns CorruptMetadata for a record this kernel wrote, at
\* whatever sector of a commit or of an earlier replay the power failed.
THEOREM MountNeverRefuses == Spec => []MountNeverRefused
<1>1. JInv => MountNeverRefused
  BY DEF JInv
<1> QED
  BY <1>1, Invariance, PTL

\* Whenever no commit or mount is under way, the kernel reads the metadata a mount
\* after a power failure would find.
THEOREM MountedAlwaysSees == Spec => []MountedSeesTheStore
<1>1. JInv => MountedSeesTheStore
  <2>1. SUFFICES ASSUME JInv, kernel.pc = "mounted" PROVE cache.homes = Survives
    BY DEF MountedSeesTheStore
  <2>2. cache = platter /\ platter.header = Cleared /\ platter \in Image
    BY <2>1 DEF JInv, JournalTypeOK, Phases, AtRest
  <2> QED
    BY <2>2, ClearedIs DEF Survives
<1> QED
  BY <1>1, Invariance, PTL

\* commit_transaction and replay_journal clear a record only when every sector it
\* names has reached the platter.
THEOREM RecordsAlwaysReplayed == Spec => CommittedIsReplayed
<1>1. JInv /\ [Next]_vars =>
        [platter'.header # platter.header =>
           \A i \in DOMAIN platter.header :
             platter.homes[platter.header[i].target] = platter.header[i].data]_vars
  BY RecordStep DEF RecordReplayed
<1> QED
  BY <1>1, Invariance, PTL DEF Spec, CommittedIsReplayed

\* The journal implements the atomic store: a transaction is there as a whole from
\* the moment its record reaches the platter, and not at all before.
THEOREM JournalImplementsStore == Spec => CommitIsAtomic
<1>1. Init => Promise!StoreInit
  BY InitSound
<1>2. JInv /\ [Next]_vars => [Promise!StoreNext]_(Promise!storeVars)
  BY NextSound DEF StoreStep, Promise!storeVars
<1> QED
  BY <1>1, <1>2, Invariance, PTL DEF Spec, CommitIsAtomic, Promise!StoreSpec
=============================================================================
