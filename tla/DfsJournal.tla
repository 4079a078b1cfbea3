----------------------------- MODULE DfsJournal -----------------------------
(***************************************************************************)
(* The redo journal of DFS, kernel/src/fs/dfs.rs, over a device with a     *)
(* write cache: commit_transaction and replay_journal sector by sector,    *)
(* with a power failure between any two of them.  A written sector is in   *)
(* the cache; the device may bring it to the platter at any moment and     *)
(* brings all of them when it is flushed.                                  *)
(*                                                                         *)
(* The device never reports an error here; DfsJournalClaims adds that.     *)
(* A sector is written whole or not at all, and a checksum matches only    *)
(* the targets and data it was computed from: both are what the journal    *)
(* presumes (documentation/status.md:62).                                  *)
(***************************************************************************)
EXTENDS Naturals, Sequences

CONSTANTS
  Homes,               \* the sectors outside the journal that transactions write
  Datum,               \* contents of a sector
  Blank,               \* the sector format leaves
  TransactionSectors   \* TRANSACTION_SECTORS, payload sectors of the journal

ASSUME JournalAssumption ==
  TransactionSectors \in Nat \ {0} /\ Blank \in Datum

VARIABLES
  cache,      \* the sectors as read_sector gives them
  platter,    \* the sectors as a power failure leaves them
  kernel      \* what the kernel is at: pc, the transaction and the next of its sectors

vars == <<cache, platter, kernel>>

Slots == 1 .. TransactionSectors
Entry == [target : Homes, data : Datum]

\* Targets are distinct: Transaction::add would merge them, and no caller of
\* commit has two.
Transactions ==
  {t \in UNION {[1 .. n -> Entry] : n \in Slots} :
     \A i, j \in DOMAIN t : t[i].target = t[j].target => i = j}

\* The journal's first sector: cleared, or a committed record, whose targets and
\* checksum are those of the transaction it names.
Cleared == <<>>
Headers == {Cleared} \cup Transactions

Image == [header : Headers, payload : [Slots -> Datum], homes : [Homes -> Datum]]

Formatted ==
  [header |-> Cleared, payload |-> [i \in Slots |-> Blank], homes |-> [h \in Homes |-> Blank]]

-----------------------------------------------------------------------------
(* The device.                                                             *)

\* The device writes a sector of its cache back.
WriteBack ==
  /\ \/ platter' = [platter EXCEPT !.header = cache.header]
     \/ \E i \in Slots : platter' = [platter EXCEPT !.payload[i] = cache.payload[i]]
     \/ \E h \in Homes : platter' = [platter EXCEPT !.homes[h] = cache.homes[h]]
  /\ UNCHANGED <<cache, kernel>>

Down == [pc |-> "down", mounting |-> FALSE, txn |-> <<>>, next |-> 1]
Mounted == [Down EXCEPT !.pc = "mounted"]

PowerFails ==
  /\ cache' = platter /\ kernel' = Down
  /\ UNCHANGED platter

-----------------------------------------------------------------------------
(* commit_transaction, and the end of replay_journal, which is the same.   *)

\* The next sector of the transaction, or the flush that follows the last one.
\* Mutants: the record is written before the payload is flushed; the journal is cleared before the
\* targets are flushed.
AdvanceUnflushed(flush) ==
  IF kernel.next < Len(kernel.txn)
  THEN [kernel EXCEPT !.next = @ + 1]
  ELSE [kernel EXCEPT !.next = 1, !.pc = IF flush = "flush payload" THEN "header" ELSE flush]
AdvanceUnapplied(flush) ==
  IF kernel.next < Len(kernel.txn)
  THEN [kernel EXCEPT !.next = @ + 1]
  ELSE [kernel EXCEPT !.next = 1, !.pc = IF flush = "flush targets" THEN "clear" ELSE flush]
Advance(flush) ==
  IF kernel.next < Len(kernel.txn)
  THEN [kernel EXCEPT !.next = @ + 1]
  ELSE [kernel EXCEPT !.next = 1, !.pc = flush]

Commit ==
  /\ kernel.pc = "mounted"
  /\ \E t \in Transactions : kernel' = [kernel EXCEPT !.pc = "payload", !.txn = t]
  /\ UNCHANGED <<cache, platter>>

WritePayload ==
  /\ kernel.pc = "payload"
  /\ cache' = [cache EXCEPT !.payload[kernel.next] = kernel.txn[kernel.next].data]
  /\ kernel' = Advance("flush payload")
  /\ UNCHANGED platter

\* The commit record.
WriteHeader ==
  /\ kernel.pc = "header"
  /\ cache' = [cache EXCEPT !.header = kernel.txn]
  /\ kernel' = [kernel EXCEPT !.pc = "flush header"]
  /\ UNCHANGED platter

WriteTarget ==
  /\ kernel.pc = "targets"
  /\ LET entry == kernel.txn[kernel.next]
     IN cache' = [cache EXCEPT !.homes[entry.target] = entry.data]
  /\ kernel' = Advance("flush targets")
  /\ UNCHANGED platter

ClearHeader ==
  /\ kernel.pc = "clear"
  /\ cache' = [cache EXCEPT !.header = Cleared]
  /\ kernel' = [kernel EXCEPT !.pc = "flush clear"]
  /\ UNCHANGED platter

FlushPayload ==
  /\ kernel.pc = "flush payload"
  /\ platter' = cache /\ kernel' = [kernel EXCEPT !.pc = "header"]
  /\ UNCHANGED cache

FlushHeader ==
  /\ kernel.pc = "flush header"
  /\ platter' = cache /\ kernel' = [kernel EXCEPT !.pc = "targets"]
  /\ UNCHANGED cache

FlushTargets ==
  /\ kernel.pc = "flush targets"
  /\ platter' = cache /\ kernel' = [kernel EXCEPT !.pc = "clear"]
  /\ UNCHANGED cache

FlushClear ==
  /\ kernel.pc = "flush clear"
  /\ platter' = cache /\ kernel' = Mounted
  /\ UNCHANGED cache

-----------------------------------------------------------------------------
(* mount: replay_journal up to the first write.                            *)

\* The record's targets with the payload as it is read.
Journaled(image) ==
  [i \in DOMAIN image.header |-> [image.header[i] EXCEPT !.data = image.payload[i]]]

Intact(image) == Journaled(image) = image.header

\* Mutant: a record that was found is cleared, not replayed.
ReplayNothing ==
  [kernel EXCEPT !.pc = "clear", !.mounting = TRUE, !.txn = Journaled(cache)]
Replay == [kernel EXCEPT !.pc = "targets", !.mounting = TRUE, !.txn = Journaled(cache)]

Mount ==
  /\ kernel.pc = "down"
  /\ \/ cache.header = Cleared /\ kernel' = Mounted
     \/ cache.header # Cleared /\ Intact(cache) /\ kernel' = Replay
     \/ cache.header # Cleared /\ ~Intact(cache) /\ kernel' = [kernel EXCEPT !.pc = "refused"]
  /\ UNCHANGED <<cache, platter>>

-----------------------------------------------------------------------------
Init ==
  /\ cache = Formatted /\ platter = Formatted
  /\ kernel = Mounted

Next ==
  \/ Commit \/ WritePayload \/ FlushPayload \/ WriteHeader \/ FlushHeader
  \/ WriteTarget \/ FlushTargets \/ ClearHeader \/ FlushClear
  \/ Mount \/ WriteBack \/ PowerFails

Spec == Init /\ [][Next]_vars

-----------------------------------------------------------------------------
(* Properties.                                                             *)

Pcs == {"down", "refused", "mounted", "payload", "flush payload", "header",
        "flush header", "targets", "flush targets", "clear", "flush clear"}

JournalTypeOK ==
  /\ cache \in Image /\ platter \in Image
  /\ kernel \in [pc : Pcs, mounting : BOOLEAN, txn : Headers, next : Slots]

\* A mount never ends in CorruptMetadata: whenever the power fails, and whatever
\* the device wrote back by itself, a record on the platter has its payload there.
MountNeverRefused == kernel.pc # "refused"

\* The metadata that a mount after a power failure would find.
Covers(t, h) == \E i \in DOMAIN t : t[i].target = h
Redone(image, t) ==
  [h \in Homes |-> IF Covers(t, h)
                   THEN t[CHOOSE i \in DOMAIN t : t[i].target = h].data
                   ELSE image.homes[h]]
Survives == Redone(platter, platter.header)

\* Between two commits the kernel reads what a mount would find: neither a commit
\* nor a replay returns before its sectors are in place.
MountedSeesTheStore == kernel.pc = "mounted" => cache.homes = Survives

\* A record leaves the platter only when all that it names is there.
CommittedIsReplayed ==
  [][platter'.header # platter.header =>
       \A i \in DOMAIN platter.header :
         platter.homes[platter.header[i].target] = platter.header[i].data]_vars

\* The journal implements the atomic store: at every moment, what a mount would
\* find is the store, and it changes by the running transaction as a whole.
Unrecorded ==
  \/ kernel.pc \in {"payload", "flush payload", "header"}
  \/ kernel.pc = "flush header" /\ platter.header = Cleared
Status ==
  CASE kernel.pc = "mounted" -> "idle"
    [] kernel.pc \in {"down", "refused"} \/ kernel.mounting -> "down"
    [] Unrecorded -> "waiting"
    [] OTHER -> "applied"
Pending == IF Status \in {"waiting", "applied"} THEN kernel.txn ELSE <<>>

Promise == INSTANCE DfsStore WITH store <- Survives, status <- Status, pending <- Pending
CommitIsAtomic == Promise!StoreSpec
=============================================================================
