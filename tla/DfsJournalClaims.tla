-------------------------- MODULE DfsJournalClaims --------------------------
(***************************************************************************)
(* What storage.md says of the journal and the code does not do when the   *)
(* device reports an error.                                                *)
(***************************************************************************)
EXTENDS DfsJournal

\* A write or a flush of commit_transaction fails and the commit returns the error:
\* the file system stays mounted and the journal is left as it is.  An error of
\* replay_journal fails the mount.
IoFails ==
  /\ kernel.pc \notin {"down", "refused", "mounted", "failed"}
  /\ kernel' = IF kernel.mounting THEN [Down EXCEPT !.pc = "failed"] ELSE Mounted
  /\ UNCHANGED <<cache, platter>>

SpecWithErrors == Init /\ [][Next \/ IoFails]_vars

\* documentation/storage.md:29: "Uma transação comprometida que não tenha sido
\* totalmente aplicada é repetida no mount": a mount that finds a record can
\* repeat it, and does not end in CorruptMetadata.
CommittedIsRepeated == kernel.pc # "refused"
=============================================================================
