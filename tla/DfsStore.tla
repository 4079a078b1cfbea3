------------------------------ MODULE DfsStore ------------------------------
(***************************************************************************)
(* What the journal of DFS promises (kernel/src/fs/dfs.rs): a set of       *)
(* metadata sectors that change by whole transactions.  A transaction that *)
(* was reported as done is there for good; one that a power failure cut    *)
(* off is there as a whole or not at all.                                  *)
(***************************************************************************)
EXTENDS Naturals, Sequences

CONSTANTS
  Homes,         \* the sectors outside the journal that transactions write
  Datum,         \* contents of a sector
  Blank,         \* the sector format leaves
  Transactions   \* the sequences of [target, data] a caller may commit

VARIABLES
  store,     \* the contents of the sectors
  status,    \* "idle", "waiting" or "applied" while a commit runs, "down"
  pending    \* the transaction of the running commit

storeVars == <<store, status, pending>>

\* The sectors after transaction t.
Applied(sectors, t) ==
  [h \in Homes |-> IF \E i \in DOMAIN t : t[i].target = h
                   THEN t[CHOOSE i \in DOMAIN t : t[i].target = h].data
                   ELSE sectors[h]]

StoreInit ==
  /\ store = [h \in Homes |-> Blank]
  /\ status = "idle" /\ pending = <<>>

Begin ==
  /\ status = "idle"
  /\ pending' \in Transactions /\ status' = "waiting"
  /\ UNCHANGED store

Apply ==
  /\ status = "waiting"
  /\ store' = Applied(store, pending) /\ status' = "applied"
  /\ UNCHANGED pending

Finish ==
  /\ status = "applied"
  /\ status' = "idle" /\ pending' = <<>>
  /\ UNCHANGED store

PowerLoss ==
  /\ status' = "down" /\ pending' = <<>>
  /\ UNCHANGED store

Restart ==
  /\ status = "down"
  /\ status' = "idle"
  /\ UNCHANGED <<store, pending>>

StoreNext == Begin \/ Apply \/ Finish \/ PowerLoss \/ Restart

StoreSpec == StoreInit /\ [][StoreNext]_storeVars
=============================================================================
