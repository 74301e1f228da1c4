------------------------------ MODULE Retention ------------------------------
(****************************************************************************)
(* The daily retention job (internal/store/retention_repo.go): three        *)
(* clean-ups, four statements, then a stamp.  The first error ends the run. *)
(****************************************************************************)
EXTENDS Catalogue

VARIABLE cleaner   \* cleaner[r]: the statement the retention run of r is at

CleanerPC == {"findings", "soft", "hard", "managed"}

CleanerTypeOK == cleaner \in [Replica -> CleanerPC]
CleanerInit == cleaner = [r \in Replica |-> "findings"]

Advance(r, from, to) ==
    /\ cleaner[r] = from
    /\ cleaner' = [cleaner EXCEPT ![r] = to]

RetainClassifications(r) == Advance(r, "findings", "soft") /\ CleanupClassifications
RetainActive(r)          == Advance(r, "soft", "hard") /\ SoftDeleteDiscovered
RetainDiscovered(r)      == Advance(r, "hard", "managed") /\ HardDeleteDiscovered

\* The last write that matters: last_retention_run is a column that no one reads.
RetainManaged(r)         == Advance(r, "managed", "findings") /\ CleanupManaged

\* A statement fails: RunRetention returns without trying the others.
RetentionFails(r) ==
    /\ cleaner[r] # "findings"
    /\ cleaner' = [cleaner EXCEPT ![r] = "findings"]
    /\ UNCHANGED tables
=============================================================================
