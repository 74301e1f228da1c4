----------------------------- MODULE Comparison -----------------------------
(****************************************************************************)
(* Phase 3 (internal/comparison/pipeline.go): the freshness guard, the two  *)
(* statements of Classify, the refresh of the view, the success stamp.      *)
(* The second statement, markAnchorSQL, reads in one step and writes in     *)
(* another.                                                                 *)
(* It runs in the goroutine of the phase 1 cycle that just succeeded.       *)
(****************************************************************************)
EXTENDS Discovery, Managed

CONSTANT Freshness   \* freshness_threshold_multiplier * managed.poll_interval

\* The epoch that stands for "never" is older than any threshold.
ASSUME ComparisonAssumption == Freshness \in Nat /\ Epoch + Freshness < 0

\* The managed catalogue is fresh when the last success is not older than the
\* threshold; the IsZero test never fires, because a NULL column reads as Epoch.
Fresh == now - phase2Success <= Freshness

\* Run without the freshness guard.
PassGuard_Unguarded(r) ==
    /\ CycleGoes(r, "guard", "classify")
    /\ UNCHANGED <<traffic, marking, tables>>

\* The guard reads the pipeline state once; no later statement reads it again.
PassGuard(r) ==
    /\ CycleGoes(r, "guard", "classify")
    /\ Fresh
    /\ UNCHANGED <<traffic, marking, tables>>

\* A stale catalogue: a deliberate skip, Run returns nil.
SkipPhase3(r) ==
    /\ CycleGoes(r, "guard", "idle")
    /\ ~Fresh
    /\ UNCHANGED <<traffic, marking, tables>>

\* now() differs between the classify statements of any two cycles.
CycleClassify(r) ==
    /\ CycleGoes(r, "classify", "anchor")
    /\ \A f \in findings : f.at < now
    /\ Classify
    /\ UNCHANGED <<traffic, marking>>

\* The subquery forgets that the row must be active.
CycleFindAnchors_Inactive(r) ==
    /\ CycleGoes(r, "anchor", "mark")
    /\ marking' = [marking EXCEPT
          ![r] = {e \in discovered : \E o \in activeOps : Matches(o, e)}]
    /\ UNCHANGED <<traffic, tables>>

\* The subquery of markAnchorSQL: the rows that were active and matched when
\* the statement began.
CycleFindAnchors(r) ==
    /\ CycleGoes(r, "anchor", "mark")
    /\ marking' = [marking EXCEPT ![r] = Matched]
    /\ UNCHANGED <<traffic, tables>>

\* Its update, which waits for whoever holds the rows it found: retention may
\* have deactivated or deleted some in between.
CycleMarkAnchors(r) ==
    /\ CycleGoes(r, "mark", "refresh")
    /\ MarkAnchors(marking[r])
    /\ marking' = [marking EXCEPT ![r] = {}]
    /\ UNCHANGED traffic

\* The last write that matters: UpdatePhase3Success stamps columns that no one
\* reads.
CycleRefreshView(r) ==
    /\ CycleGoes(r, "refresh", "idle")
    /\ RefreshView
    /\ UNCHANGED <<traffic, marking>>
=============================================================================
