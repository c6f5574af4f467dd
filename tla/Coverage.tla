-------------------------------- MODULE Coverage --------------------------------
(***************************************************************************)
(* gold.coverage_matrix (analytics/notebooks/gold/coverage_matrix.py): for  *)
(* every repository and every canonical tool category, when a finding of    *)
(* that category was last seen there and whether that is too long ago.      *)
(* Suppression rules are left alone on purpose (lines 27-30).               *)
(***************************************************************************)
EXTENDS Integers

CONSTANTS
    Repositories,    \* the rows of silver.repositories
    threshold_days,  \* staleness_threshold_days
    NeverScanned     \* a NULL last_scan_at

ASSUME ThresholdAssumption == threshold_days \in Nat /\ NeverScanned \notin Int

CANONICAL_CATEGORIES == {"sast", "sca", "secrets", "scm"}

\* MAX(last_seen_at) of the findings of one cell.
LastScanAt(rows, repo, category) ==
    LET seen == {f.last_seen_at : f \in
                    {g \in rows : g.repository_id = repo /\ g.category = category}}
    IN  IF seen = {} THEN NeverScanned ELSE CHOOSE t \in seen : \A u \in seen : u <= t

\* Mutant of IsStale: a cell is stale from the threshold itself on.
IsStaleAtThreshold(last_scan_at, instant) ==
    last_scan_at = NeverScanned \/ last_scan_at <= instant - threshold_days

IsStale(last_scan_at, instant) ==
    last_scan_at = NeverScanned \/ last_scan_at < instant - threshold_days

\* One row for every repository and category, findings or none; findings of
\* other categories and repositories leave no trace.
ComputeCoverageRows(rows, instant) ==
    {LET last_scan_at == LastScanAt(rows, cell[1], cell[2])
     IN  [repository_id |-> cell[1], category |-> cell[2],
          last_scan_at |-> last_scan_at, is_stale |-> IsStale(last_scan_at, instant)] :
        cell \in Repositories \X CANONICAL_CATEGORIES}
=============================================================================
