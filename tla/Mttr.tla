---------------------------------- MODULE Mttr ----------------------------------
(***************************************************************************)
(* gold.mttr_by_source_severity_weekly (analytics/notebooks/gold/           *)
(* mttr_by_source_severity_weekly.py): median and 90th percentile of the    *)
(* time to remediate, by week, tool and severity.  The tests exercise       *)
(* compute_mttr_rows, with statistics.median and a percentile of its own;   *)
(* the notebook runs a Spark aggregation with percentile_approx.  Hours are *)
(* whole, and a median is given doubled so that it is whole too.            *)
(***************************************************************************)
EXTENDS Suppression, Integers

CONSTANT WeekLength   \* an ISO week, in the unit of last_seen_at

ASSUME WeekAssumption == WeekLength \in Nat \ {0}

MttrHours(f) == f.last_seen_at - f.first_seen_at

\* ISO year and week of the resolution, tool and severity.
MttrGroup(f) == [week |-> f.last_seen_at \div WeekLength,
                 tool_source |-> f.tool_source, severity_canonical |-> f.severity_canonical]

\* The k-th smallest of the samples of some rows, from 1.
Sample(rows, k) ==
    CHOOSE v \in {MttrHours(f) : f \in rows} :
        /\ Cardinality({f \in rows : MttrHours(f) < v}) < k
        /\ Cardinality({f \in rows : MttrHours(f) <= v}) >= k

\* statistics.median, doubled: the middle sample twice, or the two around it.
MedianTwice(rows) ==
    LET n == Cardinality(rows)
    IN  Sample(rows, (n + 1) \div 2) + Sample(rows, n \div 2 + 1)

\* Mutant of Percentile: the index is taken of n - 1.
PercentileOfPrevious(rows) == Sample(rows, 1 + (9 * (Cardinality(rows) - 1)) \div 10)

\* _percentile(values, 0.9): index int(0.9 * n) of the sorted values, from 0,
\* held to the last one.
Percentile(rows) ==
    LET n == Cardinality(rows)
    IN  Sample(rows, IF (9 * n) \div 10 >= n THEN n ELSE (9 * n) \div 10 + 1)

\* percentile_approx(mttr_hours, p / 10), exact for groups this small: the
\* smallest sample with at least that share of the samples up to it.
PercentileApprox(rows, p) == Sample(rows, (p * Cardinality(rows) + 9) \div 10)

IsResolved(f) == f.status_canonical = "resolved"

\* compute_mttr_rows.
ComputeMttrRows(rows, table, t) ==
    LET kept == {f \in rows : ~IsRowSuppressed(f, table, t) /\ IsResolved(f)}
        Of(g) == {f \in kept : MttrGroup(f) = g}
    IN  {[group |-> g, median_twice |-> MedianTwice(Of(g)), p90 |-> Percentile(Of(g)),
          sample_size |-> Cardinality(Of(g))] : g \in {MttrGroup(f) : f \in kept}}

\* _spark_main.
SparkMttr(rows, table, t) ==
    LET kept == {f \in rows : KeptBySpark(f, table, t) /\ IsResolved(f)}
        Of(g) == {f \in kept : MttrGroup(f) = g}
    IN  {[group |-> g, median_twice |-> 2 * PercentileApprox(Of(g), 5),
          p90 |-> PercentileApprox(Of(g), 9),
          sample_size |-> Cardinality(Of(g))] : g \in {MttrGroup(f) : f \in kept}}
=============================================================================
