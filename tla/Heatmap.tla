-------------------------------- MODULE Heatmap --------------------------------
(***************************************************************************)
(* gold.cwe_owasp_heatmap (analytics/notebooks/gold/cwe_owasp_heatmap.py):  *)
(* open findings for each application, OWASP Top 10 category and CWE.  The  *)
(* pure-Python compute_heatmap_rows is what the tests exercise; the         *)
(* notebook runs a Spark plan of its own, which joins and suppresses in     *)
(* SQL.  tables is the record of the rows both are given.                   *)
(***************************************************************************)
EXTENDS PostureRows

CONSTANT OwaspLists   \* the CWEs of each of the categories A01 to A10

\* The import of the notebook raises if a CWE stands in two lists.
ASSUME ListsAssumption ==
    \A a, b \in DOMAIN OwaspLists : a # b => OwaspLists[a] \intersect OwaspLists[b] = {}

UNMAPPED_OWASP_CATEGORY == "unmapped"

\* The category of a CWE; NULL and CWEs in no list fall to the sentinel.
ClassifyCwe(cwe) ==
    IF \E a \in DOMAIN OwaspLists : cwe \in OwaspLists[a]
    THEN CHOOSE a \in DOMAIN OwaspLists : cwe \in OwaspLists[a]
    ELSE UNMAPPED_OWASP_CATEGORY

Cell(pair) == [application_id |-> pair[2].application_id,
               owasp_category |-> ClassifyCwe(pair[1].cwe_id),
               cwe_id         |-> pair[1].cwe_id]

\* One row for each cell that some pair falls into.
CountByCell(pairs) ==
    {[cell |-> c, finding_count |-> Cardinality({p \in pairs : Cell(p) = c})] :
        c \in {Cell(p) : p \in pairs}}

IsOpen(pair) == pair[1].status_canonical = "open"

\* The Python helper joins and suppresses as compute_posture_rows does.
ComputeHeatmapRows(tables, t) == CountByCell({p \in Surviving(tables, t) : IsOpen(p)})

SelectedColumns == {"finding_id", "tool_source", "category", "status_canonical",
                    "cwe_id", "repository_id", "file_path", "rule_id_native"}

\* Every scope a rule may have is a column that the plan has selected.
ASSUME ScopesAssumption == CanonicalScopes \subseteq SelectedColumns \union {"application_id"}

SelectedRow(f, m) ==
    LET joined == JoinedRow(f, m)
    IN  [column \in SelectedColumns \union {"application_id"} |-> joined[column]]

\* Mutant of SparkOpen: the open-only filter is missing.
SparkOfAnyStatus(tables, t) ==
    {p \in UNION {{f} \X LinksOf(f, tables.mapping) : f \in tables.findings} :
        KeptBySpark(SelectedRow(p[1], p[2]), tables.rules, t)}

\* What the Spark plan has left before it groups.
SparkOpen(tables, t) ==
    {p \in UNION {{f} \X LinksOf(f, tables.mapping) : f \in tables.findings} :
        KeptBySpark(SelectedRow(p[1], p[2]), tables.rules, t) /\ IsOpen(p)}

SparkHeatmap(tables, t) == CountByCell(SparkOpen(tables, t))
=============================================================================
