------------------------------ MODULE FindingKeys ------------------------------
(***************************************************************************)
(* When two rows of silver.findings count as the same issue: the columns    *)
(* dedup_findings (src/platform/silver.py) collapses on, and those that     *)
(* gold.dedup_link_overlap (analytics/notebooks/gold/                       *)
(* dedup_link_overlap.py) links tools by.                                   *)
(***************************************************************************)
CONSTANT Null

\* Mutant of DedupColumns: findings without a CWE are keyed as those with one.
DedupColumnsWithoutFallback(f) ==
    CASE f.category = "sast" -> {"repository_id", "file_path", "start_line"}
      [] f.category = "dast" -> {"url", "rule_id_native"}
      [] OTHER               -> {"finding_id"}

DedupColumns(f) ==
    CASE f.category = "sast" /\ f.cwe_id # Null
             -> {"repository_id", "file_path", "start_line", "cwe_id"}
      [] f.category = "sast" /\ f.cwe_id = Null
             -> {"repository_id", "file_path", "start_line", "tool_source", "rule_id_native"}
      [] f.category = "dast" -> {"url", "rule_id_native"}
      [] OTHER               -> {"finding_id"}

\* Grouping takes NULL for equal to NULL.
DedupKey(f) == [column \in DedupColumns(f) |-> f[column]]

CATEGORY_DEDUP_KEYS ==
    [sast    |-> {"repository_id", "file_path", "start_line", "cwe_id"},
     sca     |-> {"repository_id", "cve_id"},
     secrets |-> {"repository_id", "file_path", "rule_id_native"},
     dast    |-> {"url", "rule_id_native"}]

OverlapKey(f) == [column \in CATEGORY_DEDUP_KEYS[f.category] |-> f[column]]

\* A finding links only if no column of its key is NULL, which the columns of
\* CATEGORY_REQUIRED_NONNULL are among.
Links(f) == /\ f.category \in DOMAIN CATEGORY_DEDUP_KEYS
            /\ \A column \in DOMAIN OverlapKey(f) : f[column] # Null
=============================================================================
