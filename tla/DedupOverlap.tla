------------------------------ MODULE DedupOverlap ------------------------------
(***************************************************************************)
(* Two readings of "the same issue": dedup_findings of src/platform/        *)
(* silver.py, which collapses rows that agree on a key that depends on      *)
(* their category, and gold.dedup_link_overlap (analytics/notebooks/gold/   *)
(* dedup_link_overlap.py), which counts for each pair of tools the keys     *)
(* that both have reported.                                                 *)
(***************************************************************************)
EXTENDS Suppression

INSTANCE FindingKeys

SeverityLadder == [critical |-> 4, high |-> 3, medium |-> 2, low |-> 1, info |-> 0]

----------------------------------------------------------------------------
(* dedup_findings. *)

\* What _collapse makes of the rows of one key: the tools, the worst severity and
\* the widest interval; the other columns come from whichever row is first.
Collapse(group) ==
    LET severities == {f.severity_canonical : f \in group}
        starts     == {f.first_seen_at : f \in group}
        ends       == {f.last_seen_at : f \in group}
    IN  [category      |-> (CHOOSE f \in group : TRUE).category,
         tool_sources  |-> {f.tool_source : f \in group},
         severity      |-> CHOOSE s \in severities :
                              \A other \in severities : SeverityLadder[other] <= SeverityLadder[s],
         first_seen_at |-> CHOOSE t \in starts : \A other \in starts : t <= other,
         last_seen_at  |-> CHOOSE t \in ends : \A other \in ends : other <= t]

DedupFindings(rows) ==
    {[key |-> key, row |-> Collapse({f \in rows : DedupKey(f) = key})] :
        key \in {DedupKey(f) : f \in rows}}

----------------------------------------------------------------------------
(* dedup_link_overlap. *)

Linking(rows, table, t) == {f \in rows : ~IsRowSuppressed(f, table, t) /\ Links(f)}

\* Mutant of LinkedPairs: pairs of rows are counted, not keys.
LinkedRowPairs(linking, category, tools) ==
    {p \in linking \X linking :
        /\ p[1].category = category /\ p[2].category = category
        /\ {p[1].tool_source, p[2].tool_source} = tools
        /\ OverlapKey(p[1]) = OverlapKey(p[2])}

\* The keys of a category that each tool of a pair has reported.
LinkedPairs(linking, category, tools) ==
    LET KeysOf(tool) == {OverlapKey(f) : f \in
                            {g \in linking : g.category = category /\ g.tool_source = tool}}
    IN  {key \in UNION {KeysOf(tool) : tool \in tools} : \A tool \in tools : key \in KeysOf(tool)}

ToolPairs(rows) == {{a, b} : a \in {f.tool_source : f \in rows},
                             b \in {f.tool_source : f \in rows}}

\* tool_source_a and tool_source_b as the unordered pair they stand for.
ComputeOverlapRows(rows, table, t) ==
    LET linking == Linking(rows, table, t)
    IN  {[tools |-> pair[1], category |-> pair[2],
          linked_pair_count |-> Cardinality(LinkedPairs(linking, pair[2], pair[1]))] :
            pair \in {p \in ToolPairs(linking) \X DOMAIN CATEGORY_DEDUP_KEYS :
                         /\ Cardinality(p[1]) = 2
                         /\ LinkedPairs(linking, p[2], p[1]) # {}}}
=============================================================================
