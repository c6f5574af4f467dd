------------------------------- MODULE GoldTables -------------------------------
(***************************************************************************)
(* The gold tables that one run of the analytics job derives from           *)
(* silver.findings, as connectors go on appending to it.  A connector's     *)
(* tool reports findings in batches; every transform appends the whole      *)
(* bronze table of the connector to silver once more (see SonarQubeJob), so *)
(* silver holds as many rows of a finding as transforms have run since it   *)
(* arrived.  Operators add suppression rules, the linker adds links, and    *)
(* time passes.                                                             *)
(*                                                                         *)
(* The tables are overwritten by every run, each by a notebook of its own,  *)
(* so what a run writes is a function of the tables it reads: the heatmap   *)
(* of Heatmap, the overlap of DedupOverlap, the matrix of Coverage and the  *)
(* times of Mttr.  This module relates them at every moment and across      *)
(* steps.  (What reading the inputs at several moments does is the subject  *)
(* of Posture.)                                                             *)
(***************************************************************************)
EXTENDS Heatmap, DedupOverlap, Coverage, Mttr

CONSTANTS
    Findings,        \* what the tools can report
    Batches,         \* sets of findings reported together
    LinkRows,        \* rows the linker may merge into silver.app_repo_mapping
    Mutes,           \* <<scope, pattern>> pairs an operator may enter
    MaxTransforms    \* bound on the transforms of each connector

Tools == {f.tool_source : f \in Findings}

\* The columns of silver.findings that the gold tables read.
FindingColumns == SelectedColumns \union
    {"severity_canonical", "cve_id", "start_line", "url", "first_seen_at", "last_seen_at"}

\* A finding has the times that silver.findings requires (platform/schemas.py:64-65).
ASSUME FindingsAssumption ==
    /\ IsFiniteSet(Findings) /\ Batches \subseteq SUBSET Findings
    /\ \A f \in Findings : /\ FindingColumns \subseteq DOMAIN f
                           /\ f.first_seen_at \in Int /\ f.last_seen_at \in Int
                           /\ f.first_seen_at <= f.last_seen_at
    /\ MaxTransforms \in Nat

\* The ids are URLs, UUIDs and hashes of the tools: one that names a finding of
\* one category names none of another.
ASSUME IdsAssumption ==
    \A f, g \in Findings : f.finding_id = g.finding_id => f.category = g.category

\* application_id is NOT NULL in silver.app_repo_mapping (platform/schemas.py:41).
ASSUME LinksAssumption == \A m \in LinkRows : m.application_id # Null

VARIABLES
    bronze,      \* the findings in the connectors' bronze tables
    copies,      \* copies[f]: the rows of finding f in silver.findings
    transforms,  \* transforms[tool]: transforms run so far
    mapping      \* silver.app_repo_mapping

lakeVars == <<bronze, copies, transforms, mapping>>
goldVars == <<vars, lakeVars>>

\* silver.findings: rows are told apart by a column of their own.
Row(f, i) == [column \in DOMAIN f \union {"copy"} |-> IF column = "copy" THEN i ELSE f[column]]
RowOf == [p \in Findings \X (1..MaxTransforms) |-> Row(p[1], p[2])]
Silver == {RowOf[p] : p \in {q \in DOMAIN RowOf : q[2] <= copies[q[1]]}}

Tables == [findings |-> Silver, mapping |-> mapping, rules |-> rules]

----------------------------------------------------------------------------
GoldInit ==
    /\ Init
    /\ bronze = {} /\ copies = [f \in Findings |-> 0]
    /\ transforms = [tool \in Tools |-> 0] /\ mapping = {}

\* A connector's ingest lands a batch that was seen by now.
Arrive(batch) ==
    /\ ~ batch \subseteq bronze
    /\ \A f \in batch : f.last_seen_at <= now
    /\ bronze' = bronze \union batch
    /\ UNCHANGED <<vars, copies, transforms, mapping>>

\* A connector's transform appends its whole bronze table.
Transform(tool) ==
    /\ transforms[tool] < MaxTransforms
    /\ transforms' = [transforms EXCEPT ![tool] = @ + 1]
    /\ copies' = [f \in Findings |-> IF f \in bronze /\ f.tool_source = tool
                                     THEN copies[f] + 1 ELSE copies[f]]
    /\ UNCHANGED <<vars, bronze, mapping>>

Link(m) == /\ m \notin mapping /\ mapping' = mapping \union {m}
           /\ UNCHANGED <<vars, bronze, copies, transforms>>

Mute(scope, pattern, days) == Insert(scope, pattern, days) /\ UNCHANGED lakeVars

GoldNext ==
    \/ \E batch \in Batches : Arrive(batch)
    \/ \E tool \in Tools : Transform(tool)
    \/ \E m \in LinkRows : Link(m)
    \/ \E mute \in Mutes, days \in 1..MaxDays : Mute(mute[1], mute[2], days)
    \/ Tick /\ UNCHANGED lakeVars

GoldSpec == GoldInit /\ [][GoldNext]_goldVars

----------------------------------------------------------------------------
(* Properties. *)

\* A total is the size of the disjoint union of what the rows count.
HeatmapTotal(app) ==
    Cardinality(UNION {{r} \X (1..r.finding_count) :
                          r \in {h \in SparkHeatmap(Tables, now) : h.cell.application_id = app}})
PostureTotal(app) ==
    Cardinality(UNION {{r} \X (1..r.open_count) :
                          r \in {p \in ComputePostureRows(Tables, now) : p.application_id = app}})
NullScoped(f) == \E rule \in rules : /\ IsRuleActive(rule, now)
                                     /\ rule.scope \in DOMAIN f /\ f[rule.scope] = Null

\* The two dashboards agree: the heatmap the Spark plan writes never shows more
\* open findings for an application than app_risk_posture_daily does, and as
\* many where no row is NULL in the scope column of an active rule.
HeatmapWithinPosture ==
    \A app \in {m.application_id : m \in LinkRows} \union {UNMAPPED} :
        /\ HeatmapTotal(app) <= PostureTotal(app)
        /\ (\A f \in Silver : ~NullScoped(f)) => HeatmapTotal(app) = PostureTotal(app)

\* dedup_link_overlap.py:23: the dedup tuple "matches src.platform.silver.
\* dedup_findings".  For sast and dast it does: where no key column is NULL, two
\* tools are linked as often as dedup_findings collapses rows of both into one,
\* and never more often.  (For sca and secrets dedup_findings never joins tools.)
Collapsed(rows, category, tools) ==
    {r \in DedupFindings(rows) : r.row.category = category /\ tools \subseteq r.row.tool_sources}
LinkedCount(category, tools) ==
    Cardinality(LinkedPairs(Linking(Silver, {}, now), category, tools))
OverlapMatchesDedup ==
    \A category \in {"sast", "dast"}, tools \in ToolPairs(Silver) :
        Cardinality(tools) = 2 =>
            /\ LinkedCount(category, tools) <= Cardinality(Collapsed(Silver, category, tools))
            /\ LinkedCount(category, tools) =
                  Cardinality(Collapsed({f \in Silver : Links(f)}, category, tools))

\* Appending again what silver already has is no evidence: it changes neither
\* the overlap nor the coverage nor what dedup_findings would make of silver,
\* and takes no cell out of the heatmap.
Replayed == /\ UNCHANGED <<vars, mapping>>
            /\ \A f \in Findings : copies'[f] > 0 => copies[f] > 0
OverlapNow  == ComputeOverlapRows(Silver, rules, now)
CoverageNow == ComputeCoverageRows(Silver, now)
CellsNow    == {r.cell : r \in SparkHeatmap(Tables, now)}
ReplaysAddNoEvidence ==
    [][Replayed => /\ OverlapNow' = OverlapNow /\ CoverageNow' = CoverageNow
                   /\ DedupFindings(Silver)' = DedupFindings(Silver)
                   /\ CellsNow' = CellsNow]_goldVars

\* A cell of the matrix becomes fresh only by a finding of that repository and
\* category that is new to silver and was seen no longer ago than the threshold, and
\* stale only by time, when it has none left: never by a rule, a link or a replay,
\* and not on the very day of the threshold.
StaleCells == {<<r.repository_id, r.category>> : r \in {c \in CoverageNow : c.is_stale}}
HeldFindings == {f \in Findings : copies[f] > 0}
FreshFrom(findings, instant) ==
    {<<f.repository_id, f.category>> :
        f \in {g \in findings : instant - g.last_seen_at <= threshold_days}}
CoverageFollowsEvidence ==
    [][/\ StaleCells \ StaleCells' \subseteq FreshFrom(HeldFindings' \ HeldFindings, now')
       /\ (StaleCells' \ StaleCells) \intersect FreshFrom(HeldFindings', now') = {}
       /\ StaleCells' \subseteq StaleCells \/ now' > now]_goldVars

\* The helper the tests exercise and the plan that runs disagree only so far:
\* Spark's median is never the larger and is the same for an odd sample, its
\* 90th percentile is never the larger and is the same unless ten divides the
\* sample, and either 90th percentile is at least the median.
MttrEnginesOrdered ==
    \A p \in ComputeMttrRows(Silver, {}, now), s \in SparkMttr(Silver, {}, now) :
        p.group = s.group =>
            /\ s.median_twice <= p.median_twice
            /\ p.sample_size % 2 = 1 => s.median_twice = p.median_twice
            /\ s.p90 <= p.p90
            /\ p.sample_size % 10 # 0 => s.p90 = p.p90
            /\ p.median_twice <= 2 * p.p90 /\ s.median_twice <= 2 * s.p90

=============================================================================
