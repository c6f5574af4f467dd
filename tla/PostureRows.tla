------------------------------ MODULE PostureRows ------------------------------
(***************************************************************************)
(* The aggregation of gold.app_risk_posture_daily: compute_posture_rows of  *)
(* analytics/notebooks/gold/app_risk_posture_daily.py, which is given the   *)
(* collected rows of three tables and counts open and closed findings for   *)
(* each application and severity.  tables is the record of those rows.      *)
(***************************************************************************)
EXTENDS Suppression

CONSTANT UNMAPPED     \* "__UNMAPPED__"

ASSUME UnmappedAssumption == UNMAPPED \in Values

OPEN_STATUS     == "open"
CLOSED_STATUSES == {"resolved", "wontfix", "false_positive"}

Unlinked == [application_id |-> UNMAPPED, repository_id |-> Null, link_source |-> Null]

\* Mutant of LinksOf: a finding without a link joins with nothing.
LinksOfInner(f, links) == {m \in links : m.repository_id = f.repository_id}

\* The mapping rows a finding joins with, one bucket entry for each; findings
\* without any fall to the sentinel.
LinksOf(f, links) ==
    LET own == {m \in links : m.repository_id = f.repository_id}
    IN  IF own = {} THEN {Unlinked} ELSE own

\* Mutant of JoinedRow: suppression is applied before the join.
JoinedRowBefore(f, m) == f

\* A finding's own columns and the application of the link.
JoinedRow(f, m) == [column \in DOMAIN f \union {"application_id"} |->
                       IF column = "application_id" THEN m.application_id ELSE f[column]]

\* The joined rows that no rule mutes.
Surviving(tables, t) ==
    {pair \in UNION {{f} \X LinksOf(f, tables.mapping) : f \in tables.findings} :
        ~IsRowSuppressed(JoinedRow(pair[1], pair[2]), tables.rules, t)}

Bucket(pairs, app, severity) ==
    {p \in pairs : p[2].application_id = app /\ p[1].severity_canonical = severity}

Tally(pairs, statuses) == Cardinality({p \in pairs : p[1].status_canonical \in statuses})

OpenCount(tables, t, app, severity) ==
    Tally(Bucket(Surviving(tables, t), app, severity), {OPEN_STATUS})

ComputePostureRows(tables, t) ==
    LET pairs == Surviving(tables, t)
    IN  {[snapshot_date |-> t, application_id |-> key[1], severity_canonical |-> key[2],
          open_count   |-> Tally(Bucket(pairs, key[1], key[2]), {OPEN_STATUS}),
          closed_count |-> Tally(Bucket(pairs, key[1], key[2]), CLOSED_STATUSES)] :
            key \in {<<p[2].application_id, p[1].severity_canonical>> : p \in pairs}}
=============================================================================
