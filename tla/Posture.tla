-------------------------------- MODULE Posture --------------------------------
(***************************************************************************)
(* gold.app_risk_posture_daily (analytics/notebooks/gold/                   *)
(* app_risk_posture_daily.py): open and closed finding counts for each      *)
(* application and severity, recomputed and overwritten by every run.  The  *)
(* notebook collects silver.findings, silver.app_repo_mapping and           *)
(* silver.suppression_rules one after the other, with no common snapshot,   *)
(* while connectors append findings, the linker adds links, operators add   *)
(* rules and rules expire.                                                  *)
(*                                                                         *)
(* Rules, clock and matching are those of Suppression.                      *)
(***************************************************************************)
EXTENDS PostureRows

CONSTANTS
    FindingRows,  \* rows a connector may append to silver.findings
    LinkRows,     \* rows the linker may merge into silver.app_repo_mapping
    Muting,       \* target patterns that operators enter
    Parameters,   \* parameter sets a run is started with
    MaxRuns       \* bound on the runs

ASSUME RowsAssumption ==
    /\ IsFiniteSet(FindingRows) /\ IsFiniteSet(LinkRows)
    /\ \A f \in FindingRows : f.repository_id \in Values \union {Null}
    /\ \A m \in LinkRows : m.application_id \in Values /\ m.repository_id \in Values
ASSUME MutingAssumption == Muting \subseteq Patterns
ASSUME SentinelAssumption == \A m \in LinkRows : m.application_id # UNMAPPED
ASSUME RunsAssumption == MaxRuns \in Nat

VARIABLES
    findings,  \* silver.findings
    mapping,   \* silver.app_repo_mapping
    step,      \* where the run stands
    widgets,   \* the parameters the run was started with
    collected, \* the three tables as the run has collected them so far
    atStart,   \* history: the three tables when the run under way began to read
    gold,      \* gold.app_risk_posture_daily
    runs       \* runs started

silverVars  == <<findings, mapping>>
runVars     == <<step, widgets, collected, atStart, gold, runs>>
postureVars == <<vars, silverVars, runVars>>

Nothing == [findings |-> {}, mapping |-> {}, rules |-> {}]
Steps   == {"idle", "started", "findings", "mapping", "rules", "compute", "written", "failed"}

Severities == {f.severity_canonical : f \in FindingRows}
Applications == {m.application_id : m \in LinkRows} \union {UNMAPPED}

----------------------------------------------------------------------------
(* The tables the notebook reads, and their writers. *)

Tables == [findings |-> findings, mapping |-> mapping, rules |-> rules]

PostureInit ==
    /\ Init
    /\ findings = {} /\ mapping = {}
    /\ step = "idle" /\ widgets = {} /\ collected = Nothing /\ atStart = Nothing
    /\ gold = {} /\ runs = 0

AppendFinding(f) == /\ f \notin findings /\ findings' = findings \union {f}
                    /\ UNCHANGED <<vars, mapping, runVars>>

MergeLink(m) == /\ m \notin mapping /\ mapping' = mapping \union {m}
                /\ UNCHANGED <<vars, findings, runVars>>

\* Time passes, or the admin notebook adds a rule.
RulesStep ==
    /\ \/ Tick
       \/ \E scope \in CanonicalScopes, pattern \in Muting, days \in 0..MaxDays :
             Insert(scope, pattern, days)
    /\ UNCHANGED <<silverVars, runVars>>

----------------------------------------------------------------------------
(* The notebook. *)

Start(parameters) ==
    /\ step \in {"idle", "written", "failed"} /\ runs < MaxRuns
    /\ step' = "started" /\ widgets' = parameters /\ runs' = runs + 1
    /\ UNCHANGED <<vars, silverVars, collected, atStart, gold>>

\* An absent parameter leaves the widget at its default, the empty string, and
\* the notebook raises.
ReadWidget ==
    /\ step = "started"
    /\ IF "catalog" \in widgets
       THEN step' = "findings" /\ atStart' = Tables
       ELSE step' = "failed" /\ UNCHANGED atStart
    /\ widgets' = {}
    /\ UNCHANGED <<vars, silverVars, collected, gold, runs>>

\* The three tables are collected in this order.
CollectTable(table, next) ==
    /\ step = table
    /\ collected' = [collected EXCEPT ![table] = Tables[table]]
    /\ step' = next
    /\ UNCHANGED <<vars, silverVars, widgets, atStart, gold, runs>>

Collect == \/ CollectTable("findings", "mapping")
           \/ CollectTable("mapping", "rules")
           \/ CollectTable("rules", "compute")

\* Mutant of Write: an append to the table.
WriteAppend ==
    /\ step = "compute"
    /\ gold' = gold \union ComputePostureRows(collected, now)
    /\ step' = "written" /\ collected' = Nothing /\ atStart' = Nothing
    /\ UNCHANGED <<vars, silverVars, widgets, runs>>

\* Mutant of Write: a table that exists is left as it is.
WriteOnce ==
    /\ step = "compute"
    /\ gold' = IF gold = {} THEN ComputePostureRows(collected, now) ELSE gold
    /\ step' = "written" /\ collected' = Nothing /\ atStart' = Nothing
    /\ UNCHANGED <<vars, silverVars, widgets, runs>>

Write ==
    /\ step = "compute"
    /\ gold' = ComputePostureRows(collected, now)
    /\ step' = "written" /\ collected' = Nothing /\ atStart' = Nothing
    /\ UNCHANGED <<vars, silverVars, widgets, runs>>

Notebook == ReadWidget \/ Collect \/ Write

PostureNext ==
    \/ \E f \in FindingRows : AppendFinding(f)
    \/ \E m \in LinkRows : MergeLink(m)
    \/ RulesStep
    \/ \E parameters \in Parameters : Start(parameters)
    \/ Notebook

PostureSpec == PostureInit /\ [][PostureNext]_postureVars

----------------------------------------------------------------------------
(* Properties. *)

\* Types, and one row for each application and severity: the primary key of the
\* Online Table over gold holds whatever day it is.
PostureTypeOK ==
    /\ findings \subseteq FindingRows /\ mapping \subseteq LinkRows
    /\ step \in Steps /\ runs \in 0..MaxRuns
    /\ \A row \in gold : row.open_count \in Nat /\ row.closed_count \in Nat
    /\ \A r1, r2 \in gold :
          r1.application_id = r2.application_id
            /\ r1.severity_canonical = r2.severity_canonical => r1 = r2

PublishedOpen(app, severity) ==
    LET rows == {row \in gold : row.application_id = app /\ row.severity_canonical = severity}
    IN  IF rows = {} THEN 0 ELSE (CHOOSE row \in rows : TRUE).open_count

\* Although the three tables are read at three instants, what a run publishes
\* for an application lies between the count of the findings and links at its
\* start under the rules at its end, and the count at its end under the rules
\* at its start.  (The unmapped bucket has no such bound: a link that appears
\* takes findings out of it.)
OpenCountsWithinTheRun ==
    [][step = "compute" /\ step' = "written" =>
         \A app \in Applications \ {UNMAPPED}, severity \in Severities :
            /\ OpenCount([atStart EXCEPT !.rules = rules], now, app, severity)
                 <= PublishedOpen(app, severity)'
            /\ PublishedOpen(app, severity)'
                 <= OpenCount([Tables EXCEPT !.rules = atStart.rules], now, app, severity)
      ]_postureVars

\* Every finding that was there when the run began has its severity shown for
\* every application that was linked to its repository then, and under the
\* sentinel if none is linked when the run ends, unless a rule mutes it there
\* (app_risk_posture_daily.py:6-8).
Shown(f, m) ==
    \/ \E row \in gold : /\ row.application_id = m.application_id
                         /\ row.severity_canonical = f.severity_canonical
    \/ IsRowSuppressed(JoinedRow(f, m), rules, now)
EveryFindingAppears ==
    [][step = "compute" /\ step' = "written" =>
         \A f \in atStart.findings :
            /\ \A m \in atStart.mapping : m.repository_id = f.repository_id => Shown(f, m)'
            /\ (\A m \in mapping : m.repository_id # f.repository_id) => Shown(f, Unlinked)'
      ]_postureVars

\* A rule that mutes an application resolves, although findings carry no
\* application (app_risk_posture_daily.py:10-12): where it was there when the
\* run began and is active when it ends, the application has no row.
MutedApplicationsVanish ==
    [][step = "compute" /\ step' = "written" =>
         \A rule \in atStart.rules, row \in gold' :
            rule.scope = "application_id" /\ IsRuleActive(rule, now)
               => ~RuleMatchesValue(rule, row.application_id)
      ]_postureVars
=============================================================================
