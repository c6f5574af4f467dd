----------------------------- MODULE PreMergeGate -----------------------------
(***************************************************************************)
(* The pre-merge gate (analytics/app) on top of the sonarqube-connector     *)
(* job: the open-findings view joins silver.findings with the links of      *)
(* silver.app_repo_mapping, an Online Table replicates the view, and        *)
(* POST /v1/precommit looks the candidate findings of a pull request up in  *)
(* the replica and compares their severities with the policy threshold.     *)
(*                                                                         *)
(* The linker is what LinkRegistry promises of it: links that appear and    *)
(* never go.  The Online Table (external) keeps one row per primary key,    *)
(* finding_id, and brings one key at a time up to date with the view.       *)
(***************************************************************************)
EXTENDS SonarQubeJob

CONSTANTS
    Apps, Repos,
    RepoOf,           \* [Issues -> Repos], the project of the component
    Candidates,       \* ids a pull request may name, issue keys among them
    PolicyThreshold,  \* block_severity_threshold of policy.yml
    NoRow

ASSUME GateAssumption ==
    /\ RepoOf \in [Issues -> Repos]
    /\ Issues \subseteq Candidates

VARIABLES
    links,    \* the <<application, repository>> pairs of silver.app_repo_mapping
    replica,  \* replica[f]: the row of silver_online.app_repo_findings, or NoRow
    verdict   \* the last answer of the gate: what was asked and what blocks

gateVars == <<links, replica, verdict>>
allVars  == <<sonarVars, gateVars>>

----------------------------------------------------------------------------
(* The policy. *)

SEVERITY_RANK == [info |-> 0, low |-> 1, medium |-> 2, high |-> 3, critical |-> 4]

\* A threshold that is not on the ladder falls back to the default.
Threshold == IF PolicyThreshold \in DOMAIN SEVERITY_RANK THEN PolicyThreshold ELSE "high"

Rank(row) == IF row.severity_canonical \in DOMAIN SEVERITY_RANK
             THEN SEVERITY_RANK[row.severity_canonical] ELSE 0

\* Mutant of Evaluate: only what exceeds the threshold blocks.
EvaluateAbove(rows) == {row \in rows : Rank(row) > SEVERITY_RANK[Threshold]}

\* The rows that block the pull request; it is allowed when there are none.
Evaluate(rows) == {row \in rows : Rank(row) >= SEVERITY_RANK[Threshold]}

----------------------------------------------------------------------------
(* The view and its replica. *)

Row(i, app, v) == [finding_id |-> i, repository_id |-> RepoOf[i], application_id |-> app,
                   severity_canonical |-> v]

Rows == {Row(i, app, SeverityCanonical(n)) : i \in Issues, app \in Apps, n \in Natives}

ASSUME RowAssumption == NoRow \notin Rows

Linked(row) == <<row.application_id, row.repository_id>> \in links

\* The rows of silver.findings in one status that bear the severity of this row.
Held(row, s) == /\ <<s, row.severity_canonical>> \in Standings
                /\ silver[<<row.finding_id, <<s, row.severity_canonical>>>>] > 0

\* Mutant of View: findings of any status.
ViewAnyStatus == {row \in Rows : Linked(row) /\ \E s \in Canonical : Held(row, s)}

\* gold.app_repo_findings_open: one row for each open row of silver.findings and
\* each link, so a finding whose severity has changed has rows of both.
View == {row \in Rows : Linked(row) /\ Held(row, "open")}

RowsFor(f) == {row \in View : row.finding_id = f}

GateInit ==
    /\ SonarInit
    /\ links = {}
    /\ replica = [f \in Candidates |-> NoRow]
    /\ verdict = [asked |-> {}, blocking |-> {}]

\* A linker run publishes a link.
Link(app, repo) ==
    /\ <<app, repo>> \notin links
    /\ links' = links \union {<<app, repo>>}
    /\ UNCHANGED <<sonarVars, replica, verdict>>

\* What the replica can hold for a finding: any one of the view's rows for it.
Shown(f) == LET rows == RowsFor(f) IN IF rows = {} THEN {NoRow} ELSE rows

\* The Online Table brings the finding up to date, or takes up a row of it that a
\* run has appended again in place of another that is still in the view.
Stale(f) == replica[f] \notin Shown(f)
Sync(f) ==
    /\ \E row \in Shown(f) \ {replica[f]} : replica' = [replica EXCEPT ![f] = row]
    /\ UNCHANGED <<sonarVars, links, verdict>>

Fetched(asked) == {replica[f] : f \in asked} \ {NoRow}

\* One call of the gate.  A pull request without candidates is allowed unseen,
\* which is what evaluating no rows comes to.
Precommit(asked) ==
    /\ verdict' = [asked |-> asked, blocking |-> Evaluate(Fetched(asked))]
    /\ UNCHANGED <<sonarVars, links, replica>>

SyncSome == \E f \in Candidates : Sync(f)

GateNext ==
    \/ SonarNext /\ UNCHANGED gateVars
    \/ \E app \in Apps, repo \in Repos : Link(app, repo)
    \/ SyncSome
    \/ \E asked \in SUBSET Candidates : Precommit(asked)

GateSpec == GateInit /\ [][GateNext]_allVars

\* The job as in SonarFairSpec; the Online Table runs continuously and does not
\* leave a finding stale, but nothing makes it exchange one open row for another.
\* Nobody has to call the gate.
GateFairSpec == /\ GateSpec
                /\ WF_allVars(UNCHANGED gateVars /\ JobStep)
                /\ \A f \in Candidates : WF_allVars(Stale(f) /\ Sync(f))

----------------------------------------------------------------------------
(* Properties. *)

Allowed == verdict.blocking = {}

\* What the policy asks to be blocked: its threshold and what is above it, or the
\* default of high when it names no severity there is.
Severe(v) == IF PolicyThreshold \in Severities
             THEN SEVERITY_RANK[v] >= SEVERITY_RANK[PolicyThreshold]
             ELSE v \in {"high", "critical"}

\* The gate never blocks without cause: every finding it names was asked for, is
\* as severe as the policy asks, belongs to an application that is linked to its
\* repository, and was at some time open on the server in that severity.
BlocksForCause ==
    \A row \in verdict.blocking :
        /\ row.finding_id \in verdict.asked
        /\ Severe(row.severity_canonical)
        /\ Linked(row)
        /\ \E n \in Natives :
              <<row.finding_id, n>> \in had /\ StandingOf(n) = <<"open", row.severity_canonical>>

\* The server has reported the issue open in a severity the policy lets pass.
OnceMild(i) ==
    \E n \in Natives : <<i, n>> \in had /\ StatusOf(n) = "open" /\ ~Severe(SeverityCanonical(n))

\* Asked again about the same findings or more, the gate lets through what it has
\* blocked only if each finding it named was once reported open in a severity
\* below the threshold, whose row the replica may hold instead; no fix, dismissal,
\* run, link or synchronisation lifts a block otherwise.
BlocksLiftForCause ==
    [][verdict.asked \subseteq verdict'.asked /\ Allowed'
          => \A row \in verdict.blocking : OnceMild(row.finding_id)]_allVars

\* A severe issue that stays open in a linked repository comes to block the pull
\* requests that name it, although runs fail and the replica lags, unless it was
\* once open in a severity below the threshold: then the replica may hold that row
\* for ever, since each run appends both again.
StaysOpen(i, n) == source[i] = n /\ \E app \in Apps : <<app, RepoOf[i]>> \in links
SevereIssuesComeToBlock ==
    \A i \in SecurityIssues :
        \A n \in {m \in Natives : StatusOf(m) = "open" /\ Severe(SeverityCanonical(m))} :
            StaysOpen(i, n) /\ ~OnceMild(i) ~> source[i] # n \/ Evaluate(Fetched({i})) # {}

\* online-tables.md:75-76: the view "already filters to status_canonical =
\* 'open', so the App does not need to re-filter".  The filter drops rows, not
\* findings: the open row that an earlier run appended goes on blocking after
\* the issue was fixed.
FixedIssuesStopBlocking ==
    \A i \in SecurityIssues, n \in {m \in Natives : StatusOf(m) = "resolved"} :
        source[i] = n ~> source[i] # n \/ replica[i] = NoRow
=============================================================================
